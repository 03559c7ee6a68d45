------------------------- MODULE KernelQueueProofs -------------------------
(***************************************************************************)
(* Proofs about module KernelQueue, for any number of tasks that send and  *)
(* receive, any priorities, any length of the queue, any block times and   *)
(* any width of the tick: the lists, the wake-ups and the time-outs.       *)
(***************************************************************************)
EXTENDS KernelQueue, SequenceTheorems, FiniteSetTheorems, WellFoundedInduction, TLAPS

-----------------------------------------------------------------------------
(* Induction over sets of naturals *)

LEMMA Induct ==
  ASSUME NEW Q \in SUBSET Nat, 0 \in Q, \A n \in Q : n + 1 \in Q
  PROVE  Q = Nat
<1> SUFFICES ASSUME Nat \ Q # {} PROVE FALSE
  OBVIOUS
<1>1. PICK n \in Nat \ Q : \A m \in Nat \ Q : ~(<<m, n>> \in OpToRel(<, Nat))
  <2> DEFINE R == Nat \ Q
  <2>1. R \subseteq Nat /\ R # {}
    OBVIOUS
  <2> HIDE DEF R
  <2>2. PICK n \in R : \A m \in R : ~(<<m, n>> \in OpToRel(<, Nat))
    BY <2>1, NatLessThanWellFounded, WFMin
  <2> QED BY <2>2 DEF R
<1>2. n # 0 /\ n - 1 \in Nat /\ n - 1 + 1 = n
  OBVIOUS
<1>3. ~(n - 1 \in Q)
  BY <1>2
<1>4. <<n - 1, n>> \in OpToRel(<, Nat)
  BY <1>2 DEF OpToRel
<1> QED BY <1>1, <1>2, <1>3, <1>4

\* A set of naturals has a least one.
LEMMA Least ==
  ASSUME NEW Q \in SUBSET Nat, Q # {}
  PROVE  \E n \in Q : \A m \in Q : n <= m
<1>1. PICK n \in Q : \A m \in Q : ~(<<m, n>> \in OpToRel(<, Nat))
  BY NatLessThanWellFounded, WFMin
<1>2. ASSUME NEW m \in Q PROVE n <= m
  <2>1. n \in Nat /\ m \in Nat
    OBVIOUS
  <2>2. ~(m < n)
    BY <1>1, <2>1 DEF OpToRel
  <2> QED BY ONLY <2>1, <2>2
<1> QED BY <1>2

-----------------------------------------------------------------------------
(* Event lists *)

Has(s, u) == \E i \in DOMAIN s : s[i] = u

Sorted(s) == \A i, j \in DOMAIN s : i < j => Priority[s[i]] >= Priority[s[j]]

\* A list of tasks, each once, in the order of their priorities.
EventList(s) == s \in Seq(Tasks) /\ IsInjective(s) /\ Sorted(s)

LEMMA Facts ==
  /\ Priority \in [Tasks -> Nat] /\ IsFiniteSet(Tasks) /\ None \notin Tasks
  /\ \A t \in Tasks : (t \in Receivers <=> Side(t) = "recv") /\ (t \notin Receivers <=> Side(t) = "send")
  /\ uxLength \in Nat \ {0} /\ MaxPended \in Nat \ {0}
  /\ TickRange \in Nat \ {0, 1} /\ Ticks = 0 .. TickRange - 1 /\ portMAX_DELAY = TickRange - 1
  /\ portMAX_DELAY \in Ticks
  /\ Waits \in [Tasks -> SUBSET Ticks]
BY QueueAssumption DEF Side, Ticks, portMAX_DELAY

\* One more element at the end.
LEMMA Extended ==
  ASSUME NEW s, EventList(s), NEW u \in Tasks, ~Has(s, u),
         \A v : Has(s, v) => Priority[v] >= Priority[u],
         NEW new, new = Append(s, u)
  PROVE  EventList(new) /\ \A v : Has(new, v) <=> Has(s, v) \/ v = u
<1>1. /\ new \in Seq(Tasks) /\ s \in Seq(Tasks) /\ Len(s) \in Nat
      /\ DOMAIN s = 1 .. Len(s) /\ DOMAIN new = 1 .. Len(s) + 1
      /\ \A i \in 1 .. Len(s) : new[i] = s[i]
      /\ new[Len(s) + 1] = u
  BY DEF EventList
<1>2. ASSUME NEW i \in 1 .. Len(s) + 1 PROVE i \in 1 .. Len(s) \/ i = Len(s) + 1
  BY <1>1
<1>3. 1 .. Len(s) \subseteq 1 .. Len(s) + 1 /\ Len(s) + 1 \in 1 .. Len(s) + 1
  BY <1>1
<1>4. ASSUME NEW v PROVE Has(new, v) <=> Has(s, v) \/ v = u
  BY <1>1, <1>2, <1>3 DEF Has
<1>5. \A i \in 1 .. Len(s) : s[i] # u /\ Has(s, s[i])
  BY <1>1 DEF Has
<1>6. IsInjective(new)
  <2>1. \A i, j \in 1 .. Len(s) : s[i] = s[j] => i = j
    BY <1>1 DEF EventList, IsInjective
  <2> SUFFICES ASSUME NEW i \in 1 .. Len(s) + 1, NEW j \in 1 .. Len(s) + 1, new[i] = new[j]
               PROVE  i = j
    BY <1>1 DEF IsInjective
  <2> QED BY <1>1, <1>2, <1>5, <2>1
<1>7. Sorted(new)
  <2> SUFFICES ASSUME NEW i \in 1 .. Len(s) + 1, NEW j \in 1 .. Len(s) + 1, i < j
               PROVE  Priority[new[i]] >= Priority[new[j]]
    BY <1>1 DEF Sorted
  <2>1. i \in 1 .. Len(s)
    BY <1>1
  <2>2. CASE j \in 1 .. Len(s)
    BY <1>1, <2>1, <2>2 DEF EventList, Sorted
  <2>3. CASE j = Len(s) + 1
    BY <1>1, <1>5, <2>1, <2>3
  <2> QED BY <1>2, <2>2, <2>3
<1> QED BY <1>1, <1>4, <1>6, <1>7 DEF EventList

\* What is kept of the first n elements.
IsKept(f, s, T, n) ==
  f = [i \in 0 .. n |-> IF i = 0 THEN <<>> ELSE IF s[i] \in T THEN f[i - 1] ELSE Append(f[i - 1], s[i])]

LEMMA KeptExists ==
  ASSUME NEW s, NEW T, NEW n \in Nat PROVE \E f : IsKept(f, s, T, n)
<1> DEFINE Q == {m \in Nat : \E f : IsKept(f, s, T, m)}
<1>1. 0 \in Q
  <2>1. IsKept([i \in 0 .. 0 |-> <<>>], s, T, 0)
    BY DEF IsKept
  <2> QED BY <2>1
<1>2. ASSUME NEW m \in Q PROVE m + 1 \in Q
  <2>1. PICK f : IsKept(f, s, T, m)
    OBVIOUS
  <2> DEFINE last == IF s[m + 1] \in T THEN f[m] ELSE Append(f[m], s[m + 1])
             g == [i \in 0 .. m + 1 |-> IF i = m + 1 THEN last ELSE f[i]]
  <2>2. ASSUME NEW i \in 0 .. m + 1
        PROVE  g[i] = IF i = 0 THEN <<>> ELSE IF s[i] \in T THEN g[i - 1] ELSE Append(g[i - 1], s[i])
    <3>1. CASE i = m + 1
      <4>1. i # 0 /\ i - 1 \in 0 .. m + 1 /\ i - 1 = m /\ g[i - 1] = f[m]
        BY <3>1
      <4> QED BY <3>1, <4>1
    <3>2. CASE i # m + 1
      <4>1. i \in 0 .. m /\ g[i] = f[i] /\ (i # 0 => i - 1 \in 0 .. m /\ g[i - 1] = f[i - 1])
        BY <3>2
      <4>2. f[i] = IF i = 0 THEN <<>> ELSE IF s[i] \in T THEN f[i - 1] ELSE Append(f[i - 1], s[i])
        BY <2>1, <4>1 DEF IsKept
      <4> QED BY <4>1, <4>2
    <3> QED BY <3>1, <3>2
  <2>3. IsKept(g, s, T, m + 1)
    <3>1. g = [i \in 0 .. m + 1 |-> g[i]]
      OBVIOUS
    <3> HIDE DEF g
    <3> QED BY <2>2, <3>1 DEF IsKept
  <2> QED BY <2>3
<1>3. Q = Nat
  <2>1. Q \in SUBSET Nat
    OBVIOUS
  <2> HIDE DEF Q
  <2> QED BY <1>1, <1>2, <2>1, Induct
<1> QED BY <1>3

LEMMA Left ==
  ASSUME NEW s, EventList(s), NEW T
  PROVE  EventList(Leave(s, T)) /\ \A u : Has(Leave(s, T), u) <=> Has(s, u) /\ u \notin T
<1>1. PICK f : IsKept(f, s, T, Len(s)) /\ Leave(s, T) = f[Len(s)]
  <2>1. Len(s) \in Nat
    BY DEF EventList
  <2>2. \E f : IsKept(f, s, T, Len(s))
    BY <2>1, KeptExists
  <2> DEFINE k == CHOOSE f : IsKept(f, s, T, Len(s))
  <2>3. IsKept(k, s, T, Len(s))
    BY <2>2
  <2>4. Leave(s, T) = k[Len(s)]
    BY DEF Leave, IsKept
  <2> QED BY <2>3, <2>4
<1> DEFINE Upto(n, u) == \E i \in 1 .. n : s[i] = u /\ u \notin T
           Good(n) == EventList(f[n]) /\ \A u : Has(f[n], u) <=> Upto(n, u)
           Q == {n \in Nat : n <= Len(s) => Good(n)}
<1>2. s \in Seq(Tasks) /\ Len(s) \in Nat /\ DOMAIN s = 1 .. Len(s)
  BY DEF EventList
<1> HIDE DEF Good
<1>0. /\ f[0] = <<>>
      /\ \A i \in 1 .. Len(s) : f[i] = IF s[i] \in T THEN f[i - 1] ELSE Append(f[i - 1], s[i])
  <2>1. \A i \in 0 .. Len(s) :
          f[i] = IF i = 0 THEN <<>> ELSE IF s[i] \in T THEN f[i - 1] ELSE Append(f[i - 1], s[i])
    BY <1>1 DEF IsKept
  <2>2. 0 \in 0 .. Len(s) /\ \A i \in 1 .. Len(s) : i \in 0 .. Len(s) /\ i # 0
    BY <1>2
  <2> QED BY ONLY <2>1, <2>2
<1>3. 0 \in Q
  <2>1. f[0] \in Seq(Tasks) /\ DOMAIN f[0] = {}
    BY <1>0
  <2>2. EventList(f[0]) /\ \A u : ~Has(f[0], u)
    BY <2>1 DEF EventList, Has, Sorted, IsInjective
  <2> QED BY <2>2 DEF Good
<1>4. ASSUME NEW n \in Q PROVE n + 1 \in Q
  <2> SUFFICES ASSUME n + 1 <= Len(s) PROVE Good(n + 1)
    OBVIOUS
  <2>1. n \in Nat /\ n + 1 \in 1 .. Len(s) /\ Good(n) /\ s[n + 1] \in Tasks
    BY <1>2
  <2>2. f[n + 1] = IF s[n + 1] \in T THEN f[n] ELSE Append(f[n], s[n + 1])
    <3>1. n + 1 - 1 = n
      BY <2>1
    <3> QED BY <1>0, <2>1, <3>1
  <2>3. ASSUME NEW u PROVE Upto(n + 1, u) <=> Upto(n, u) \/ (u = s[n + 1] /\ u \notin T)
    <3>1. \A i \in 1 .. n + 1 : i \in 1 .. n \/ i = n + 1
      BY <2>1
    <3>2. 1 .. n \subseteq 1 .. n + 1 /\ n + 1 \in 1 .. n + 1
      BY <2>1
    <3> QED BY <3>1, <3>2
  <2>4. CASE s[n + 1] \in T
    BY <2>1, <2>2, <2>3, <2>4 DEF Good
  <2>5. CASE s[n + 1] \notin T
    <3>1. ASSUME NEW v, Upto(n, v) PROVE v # s[n + 1] /\ Priority[v] >= Priority[s[n + 1]]
      <4>1. PICK i \in 1 .. n : s[i] = v
        BY <3>1
      <4>2. i \in 1 .. Len(s) /\ i < n + 1 /\ n + 1 \in 1 .. Len(s)
        BY <1>2, <2>1
      <4> QED BY <1>2, <4>1, <4>2 DEF EventList, IsInjective, Sorted
    <3>2. ~Has(f[n], s[n + 1]) /\ \A v : Has(f[n], v) => Priority[v] >= Priority[s[n + 1]]
      BY <2>1, <3>1 DEF Good
    <3>3. EventList(f[n + 1]) /\ \A v : Has(f[n + 1], v) <=> Has(f[n], v) \/ v = s[n + 1]
      <4>1. PICK a, b, u : a = f[n] /\ b = f[n + 1] /\ u = s[n + 1]
        OBVIOUS
      <4>2. /\ EventList(a) /\ u \in Tasks /\ ~Has(a, u) /\ b = Append(a, u)
            /\ \A v : Has(a, v) => Priority[v] >= Priority[u]
        BY <2>1, <2>2, <2>5, <3>2, <4>1 DEF Good
      <4>3. EventList(b) /\ \A v : Has(b, v) <=> Has(a, v) \/ v = u
        BY ONLY <4>2, Extended
      <4> QED BY <4>1, <4>3
    <3> HIDE DEF Upto
    <3> QED BY <2>1, <2>3, <2>5, <3>3 DEF Good
  <2> QED BY <2>4, <2>5
<1>5. Good(Len(s))
  <2>1. Q \in SUBSET Nat
    OBVIOUS
  <2>2. Q = Nat
    <3> HIDE DEF Q
    <3> QED BY <1>3, <1>4, <2>1, Induct
  <2> QED BY <1>2, <2>2
<1> QED BY <1>1, <1>2, <1>5 DEF Has, Good

LEMMA Inserted ==
  ASSUME NEW s, EventList(s), NEW t \in Tasks, ~Has(s, t), NEW new, new = InsertByPriority(s, t)
  PROVE  EventList(new) /\ \A u : Has(new, u) <=> Has(s, u) \/ u = t
<1>1. /\ s \in Seq(Tasks) /\ Len(s) \in Nat /\ DOMAIN s = 1 .. Len(s)
      /\ \A i \in 1 .. Len(s) : s[i] \in Tasks /\ Priority[s[i]] \in Nat /\ s[i] # t
      /\ Priority[t] \in Nat
  <2>1. s \in Seq(Tasks) /\ Len(s) \in Nat /\ DOMAIN s = 1 .. Len(s)
    BY DEF EventList
  <2>2. \A i \in 1 .. Len(s) : s[i] \in Tasks /\ s[i] # t
    BY <2>1 DEF Has
  <2> QED BY <2>1, <2>2, Facts
<1> DEFINE First(i) == /\ i <= Len(s) => Priority[s[i]] < Priority[t]
                       /\ \A j \in 1 .. i - 1 : Priority[s[j]] >= Priority[t]
           p == CHOOSE i \in 1 .. Len(s) + 1 : First(i)
<1>2. p \in 1 .. Len(s) + 1 /\ First(p)
  <2> DEFINE Q == {i \in 1 .. Len(s) + 1 : i <= Len(s) => Priority[s[i]] < Priority[t]}
  <2>1. Q \in SUBSET Nat /\ Len(s) + 1 \in Q
    BY <1>1
  <2>2. PICK n \in Q : \A m \in Q : n <= m
    <3> HIDE DEF Q
    <3> QED BY <2>1, Least
  <2>3. ASSUME NEW j \in 1 .. n - 1 PROVE Priority[s[j]] >= Priority[t]
    <3>1. n \in 1 .. Len(s) + 1
      OBVIOUS
    <3>2. j \in 1 .. Len(s) /\ j < n
      BY <1>1, <3>1
    <3>3. j \notin Q
      BY <1>1, <2>2, <3>1, <3>2
    <3> QED BY <1>1, <3>2, <3>3
  <2>4. n \in 1 .. Len(s) + 1 /\ First(n)
    BY <2>3
  <2> HIDE DEF First, Q
  <2> QED BY <2>4
<1>3. new = InsertAt(s, p, t)
  BY DEF InsertByPriority
<1> HIDE DEF p
<1>4. /\ new \in Seq(Tasks) /\ Len(new) = Len(s) + 1
      /\ \A j \in 1 .. Len(s) + 1 :
           new[j] = IF j < p THEN s[j] ELSE IF j = p THEN t ELSE s[j - 1]
  <3>1. PICK x, y, z : x = SubSeq(s, 1, p - 1) /\ y = SubSeq(s, p, Len(s)) /\ z = x \o <<t>>
    OBVIOUS
  <3>2. x \in Seq(Tasks) /\ Len(x) = p - 1 /\ \A j \in 1 .. p - 1 : x[j] = s[j]
    BY <1>1, <1>2, <3>1
  <3>3. y \in Seq(Tasks) /\ Len(y) = Len(s) - p + 1
        /\ \A j \in 1 .. Len(s) - p + 1 : y[j] = s[p + j - 1]
    BY <1>1, <1>2, <3>1
  <3>4. z \in Seq(Tasks) /\ Len(z) = p /\ z[p] = t /\ \A j \in 1 .. p - 1 : z[j] = s[j]
    BY <1>1, <1>2, <3>1, <3>2
  <3>5. new = z \o y
    BY <1>1, <1>2, <1>3, <3>1 DEF InsertAt
  <3>6. new \in Seq(Tasks) /\ Len(new) = Len(s) + 1
    <4>1. Len(z) + Len(y) = Len(s) + 1
      BY <1>1, <1>2, <3>3, <3>4
    <4>2. new \in Seq(Tasks)
      BY ONLY <3>3, <3>4, <3>5, ConcatProperties
    <4>3. Len(new) = Len(z) + Len(y)
      BY ONLY <3>3, <3>4, <3>5, ConcatProperties
    <4> QED BY ONLY <4>1, <4>2, <4>3
  <3>7. ASSUME NEW j \in 1 .. Len(s) + 1
        PROVE  new[j] = IF j < p THEN s[j] ELSE IF j = p THEN t ELSE s[j - 1]
    <4>1. new[j] = IF j <= Len(z) THEN z[j] ELSE y[j - Len(z)]
      BY <1>1, <1>2, <3>3, <3>4, <3>5
    <4>2. CASE j < p  BY <1>1, <1>2, <3>4, <4>1, <4>2
    <4>3. CASE j = p  BY <1>1, <1>2, <3>4, <4>1, <4>3
    <4>4. CASE j > p
      <5>1. j - p \in 1 .. Len(s) - p + 1 /\ p + (j - p) - 1 = j - 1
        BY <1>1, <1>2, <4>4
      <5>2. y[j - p] = s[p + (j - p) - 1]
        BY <3>3, <5>1
      <5> QED BY <1>1, <1>2, <3>4, <4>1, <4>4, <5>1, <5>2
    <4> QED BY <1>1, <1>2, <4>2, <4>3, <4>4
  <3> QED BY <3>6, <3>7
<1>5. DOMAIN new = 1 .. Len(s) + 1
  BY <1>1, <1>4
\* Where each element of the new list comes from.
<1>6. ASSUME NEW j \in 1 .. Len(s) + 1
      PROVE  \/ j < p /\ j \in 1 .. Len(s) /\ new[j] = s[j]
             \/ j = p /\ new[j] = t
             \/ j > p /\ j - 1 \in 1 .. Len(s) /\ new[j] = s[j - 1]
  <2>1. new[j] = IF j < p THEN s[j] ELSE IF j = p THEN t ELSE s[j - 1]
    BY <1>4
  <2>2. Len(s) \in Nat /\ p \in 1 .. Len(s) + 1
    BY <1>1, <1>2
  <2>3. (j < p => j \in 1 .. Len(s)) /\ (j > p => j - 1 \in 1 .. Len(s)) /\ (j < p \/ j = p \/ j > p)
    BY ONLY <2>2
  <2> QED BY ONLY <2>1, <2>2, <2>3
<1>7. ASSUME NEW u PROVE Has(new, u) <=> Has(s, u) \/ u = t
  <2>1. ASSUME Has(new, u), u # t PROVE Has(s, u)
    BY <1>1, <1>5, <1>6, <2>1 DEF Has
  <2>2. ASSUME Has(s, u) PROVE Has(new, u)
    <3>1. PICK j \in 1 .. Len(s) : s[j] = u
      BY <1>1, <2>2 DEF Has
    <3>2. CASE j < p
      <4>1. j \in 1 .. Len(s) + 1 /\ new[j] = s[j]
        BY <1>1, <1>4, <3>2
      <4> QED BY <1>5, <3>1, <4>1 DEF Has
    <3>3. CASE ~(j < p)
      <4>1. PICK k \in 1 .. Len(s) + 1 : k = j + 1
        BY <1>1
      <4>2. k - 1 = j /\ ~(k < p) /\ k # p
        BY <1>1, <1>2, <3>3, <4>1
      <4>3. new[k] = s[j]
        BY <1>4, <4>2
      <4> QED BY <1>5, <3>1, <4>3 DEF Has
    <3> QED BY <3>2, <3>3
  <2>3. Has(new, t)
    <3>1. p \in 1 .. Len(s) + 1 /\ new[p] = t
      BY <1>1, <1>2, <1>4
    <3> QED BY <1>5, <3>1 DEF Has
  <2> QED BY <2>1, <2>2, <2>3
<1>8. \A i, j \in 1 .. Len(s) : s[i] = s[j] => i = j
  BY <1>1 DEF EventList, IsInjective
<1>9. \A i, j \in 1 .. Len(s) : i < j => Priority[s[i]] >= Priority[s[j]]
  BY <1>1 DEF EventList, Sorted
<1>10. ASSUME NEW i \in 1 .. Len(s) + 1, NEW j \in 1 .. Len(s) + 1, i < j
       PROVE  new[i] # new[j] /\ Priority[new[i]] >= Priority[new[j]]
  <2>1. p \in Int
    BY <1>1, <1>2
  <2>2. CASE i < p /\ j < p
    <3>1. i \in 1 .. Len(s) /\ j \in 1 .. Len(s) /\ new[i] = s[i] /\ new[j] = s[j]
      BY <1>6, <2>1, <2>2
    <3>2. i # j
      BY <1>10
    <3> QED BY <1>8, <1>9, <1>10, <3>1, <3>2
  <2>3. CASE i < p /\ j = p
    <3>1. i \in 1 .. Len(s) /\ i \in 1 .. p - 1 /\ new[i] = s[i] /\ new[j] = t
      BY <1>6, <2>1, <2>3
    <3> QED BY <1>1, <1>2, <3>1
  <2>4. CASE i < p /\ j > p
    <3>1. i \in 1 .. Len(s) /\ j - 1 \in 1 .. Len(s) /\ new[i] = s[i] /\ new[j] = s[j - 1] /\ i < j - 1
      BY <1>6, <2>1, <2>4
    <3>2. i # j - 1
      BY <3>1
    <3> QED BY <1>8, <1>9, <3>1, <3>2
  <2>5. CASE i = p /\ j > p
    <3>1. j - 1 \in 1 .. Len(s) /\ p \in 1 .. Len(s) /\ new[i] = t /\ new[j] = s[j - 1] /\ (p < j - 1 \/ p = j - 1)
      BY <1>1, <1>2, <1>6, <2>1, <2>5
    <3>2. Priority[s[p]] < Priority[t]
      BY <1>2, <3>1
    <3>3. Priority[s[p]] >= Priority[s[j - 1]]
      BY <1>1, <1>9, <3>1
    <3> QED BY <1>1, <3>1, <3>2, <3>3
  <2>6. CASE i > p
    <3>1. j > p
      BY <1>10, <2>1, <2>6
    <3>2. i - 1 \in 1 .. Len(s) /\ j - 1 \in 1 .. Len(s) /\ new[i] = s[i - 1] /\ new[j] = s[j - 1]
          /\ i - 1 < j - 1
      BY <1>6, <1>10, <2>1, <2>6, <3>1
    <3>3. i - 1 # j - 1
      BY <3>2
    <3> QED BY <1>8, <1>9, <3>2, <3>3
  <2> QED
    <3>1. i < p \/ i = p \/ i > p
      BY <2>1
    <3>2. j < p \/ j = p \/ j > p
      BY <2>1
    <3>3. i = p => j > p
      BY <1>10, <2>1
    <3> QED BY <2>2, <2>3, <2>4, <2>5, <2>6, <3>1, <3>2, <3>3
<1>11. IsInjective(new)
  <2> SUFFICES ASSUME NEW i \in 1 .. Len(s) + 1, NEW j \in 1 .. Len(s) + 1, new[i] = new[j], i # j
               PROVE  FALSE
    BY <1>5 DEF IsInjective
  <2>1. i < j \/ j < i
    OBVIOUS
  <2> QED BY <1>10, <2>1
<1>12. Sorted(new)
  BY <1>5, <1>10 DEF Sorted
<1> QED BY <1>4, <1>7, <1>11, <1>12 DEF EventList

-----------------------------------------------------------------------------
(* The scheduler's lists *)

Listed(l) ==
  /\ l \in ListsType
  /\ \A s \in Sides : EventList(l.waiting[s])
  /\ \A t \in Tasks : t \in l.ready <=> l.delayed[t] = "none"
  /\ \A s \in Sides, t \in Tasks : Has(l.waiting[s], t) => s = Side(t) /\ t \notin l.ready

\* No task on the delayed list should have been woken; the cached time of the
\* next wake-up is not too late.
Due(l) == \A t \in Tasks : l.delayed[t] = "current" => l.tick < l.wake[t] /\ l.next <= l.wake[t]

DueNow(l) == \A t \in Tasks : l.delayed[t] = "current" => l.tick <= l.wake[t] /\ l.next <= l.wake[t]

\* A task that is to be woken by the tick, and the ticks until then.
Timed(l, t) == l.delayed[t] \in {"current", "overflow"}
Dist(l, t) == IF l.delayed[t] = "current" THEN l.wake[t] - l.tick
              ELSE l.wake[t] + TickRange - l.tick

Fields(l) ==
  /\ l.tick \in Ticks /\ l.next \in Ticks /\ l.ready \subseteq Tasks
  /\ l.delayed \in [Tasks -> {"none", "current", "overflow", "suspended"}]
  /\ l.wake \in [Tasks -> Ticks] /\ l.wrapped \in [Tasks -> BOOLEAN]
  /\ l.waiting \in [Sides -> Seq(Tasks)]

LEMMA Typed == ASSUME NEW l \in ListsType PROVE Fields(l)
BY DEF ListsType, Fields

LEMMA NextUnblock ==
  ASSUME NEW l \in ListsType, NEW n, n = NextUnblockTime(l)
  PROVE  n \in Ticks /\ \A t \in Tasks : l.delayed[t] = "current" => n <= l.wake[t]
<1>1. Fields(l) /\ Ticks \subseteq Nat /\ portMAX_DELAY \in Ticks
  BY Typed, Facts
<1>2. CASE Current(l) = {}
  BY <1>1, <1>2 DEF NextUnblockTime, Current
<1>3. CASE Current(l) # {}
  <2> DEFINE Lowest(w) == /\ \E t \in Current(l) : l.wake[t] = w
                       /\ \A t \in Current(l) : w <= l.wake[t]
             Q == {l.wake[t] : t \in Current(l)}
  <2>1. Q \in SUBSET Nat /\ Q # {} /\ Q \subseteq Ticks
    BY <1>1, <1>3 DEF Current, Fields
  <2>2. PICK w \in Q : \A v \in Q : w <= v
    <3> HIDE DEF Q
    <3> QED BY <2>1, Least
  <2>3. w \in Ticks /\ Lowest(w)
    BY <2>1, <2>2
  <2>4. n = CHOOSE v \in Ticks : Lowest(v)
    BY <1>3 DEF NextUnblockTime
  <2>5. n \in Ticks /\ Lowest(n)
    <3> HIDE DEF Lowest
    <3> QED BY <2>3, <2>4
  <2> QED BY <2>5 DEF Current
<1> QED BY <1>2, <1>3

\* The tasks of X become ready.
Moved(l, m, X) ==
  /\ m.tick = l.tick /\ m.wrapped = l.wrapped /\ m.ready = l.ready \cup X
  /\ \A t \in Tasks : m.delayed[t] = IF t \in X THEN "none" ELSE l.delayed[t]
  /\ \A t \in Tasks : m.wake[t] = IF t \in X THEN 0 ELSE l.wake[t]

\* They wait for nothing any more.
Dropped(l, m, X) ==
  \A s \in Sides : EventList(m.waiting[s]) /\ \A u : Has(m.waiting[s], u) <=> Has(l.waiting[s], u) /\ u \notin X

LEMMA ReadyMoves ==
  ASSUME NEW l \in ListsType, NEW X \in SUBSET Tasks, NEW m, m = Ready(l, X)
  PROVE  m \in ListsType /\ Moved(l, m, X) /\ m.next = l.next /\ m.waiting = l.waiting
<1>1. Fields(l) /\ 0 \in Ticks
  BY Typed, Facts
<1>2. PICK d, w : /\ d = [t \in Tasks |-> IF t \in X THEN "none" ELSE l.delayed[t]]
                  /\ w = [t \in Tasks |-> IF t \in X THEN 0 ELSE l.wake[t]]
  OBVIOUS
<1>3. m = [l EXCEPT !.ready = l.ready \cup X, !.delayed = d, !.wake = w]
  BY <1>2 DEF Ready
<1>4. /\ m.tick = l.tick /\ m.next = l.next /\ m.ready = l.ready \cup X /\ m.delayed = d
      /\ m.wake = w /\ m.wrapped = l.wrapped /\ m.waiting = l.waiting
  BY <1>3 DEF ListsType
<1>5. /\ d \in [Tasks -> {"none", "current", "overflow", "suspended"}]
      /\ w \in [Tasks -> Ticks]
  BY <1>1, <1>2 DEF Fields
<1>6. m \in ListsType
  <2>1. PICK r : r = l.ready \cup X
    OBVIOUS
  <2>2. r \in SUBSET Tasks
    BY <1>1, <2>1 DEF Fields
  <2>3. m = [l EXCEPT !.ready = r, !.delayed = d, !.wake = w]
    BY <1>3, <2>1
  <2> QED BY ONLY <1>5, <2>2, <2>3, l \in ListsType DEF ListsType
<1>7. Moved(l, m, X)
  BY <1>2, <1>4 DEF Moved
<1> QED BY <1>4, <1>6, <1>7

LEMMA MovedListed ==
  ASSUME NEW l, Listed(l), NEW X \in SUBSET Tasks, NEW m \in ListsType, Moved(l, m, X), Dropped(l, m, X)
  PROVE  Listed(m)
BY DEF Listed, Moved, Dropped

IsLeft(w, l, X) == w = [s \in Sides |-> Leave(l.waiting[s], X)]

LEMMA LeaveWaiting ==
  ASSUME NEW l, Listed(l), NEW X, NEW w, IsLeft(w, l, X)
  PROVE  /\ w \in [Sides -> Seq(Tasks)]
         /\ \A s \in Sides : EventList(w[s]) /\ \A u : Has(w[s], u) <=> Has(l.waiting[s], u) /\ u \notin X
<1>1. ASSUME NEW s \in Sides
      PROVE  EventList(w[s]) /\ w[s] \in Seq(Tasks) /\ \A u : Has(w[s], u) <=> Has(l.waiting[s], u) /\ u \notin X
  <2>1. w[s] = Leave(l.waiting[s], X)
    BY DEF IsLeft
  <2> QED BY <2>1, Left DEF Listed, EventList
<1>2. w = [s \in Sides |-> w[s]]
  BY DEF IsLeft
<1> QED BY <1>1, <1>2

LEMMA UnblockExpiredDoes ==
  ASSUME NEW l, Listed(l), DueNow(l), NEW m, m = UnblockExpired(l)
  PROVE  /\ Listed(m) /\ Due(m)
         /\ m.tick = l.tick /\ m.wrapped = l.wrapped
         /\ l.ready \subseteq m.ready
         /\ \A s \in Sides, u \in Tasks : Has(m.waiting[s], u) <=> Has(l.waiting[s], u) /\ u \notin m.ready
         /\ \A t \in Tasks : Timed(m, t) => m.delayed[t] = l.delayed[t] /\ m.wake[t] = l.wake[t]
<1>1. PICK X : X = {t \in Current(l) : l.wake[t] <= l.tick}
  OBVIOUS
<1>2. l \in ListsType /\ X \in SUBSET Tasks
  BY <1>1 DEF Listed, Current
<1>3. PICK a : a = Ready(l, X)
  OBVIOUS
<1>4. a \in ListsType /\ Moved(l, a, X) /\ a.waiting = l.waiting
  BY <1>2, <1>3, ReadyMoves
<1>5. PICK w : IsLeft(w, l, X)
  BY DEF IsLeft
<1>6. /\ w \in [Sides -> Seq(Tasks)]
      /\ \A s \in Sides : EventList(w[s]) /\ \A u : Has(w[s], u) <=> Has(l.waiting[s], u) /\ u \notin X
  BY <1>5, LeaveWaiting
<1>7. PICK b : b = [a EXCEPT !.waiting = w]
  OBVIOUS
<1>8. b \in ListsType /\ Moved(l, b, X) /\ b.waiting = w
  <2>1. /\ b.tick = a.tick /\ b.next = a.next /\ b.ready = a.ready /\ b.delayed = a.delayed
        /\ b.wake = a.wake /\ b.wrapped = a.wrapped /\ b.waiting = w
    BY <1>4, <1>7 DEF ListsType
  <2>2. b \in ListsType
    BY <1>4, <1>6, <1>7 DEF ListsType
  <2>3. Moved(l, b, X)
    BY <1>4, <2>1 DEF Moved
  <2> QED BY <2>1, <2>2, <2>3
<1>9. PICK n : n = NextUnblockTime(b)
  OBVIOUS
<1>10. n \in Ticks /\ \A t \in Tasks : b.delayed[t] = "current" => n <= b.wake[t]
  BY <1>8, <1>9, NextUnblock
<1>11. m = [b EXCEPT !.next = n]
  BY <1>1, <1>3, <1>4, <1>5, <1>7, <1>9 DEF UnblockExpired, IsLeft
<1>12. /\ m.tick = b.tick /\ m.next = n /\ m.ready = b.ready /\ m.delayed = b.delayed
       /\ m.wake = b.wake /\ m.wrapped = b.wrapped /\ m.waiting = w
  BY <1>8, <1>11 DEF ListsType
<1>13. m \in ListsType
  BY <1>8, <1>10, <1>11 DEF ListsType
<1>14. Moved(l, m, X) /\ Dropped(l, m, X)
  BY <1>6, <1>8, <1>12 DEF Moved, Dropped
<1>15. Listed(m)
  BY <1>2, <1>13, <1>14, MovedListed
<1>16. Due(m)
  <2> SUFFICES ASSUME NEW t \in Tasks, m.delayed[t] = "current"
               PROVE  m.tick < m.wake[t] /\ m.next <= m.wake[t]
    BY DEF Due
  <2>1. t \notin X /\ l.delayed[t] = "current" /\ m.wake[t] = l.wake[t] /\ m.tick = l.tick
    BY <1>14 DEF Moved
  <2>2. ~(l.wake[t] <= l.tick)
    BY <1>1, <2>1 DEF Current
  <2>3. l.tick \in Nat /\ l.wake[t] \in Nat
    BY <1>2, Typed, Facts DEF Fields
  <2>4. m.next <= m.wake[t]
    BY <1>10, <1>12
  <2> QED BY <2>1, <2>2, <2>3, <2>4
<1>17. \A s \in Sides, u \in Tasks : Has(m.waiting[s], u) <=> Has(l.waiting[s], u) /\ u \notin m.ready
  BY <1>14 DEF Moved, Dropped, Listed
<1> QED BY <1>14, <1>15, <1>16, <1>17 DEF Moved, Timed

LEMMA SwitchDoes ==
  ASSUME NEW l, Listed(l), l.tick = 0, \A t \in Tasks : l.delayed[t] # "current",
         timing \in [Tasks -> BOOLEAN], NEW m, m = SwitchDelayedLists(l)
  PROVE  /\ Listed(m) /\ DueNow(m)
         /\ m.tick = 0 /\ m.wrapped = timing /\ m.ready = l.ready /\ m.waiting = l.waiting
         /\ m.wake = l.wake
         /\ \A t \in Tasks : Timed(m, t) => Timed(l, t) /\ m.delayed[t] = "current"
<1>1. PICK d : d = [t \in Tasks |-> IF l.delayed[t] = "overflow" THEN "current" ELSE l.delayed[t]]
  OBVIOUS
<1>2. l \in ListsType /\ Fields(l)
  BY Typed DEF Listed
<1>3. d \in [Tasks -> {"none", "current", "overflow", "suspended"}]
  BY <1>1, <1>2 DEF Fields
<1>4. \A t \in Tasks : d[t] = IF l.delayed[t] = "overflow" THEN "current" ELSE l.delayed[t]
  BY <1>1
<1>5. PICK a : a = [l EXCEPT !.delayed = d, !.wrapped = timing]
  OBVIOUS
<1>6. PICK n : n = NextUnblockTime(a)
  OBVIOUS
<1>7. m = [a EXCEPT !.next = n]
  BY <1>1, <1>5, <1>6 DEF SwitchDelayedLists
<1>8. /\ a \in ListsType
      /\ a.tick = l.tick /\ a.ready = l.ready /\ a.delayed = d
      /\ a.wake = l.wake /\ a.wrapped = timing /\ a.waiting = l.waiting
  BY ONLY <1>2, <1>3, <1>5, timing \in [Tasks -> BOOLEAN] DEF ListsType
<1>9. n \in Ticks /\ \A t \in Tasks : a.delayed[t] = "current" => n <= a.wake[t]
  BY <1>6, <1>8, NextUnblock
<1>10. /\ m \in ListsType
       /\ m.tick = a.tick /\ m.next = n /\ m.ready = a.ready /\ m.delayed = a.delayed
       /\ m.wake = a.wake /\ m.wrapped = a.wrapped /\ m.waiting = a.waiting
  BY ONLY <1>7, <1>8, <1>9 DEF ListsType
<1>11. Listed(m)
  BY <1>4, <1>8, <1>10 DEF Listed
<1>12. DueNow(m)
  <2> SUFFICES ASSUME NEW t \in Tasks, m.delayed[t] = "current"
               PROVE  m.tick <= m.wake[t] /\ m.next <= m.wake[t]
    BY DEF DueNow
  <2>1. l.wake[t] \in Nat
    BY <1>2, Facts DEF Fields
  <2> QED BY <1>8, <1>9, <1>10, <2>1
<1>13. \A t \in Tasks : Timed(m, t) => Timed(l, t) /\ m.delayed[t] = "current"
  BY <1>4, <1>8, <1>10 DEF Timed
<1> QED BY <1>8, <1>10, <1>11, <1>12, <1>13

\* What one tick does to the lists.
Ticked(l, m) ==
  /\ Listed(m) /\ Due(m)
  /\ m.tick = IF l.tick = portMAX_DELAY THEN 0 ELSE l.tick + 1
  /\ \A t \in Tasks : m.wrapped[t] = IF m.tick = 0 THEN timing[t] ELSE l.wrapped[t]
  /\ l.ready \subseteq m.ready
  /\ \A s \in Sides, u \in Tasks : Has(m.waiting[s], u) <=> Has(l.waiting[s], u) /\ u \notin m.ready
  /\ \A t \in Tasks : Timed(m, t) => Timed(l, t) /\ Dist(m, t) + 1 = Dist(l, t)

LEMMA IncrementTickDoes ==
  ASSUME NEW l, Listed(l), Due(l), timing \in [Tasks -> BOOLEAN], NEW m, m = IncrementTick(l)
  PROVE  Ticked(l, m)
<1>1. PICK now : now = (l.tick + 1) % TickRange
  OBVIOUS
<1>2. PICK a : a = [l EXCEPT !.tick = now]
  OBVIOUS
<1>3. PICK b : b = IF now = 0 THEN SwitchDelayedLists(a) ELSE a
  OBVIOUS
<1>4. m = IF now >= b.next THEN UnblockExpired(b) ELSE b
  BY <1>1, <1>2, <1>3 DEF IncrementTick
<1>5. l \in ListsType /\ Fields(l)
  BY Typed DEF Listed
<1>6. /\ l.tick \in 0 .. TickRange - 1 /\ TickRange \in Nat \ {0, 1}
      /\ now = IF l.tick = portMAX_DELAY THEN 0 ELSE l.tick + 1
      /\ now \in Ticks
  <2>1. l.tick \in 0 .. TickRange - 1 /\ TickRange \in Nat \ {0, 1} /\ portMAX_DELAY = TickRange - 1
        /\ Ticks = 0 .. TickRange - 1
    BY <1>5, Facts DEF Fields
  <2>2. CASE l.tick = TickRange - 1
    <3>1. l.tick + 1 = TickRange
      BY <2>1, <2>2
    <3>2. TickRange % TickRange = 0
      BY <2>1
    <3> QED BY <1>1, <2>1, <2>2, <3>1, <3>2
  <2>3. CASE l.tick # TickRange - 1
    <3>1. l.tick + 1 \in 0 .. TickRange - 1
      BY <2>1, <2>3
    <3>2. \A x \in 0 .. TickRange - 1 : x % TickRange = x
      BY <2>1
    <3> QED BY <1>1, <2>1, <2>3, <3>1, <3>2
  <2> QED BY <2>2, <2>3
<1>7. /\ a \in ListsType
      /\ a.tick = now /\ a.next = l.next /\ a.ready = l.ready /\ a.delayed = l.delayed
      /\ a.wake = l.wake /\ a.wrapped = l.wrapped /\ a.waiting = l.waiting
  BY ONLY <1>2, <1>5, <1>6 DEF ListsType
<1>8. Listed(a)
  BY <1>7 DEF Listed
<1>9. \A t \in Tasks : l.wake[t] \in 0 .. TickRange - 1 /\ l.tick \in 0 .. TickRange - 1
  BY <1>5, Facts DEF Fields
<1>10. /\ Listed(b) /\ DueNow(b) /\ b.tick = now /\ b.ready = l.ready /\ b.waiting = l.waiting
       /\ \A t \in Tasks : b.wrapped[t] = IF now = 0 THEN timing[t] ELSE l.wrapped[t]
       /\ \A t \in Tasks : Timed(b, t) => Timed(l, t) /\ Dist(b, t) + 1 = Dist(l, t)
  <2>1. CASE now = 0
    <3>1. l.tick = TickRange - 1
      BY <1>6, <2>1, Facts
    <3>2. \A t \in Tasks : a.delayed[t] # "current"
      BY <1>7, <1>9, <3>1 DEF Due
    <3>3. /\ Listed(b) /\ DueNow(b)
          /\ b.tick = 0 /\ b.wrapped = timing /\ b.ready = a.ready /\ b.waiting = a.waiting
          /\ b.wake = a.wake
          /\ \A t \in Tasks : Timed(b, t) => Timed(a, t) /\ b.delayed[t] = "current"
      <4>1. b = SwitchDelayedLists(a) /\ a.tick = 0
        BY <1>3, <1>7, <2>1
      <4> QED BY <1>8, <3>2, <4>1, SwitchDoes
    <3>4. ASSUME NEW t \in Tasks, Timed(b, t) PROVE Timed(l, t) /\ Dist(b, t) + 1 = Dist(l, t)
      <4>1. b.delayed[t] = "current" /\ l.delayed[t] = "overflow" /\ b.wake[t] = l.wake[t]
        BY <1>7, <3>2, <3>3, <3>4 DEF Timed
      <4> QED BY <1>6, <1>9, <3>1, <3>3, <4>1 DEF Dist, Timed
    <3> QED BY <1>7, <2>1, <3>3, <3>4
  <2>2. CASE now # 0
    <3>1. b = a /\ now = l.tick + 1
      BY <1>3, <1>6, <2>2
    <3>2. DueNow(b)
      BY <1>7, <1>9, <3>1 DEF Due, DueNow
    <3>3. ASSUME NEW t \in Tasks, Timed(b, t) PROVE Timed(l, t) /\ Dist(b, t) + 1 = Dist(l, t)
      BY <1>6, <1>7, <1>9, <3>1, <3>3 DEF Dist, Timed
    <3> QED BY <1>7, <1>8, <2>2, <3>1, <3>2, <3>3
  <2> QED BY <2>1, <2>2
<1>11. CASE now >= b.next
  <2>1. /\ Listed(m) /\ Due(m)
        /\ m.tick = b.tick /\ m.wrapped = b.wrapped
        /\ b.ready \subseteq m.ready
        /\ \A s \in Sides, u \in Tasks : Has(m.waiting[s], u) <=> Has(b.waiting[s], u) /\ u \notin m.ready
        /\ \A t \in Tasks : Timed(m, t) => m.delayed[t] = b.delayed[t] /\ m.wake[t] = b.wake[t]
    BY <1>4, <1>10, <1>11, UnblockExpiredDoes
  <2>2. \A t \in Tasks : Timed(m, t) => Timed(b, t) /\ Dist(m, t) = Dist(b, t)
    BY <2>1 DEF Timed, Dist
  <2> QED BY <1>6, <1>10, <2>1, <2>2 DEF Ticked
<1>12. CASE ~(now >= b.next)
  <2>1. m = b
    BY <1>4, <1>12
  <2>2. now \in Nat /\ b.next \in Nat /\ \A t \in Tasks : b.wake[t] \in Nat
    BY <1>6, <1>10, Typed, Facts DEF Listed, Fields
  <2>3. Due(m)
    BY <1>10, <1>12, <2>1, <2>2 DEF Due, DueNow
  <2>4. \A s \in Sides, u \in Tasks : Has(m.waiting[s], u) => u \notin m.ready
    BY <1>10, <2>1 DEF Listed
  <2> QED BY <1>6, <1>10, <2>1, <2>3, <2>4 DEF Ticked
<1> QED BY <1>11, <1>12

\* The ticks since the call read the time, as far as it can know them.
Since(l, t) == ~l.wrapped[t] => l.tick >= entered[t]
Lapse(l, t) == IF l.wrapped[t] /\ l.tick >= entered[t] THEN TickRange
               ELSE IF l.tick >= entered[t] THEN l.tick - entered[t]
               ELSE l.tick - entered[t] + TickRange

LEMMA TickedLapse ==
  ASSUME NEW l, Listed(l), NEW m, Ticked(l, m), NEW t \in Tasks, timing[t],
         entered \in [Tasks -> Ticks], Since(l, t)
  PROVE  Since(m, t) /\ Lapse(m, t) <= Lapse(l, t) + 1
<1>1. /\ l.tick \in 0 .. TickRange - 1 /\ TickRange \in Nat \ {0, 1} /\ entered[t] \in 0 .. TickRange - 1
      /\ portMAX_DELAY = TickRange - 1
  BY Typed, Facts DEF Listed, Fields
<1>2. l.wrapped[t] \in BOOLEAN
  BY Typed DEF Listed, Fields
<1>3. CASE l.tick = TickRange - 1
  <2>1. m.tick = 0 /\ m.wrapped[t] = timing[t]
    BY <1>1, <1>3 DEF Ticked
  <2>2. m.wrapped[t]
    BY <2>1
  <2>3. CASE l.wrapped[t]
    BY <1>1, <1>3, <2>1, <2>2, <2>3 DEF Since, Lapse
  <2>4. CASE ~l.wrapped[t]
    BY <1>1, <1>3, <2>1, <2>2, <2>4 DEF Since, Lapse
  <2> QED BY <2>3, <2>4
<1>4. CASE l.tick # TickRange - 1
  <2>1. m.tick = l.tick + 1 /\ m.wrapped[t] = l.wrapped[t]
    BY <1>1, <1>4 DEF Ticked
  <2>2. CASE l.wrapped[t]
    <3>1. m.wrapped[t]
      BY <2>1, <2>2
    <3> QED BY <1>1, <1>4, <2>1, <2>2, <3>1 DEF Since, Lapse
  <2>3. CASE ~l.wrapped[t]
    <3>1. ~m.wrapped[t]
      BY <2>1, <2>3
    <3> QED BY <1>1, <1>4, <2>1, <2>3, <3>1 DEF Since, Lapse
  <2> QED BY <2>2, <2>3
<1> QED BY <1>3, <1>4

\* What n ticks do.
Later(l, m, n) ==
  /\ Listed(m) /\ Due(m)
  /\ l.ready \subseteq m.ready
  /\ \A s \in Sides, u \in Tasks : Has(m.waiting[s], u) <=> Has(l.waiting[s], u) /\ u \notin m.ready
  /\ \A t \in Tasks : Timed(m, t) => Timed(l, t) /\ Dist(m, t) + n = Dist(l, t)
  /\ \A t \in Tasks : timing[t] /\ Since(l, t) => Since(m, t) /\ Lapse(m, t) <= Lapse(l, t) + n

LEMMA Ranges ==
  ASSUME NEW l, Listed(l), NEW t \in Tasks, entered \in [Tasks -> Ticks]
  PROVE  /\ Dist(l, t) \in Int /\ Lapse(l, t) \in Nat
         /\ l.delayed[t] = "overflow" => Dist(l, t) > 0
         /\ Due(l) /\ l.delayed[t] = "current" => Dist(l, t) > 0
<1>1. /\ l.tick \in 0 .. TickRange - 1 /\ TickRange \in Nat \ {0, 1} /\ entered[t] \in 0 .. TickRange - 1
      /\ l.wake[t] \in 0 .. TickRange - 1
  BY Typed, Facts DEF Listed, Fields
<1>2. Dist(l, t) \in Int /\ Lapse(l, t) \in Nat
  BY <1>1 DEF Dist, Lapse
<1>3. l.delayed[t] = "overflow" => Dist(l, t) > 0
  BY <1>1 DEF Dist
<1>4. Due(l) /\ l.delayed[t] = "current" => Dist(l, t) > 0
  BY <1>1 DEF Dist, Due
<1> QED BY <1>2, <1>3, <1>4

LEMMA NoTick ==
  ASSUME NEW l, Listed(l), Due(l), entered \in [Tasks -> Ticks] PROVE Later(l, l, 0)
<1>1. \A t \in Tasks : Dist(l, t) \in Int /\ Lapse(l, t) \in Nat
  BY Ranges
<1>2. \A s \in Sides, u \in Tasks : Has(l.waiting[s], u) => u \notin l.ready
  BY DEF Listed
<1> QED BY <1>1, <1>2 DEF Later

LEMMA OneMore ==
  ASSUME NEW l, NEW a, NEW m, NEW n \in Nat, Listed(l), Later(l, a, n), Ticked(a, m),
         entered \in [Tasks -> Ticks]
  PROVE  Later(l, m, n + 1)
<1>1. Listed(a) /\ Listed(m) /\ Due(m) /\ l.ready \subseteq a.ready /\ a.ready \subseteq m.ready
  BY DEF Later, Ticked
<1>2. \A s \in Sides, u \in Tasks : Has(m.waiting[s], u) <=> Has(l.waiting[s], u) /\ u \notin m.ready
  BY <1>1 DEF Later, Ticked
<1>3. ASSUME NEW t \in Tasks, Timed(m, t) PROVE Timed(l, t) /\ Dist(m, t) + (n + 1) = Dist(l, t)
  <2>1. Timed(a, t) /\ Dist(m, t) + 1 = Dist(a, t) /\ Timed(l, t) /\ Dist(a, t) + n = Dist(l, t)
    BY <1>3 DEF Later, Ticked
  <2>2. Dist(m, t) \in Int /\ Dist(a, t) \in Int /\ Dist(l, t) \in Int
    BY <1>1, Ranges
  <2> QED BY <2>1, <2>2
<1>4. ASSUME NEW t \in Tasks, timing[t], Since(l, t)
      PROVE  Since(m, t) /\ Lapse(m, t) <= Lapse(l, t) + (n + 1)
  <2>1. Since(a, t) /\ Lapse(a, t) <= Lapse(l, t) + n
    BY <1>4 DEF Later
  <2>2. Since(m, t) /\ Lapse(m, t) <= Lapse(a, t) + 1
    BY <1>1, <1>4, <2>1, TickedLapse
  <2>3. Lapse(m, t) \in Nat /\ Lapse(a, t) \in Nat /\ Lapse(l, t) \in Nat
    BY <1>1, Ranges
  <2> QED BY <2>1, <2>2, <2>3
<1> QED BY <1>1, <1>2, <1>3, <1>4 DEF Later

IsAfter(f, l, n) == f = [i \in 0 .. n |-> IF i = 0 THEN l ELSE IncrementTick(f[i - 1])]

LEMMA AfterExists ==
  ASSUME NEW l, NEW n \in Nat PROVE \E f : IsAfter(f, l, n)
<1> DEFINE Q == {m \in Nat : \E f : IsAfter(f, l, m)}
<1>1. 0 \in Q
  <2>1. IsAfter([i \in 0 .. 0 |-> l], l, 0)
    BY DEF IsAfter
  <2> QED BY <2>1
<1>2. ASSUME NEW m \in Q PROVE m + 1 \in Q
  <2>1. PICK f : IsAfter(f, l, m)
    OBVIOUS
  <2> DEFINE g == [i \in 0 .. m + 1 |-> IF i = m + 1 THEN IncrementTick(f[m]) ELSE f[i]]
  <2>2. ASSUME NEW i \in 0 .. m + 1
        PROVE  g[i] = IF i = 0 THEN l ELSE IncrementTick(g[i - 1])
    <3>1. CASE i = m + 1
      <4>1. i # 0 /\ i - 1 \in 0 .. m + 1 /\ i - 1 = m /\ g[i - 1] = f[m]
        BY <3>1
      <4> QED BY <3>1, <4>1
    <3>2. CASE i # m + 1
      <4>1. i \in 0 .. m /\ g[i] = f[i] /\ (i # 0 => i - 1 \in 0 .. m /\ g[i - 1] = f[i - 1])
        BY <3>2
      <4>2. f[i] = IF i = 0 THEN l ELSE IncrementTick(f[i - 1])
        BY <2>1, <4>1 DEF IsAfter
      <4> QED BY <4>1, <4>2
    <3> QED BY <3>1, <3>2
  <2>3. IsAfter(g, l, m + 1)
    <3>1. g = [i \in 0 .. m + 1 |-> g[i]]
      OBVIOUS
    <3> HIDE DEF g
    <3> QED BY <2>2, <3>1 DEF IsAfter
  <2> QED BY <2>3
<1>3. Q = Nat
  <2>1. Q \in SUBSET Nat
    OBVIOUS
  <2> HIDE DEF Q
  <2> QED BY <1>1, <1>2, <2>1, Induct
<1> QED BY <1>3

\* The ticks that came while the scheduler was suspended.
LEMMA PendedTicksDo ==
  ASSUME NEW l, Listed(l), Due(l), NEW n \in Nat,
         entered \in [Tasks -> Ticks], timing \in [Tasks -> BOOLEAN]
  PROVE  Later(l, PendedTicks(l, n), n)
<1>1. PICK f : IsAfter(f, l, n) /\ PendedTicks(l, n) = f[n]
  <2>1. \E f : IsAfter(f, l, n)
    BY AfterExists
  <2> DEFINE k == CHOOSE f : IsAfter(f, l, n)
  <2>2. IsAfter(k, l, n)
    BY <2>1
  <2>3. PendedTicks(l, n) = k[n]
    BY DEF PendedTicks, IsAfter
  <2> QED BY <2>2, <2>3
<1>2. f[0] = l /\ \A i \in 1 .. n : f[i] = IncrementTick(f[i - 1])
  <2>1. \A i \in 0 .. n : f[i] = IF i = 0 THEN l ELSE IncrementTick(f[i - 1])
    BY <1>1 DEF IsAfter
  <2>2. 0 \in 0 .. n /\ \A i \in 1 .. n : i \in 0 .. n /\ i # 0
    OBVIOUS
  <2> QED BY ONLY <2>1, <2>2
<1> DEFINE Q == {i \in Nat : i <= n => Later(l, f[i], i)}
<1>3. 0 \in Q
  BY <1>2, NoTick
<1>4. ASSUME NEW i \in Q PROVE i + 1 \in Q
  <2> SUFFICES ASSUME i + 1 <= n PROVE Later(l, f[i + 1], i + 1)
    OBVIOUS
  <2>1. i \in Nat /\ i + 1 \in 1 .. n /\ i + 1 - 1 = i /\ Later(l, f[i], i)
    OBVIOUS
  <2>2. f[i + 1] = IncrementTick(f[i])
    BY <1>2, <2>1
  <2>3. PICK a, m : a = f[i] /\ m = f[i + 1]
    OBVIOUS
  <2>4. Listed(a) /\ Due(a)
    BY <2>1, <2>3 DEF Later
  <2>5. Ticked(a, m)
    BY <2>2, <2>3, <2>4, IncrementTickDoes
  <2>6. Later(l, m, i + 1)
    BY <2>1, <2>3, <2>5, OneMore
  <2> QED BY <2>3, <2>6
<1>5. n \in Q
  <2>1. Q \in SUBSET Nat
    OBVIOUS
  <2>2. Q = Nat
    <3> HIDE DEF Q
    <3> QED BY <1>3, <1>4, <2>1, Induct
  <2> QED BY <2>2
<1> QED BY <1>1, <1>5

-----------------------------------------------------------------------------
(* Waking and blocking *)

LEMMA Sizes ==
  ASSUME NEW S \in SUBSET Tasks
  PROVE  IsFiniteSet(S) /\ Cardinality(S) \in Nat
<1>1. IsFiniteSet(S)
  BY Facts, FS_Subset
<1> QED BY <1>1, FS_CardinalityType

LEMMA Larger ==
  ASSUME NEW T \in SUBSET Tasks, NEW S \in SUBSET T
  PROVE  Cardinality(S) <= Cardinality(T)
BY Sizes, FS_Subset

\* The tasks of X join a set.
LEMMA Joined ==
  ASSUME NEW S \in SUBSET Tasks, NEW X \in SUBSET Tasks, NEW T \in SUBSET Tasks,
         S \cap X = {}, S \cup X \subseteq T
  PROVE  Cardinality(T) >= Cardinality(S) + Cardinality(X)
<1>1. Cardinality(S \cup X) = Cardinality(S) + Cardinality(X) - Cardinality(S \cap X)
  BY Sizes, FS_Union
<1>2. Cardinality(S \cap X) = 0
  BY FS_EmptySet
<1>3. Cardinality(S \cup X) <= Cardinality(T)
  BY Larger
<1>4. Cardinality(S) \in Nat /\ Cardinality(X) \in Nat /\ Cardinality(T) \in Nat
  BY Sizes
<1> QED BY <1>1, <1>2, <1>3, <1>4

\* One task leaves a set.
LEMMA LeftBy ==
  ASSUME NEW S \in SUBSET Tasks, NEW t, NEW T \in SUBSET Tasks, S \ {t} \subseteq T
  PROVE  Cardinality(T) + 1 >= Cardinality(S)
<1>1. Cardinality(S \ {t}) = IF t \in S THEN Cardinality(S) - 1 ELSE Cardinality(S)
  BY Sizes, FS_RemoveElement
<1>2. Cardinality(S \ {t}) <= Cardinality(T)
  BY Larger
<1>3. Cardinality(S) \in Nat /\ Cardinality(T) \in Nat
  BY Sizes
<1> QED BY <1>1, <1>2, <1>3

\* The first n tasks of a list.
FirstOf(s, n) == {s[i] : i \in 1 .. IF n < Len(s) THEN n ELSE Len(s)}

LEMMA FirstDo ==
  ASSUME NEW s, EventList(s), NEW n \in Int, NEW X, X = FirstOf(s, n)
  PROVE  /\ X \in SUBSET Tasks
         /\ \A u \in X : Has(s, u)
         /\ n <= 0 => X = {}
         /\ n >= 0 => Cardinality(X) = n \/ \A u : Has(s, u) => u \in X
         /\ \A u \in X : \A v : Has(s, v) /\ v \notin X => Priority[u] >= Priority[v]
<1>1. /\ s \in Seq(Tasks) /\ Len(s) \in Nat /\ DOMAIN s = 1 .. Len(s)
      /\ \A i \in 1 .. Len(s) : s[i] \in Tasks
  BY DEF EventList
<1>a. PICK k : k = IF n < Len(s) THEN n ELSE Len(s)
  OBVIOUS
<1>2. k \in Int /\ k <= n /\ k <= Len(s) /\ (k = n \/ k = Len(s))
  <2>1. Len(s) \in Nat /\ n \in Int
    BY <1>1
  <2> QED BY ONLY <1>a, <2>1
<1>3. X = {s[i] : i \in 1 .. k} /\ 1 .. k \subseteq 1 .. Len(s)
  <2>1. X = {s[i] : i \in 1 .. k}
    BY <1>a DEF FirstOf
  <2>2. Len(s) \in Nat
    BY <1>1
  <2>3. 1 .. k \subseteq 1 .. Len(s)
    BY ONLY <1>2, <2>2
  <2> QED BY <2>1, <2>3
<1>4. X \in SUBSET Tasks /\ \A u \in X : Has(s, u)
  BY <1>1, <1>3 DEF Has
<1>5. n <= 0 => X = {}
  <2>1. n \in Int
    OBVIOUS
  <2>2. n <= 0 => 1 .. k = {}
    BY ONLY <1>2, <2>1
  <2> QED BY <1>3, <2>2
<1>6. ASSUME n >= 0 PROVE Cardinality(X) = n \/ \A u : Has(s, u) => u \in X
  <2>1. CASE k = n
    <3> DEFINE f == [i \in 1 .. k |-> s[i]]
    <3>2. \A i, j \in 1 .. k : s[i] = s[j] => i = j
      BY <1>1, <1>3 DEF EventList, IsInjective
    <3>3. f \in Bijection(1 .. k, X)
      <4>1. f \in [1 .. k -> X] /\ \A x \in X : \E i \in 1 .. k : f[i] = x
        BY <1>3
      <4>2. IsInjective(f)
        BY <3>2 DEF IsInjective
      <4> QED BY <4>1, <4>2 DEF Bijection, Injection, Surjection
    <3>4. ExistsBijection(1 .. k, X)
      BY <3>3 DEF ExistsBijection
    <3>5. Cardinality(X) = k
      <4>1. k \in Nat
        BY <1>6, <2>1
      <4> QED BY <3>4, <4>1, FS_CountingElements
    <3> QED BY <2>1, <3>5
  <2>2. CASE k = Len(s)
    BY <1>1, <1>3, <2>2 DEF Has
  <2> QED BY <1>2, <2>1, <2>2
<1>7. ASSUME NEW u \in X, NEW v, Has(s, v), v \notin X PROVE Priority[u] >= Priority[v]
  <2>1. PICK i \in 1 .. k : u = s[i]
    BY <1>3
  <2>2. PICK j \in 1 .. Len(s) : v = s[j]
    BY <1>1, <1>7 DEF Has
  <2>3. j \notin 1 .. k
    BY <1>3, <1>7, <2>2
  <2>4. i \in 1 .. Len(s) /\ i < j
    <3>1. Len(s) \in Nat /\ i \in 1 .. k /\ j \in 1 .. Len(s)
      BY <1>1
    <3> QED BY ONLY <1>2, <2>3, <3>1
  <2> QED BY <1>1, <2>1, <2>2, <2>4 DEF EventList, Sorted
<1> QED BY <1>4, <1>5, <1>6, <1>7

\* The tasks of X leave the list s.
LEMMA Unlisted ==
  ASSUME NEW l, Listed(l), NEW s \in Sides, NEW X \in SUBSET Tasks, \A u \in X : Has(l.waiting[s], u),
         NEW m, m = [l EXCEPT !.waiting[s] = Leave(@, X)]
  PROVE  /\ m \in ListsType /\ Dropped(l, m, X)
         /\ m.tick = l.tick /\ m.next = l.next /\ m.ready = l.ready /\ m.delayed = l.delayed
         /\ m.wake = l.wake /\ m.wrapped = l.wrapped
<1>1. l \in ListsType /\ Fields(l)
  BY Typed DEF Listed
<1>2. PICK k : k = Leave(l.waiting[s], X)
  OBVIOUS
<1>3. EventList(k) /\ \A u : Has(k, u) <=> Has(l.waiting[s], u) /\ u \notin X
  BY <1>2, Left DEF Listed
<1>4. PICK w : w = [l.waiting EXCEPT ![s] = k]
  OBVIOUS
<1>5. w \in [Sides -> Seq(Tasks)] /\ w[s] = k /\ \A r \in Sides : r # s => w[r] = l.waiting[r]
  BY <1>1, <1>3, <1>4 DEF EventList, Fields
<1>6. m = [l EXCEPT !.waiting = w]
  BY <1>2, <1>4
<1>7. /\ m \in ListsType /\ m.waiting = w
      /\ m.tick = l.tick /\ m.next = l.next /\ m.ready = l.ready /\ m.delayed = l.delayed
      /\ m.wake = l.wake /\ m.wrapped = l.wrapped
  BY ONLY <1>1, <1>5, <1>6 DEF ListsType
<1>8. ASSUME NEW r \in Sides
      PROVE  EventList(w[r]) /\ \A u : Has(w[r], u) <=> Has(l.waiting[r], u) /\ u \notin X
  <2>1. CASE r = s
    BY <1>3, <1>5, <2>1
  <2>2. CASE r # s
    <3>1. EventList(l.waiting[r]) /\ \A u \in Tasks : Has(l.waiting[r], u) => u \notin X
      BY <2>2 DEF Listed
    <3>2. \A u : Has(l.waiting[r], u) => u \in Tasks
      BY <3>1 DEF EventList, Has
    <3> QED BY <1>5, <2>2, <3>1, <3>2
  <2> QED BY <2>1, <2>2
<1> QED BY <1>7, <1>8 DEF Dropped

\* A task blocks for the time it has left to wait.
LEMMA PlaceDoes ==
  ASSUME NEW l, Listed(l), Due(l), toWait \in [Tasks -> Ticks],
         NEW t \in Tasks, t \in l.ready, ~Has(l.waiting[Side(t)], t), toWait[t] # 0,
         NEW m, m = PlaceOnEventList(l, t)
  PROVE  /\ Listed(m) /\ Due(m)
         /\ m.tick = l.tick /\ m.wrapped = l.wrapped /\ m.ready = l.ready \ {t}
         /\ \A s \in Sides, u \in Tasks :
              Has(m.waiting[s], u) <=> Has(l.waiting[s], u) \/ (s = Side(t) /\ u = t)
         /\ \A u \in Tasks : u # t => m.delayed[u] = l.delayed[u] /\ m.wake[u] = l.wake[u]
         /\ Timed(m, t) => Dist(m, t) = toWait[t]
<1>1. l \in ListsType /\ Fields(l) /\ Side(t) \in Sides
  BY Typed DEF Listed, Sides, Side
<1>2. PICK k : k = InsertByPriority(l.waiting[Side(t)], t)
  OBVIOUS
<1>3. EventList(k) /\ \A u : Has(k, u) <=> Has(l.waiting[Side(t)], u) \/ u = t
  BY <1>1, <1>2, Inserted DEF Listed
<1>4. PICK w, r : w = [l.waiting EXCEPT ![Side(t)] = k] /\ r = l.ready \ {t}
  OBVIOUS
<1>5. /\ w \in [Sides -> Seq(Tasks)] /\ w[Side(t)] = k /\ \A s \in Sides : s # Side(t) => w[s] = l.waiting[s]
      /\ r \in SUBSET Tasks
  BY <1>1, <1>3, <1>4 DEF EventList, Fields
<1>6. \A s \in Sides : EventList(w[s]) /\ \A u : Has(w[s], u) <=> Has(l.waiting[s], u) \/ (s = Side(t) /\ u = t)
  BY <1>3, <1>5 DEF Listed
<1>7. PICK a : a = [l EXCEPT !.waiting = w, !.ready = r]
  OBVIOUS
<1>8. /\ a \in ListsType /\ a.waiting = w /\ a.ready = r
      /\ a.tick = l.tick /\ a.next = l.next /\ a.delayed = l.delayed
      /\ a.wake = l.wake /\ a.wrapped = l.wrapped
  BY ONLY <1>1, <1>5, <1>7 DEF ListsType
<1>9. PICK wake : wake = (l.tick + toWait[t]) % TickRange
  OBVIOUS
<1>10. m = IF toWait[t] = portMAX_DELAY THEN [a EXCEPT !.delayed[t] = "suspended"]
           ELSE IF wake < l.tick THEN [a EXCEPT !.delayed[t] = "overflow", !.wake[t] = wake]
           ELSE [a EXCEPT !.delayed[t] = "current", !.wake[t] = wake,
                          !.next = IF wake < @ THEN wake ELSE @]
  BY <1>2, <1>4, <1>7, <1>9 DEF PlaceOnEventList
<1>11. /\ l.tick \in 0 .. TickRange - 1 /\ TickRange \in Nat \ {0, 1} /\ l.next \in 0 .. TickRange - 1
       /\ toWait[t] \in 1 .. TickRange - 1 /\ Ticks = 0 .. TickRange - 1
       /\ \A u \in Tasks : l.wake[u] \in 0 .. TickRange - 1
  BY <1>1, Facts DEF Fields
<1>12. /\ wake \in Ticks
       /\ wake < l.tick => wake + TickRange - l.tick = toWait[t]
       /\ ~(wake < l.tick) => wake - l.tick = toWait[t]
  <2>1. CASE l.tick + toWait[t] < TickRange
    <3>1. l.tick + toWait[t] \in 0 .. TickRange - 1
      BY <1>11, <2>1
    <3>2. \A x \in 0 .. TickRange - 1 : x % TickRange = x
      BY <1>11
    <3>3. wake = l.tick + toWait[t]
      BY <1>9, <3>1, <3>2
    <3> QED BY <1>11, <3>1, <3>3
  <2>2. CASE ~(l.tick + toWait[t] < TickRange)
    <3>1. l.tick + toWait[t] - TickRange \in 0 .. TickRange - 1
      BY <1>11, <2>2
    <3>2. \A x \in 0 .. TickRange - 1 : (x + TickRange) % TickRange = x
      BY <1>11
    <3>3. l.tick + toWait[t] - TickRange + TickRange = l.tick + toWait[t]
      BY <1>11
    <3>4. wake = l.tick + toWait[t] - TickRange
      BY <1>9, <3>1, <3>2, <3>3
    <3> QED BY <1>11, <3>1, <3>4
  <2> QED BY <2>1, <2>2
\* The delayed list, the wake-up time and the next one of each branch.
<1>13. PICK list \in {"suspended", "overflow", "current"}, x \in Ticks, n \in Ticks :
         /\ m = [a EXCEPT !.delayed = [l.delayed EXCEPT ![t] = list],
                          !.wake = [l.wake EXCEPT ![t] = x], !.next = n]
         /\ list # "suspended" => x = wake
         /\ list = "overflow" => wake < l.tick
         /\ list = "current" => ~(wake < l.tick) /\ n <= wake
         /\ n <= l.next
  <2>1. CASE toWait[t] = portMAX_DELAY
    <3>1. l.wake[t] \in Ticks /\ l.next \in Ticks /\ l.next <= l.next
      BY <1>11
    <3>2. [l.wake EXCEPT ![t] = l.wake[t]] = l.wake
      BY <1>1 DEF Fields
    <3>3. [a EXCEPT !.delayed[t] = "suspended"]
            = [a EXCEPT !.delayed = [l.delayed EXCEPT ![t] = "suspended"],
                        !.wake = [l.wake EXCEPT ![t] = l.wake[t]], !.next = l.next]
      BY <1>8, <3>2 DEF ListsType
    <3> QED BY <1>10, <2>1, <3>1, <3>3
  <2>2. CASE toWait[t] # portMAX_DELAY /\ wake < l.tick
    <3>1. wake \in Ticks /\ l.next \in Ticks /\ l.next <= l.next
      BY <1>11, <1>12
    <3>3. [a EXCEPT !.delayed[t] = "overflow", !.wake[t] = wake]
            = [a EXCEPT !.delayed = [l.delayed EXCEPT ![t] = "overflow"],
                        !.wake = [l.wake EXCEPT ![t] = wake], !.next = l.next]
      BY <1>8 DEF ListsType
    <3> QED BY <1>10, <2>2, <3>1, <3>3
  <2>3. CASE toWait[t] # portMAX_DELAY /\ ~(wake < l.tick)
    <3>1. PICK n : n = IF wake < l.next THEN wake ELSE l.next
      OBVIOUS
    <3>2. wake \in Ticks /\ n \in Ticks /\ n <= l.next /\ n <= wake
      BY <1>11, <1>12, <3>1
    <3>3. [a EXCEPT !.delayed[t] = "current", !.wake[t] = wake, !.next = IF wake < @ THEN wake ELSE @]
            = [a EXCEPT !.delayed = [l.delayed EXCEPT ![t] = "current"],
                        !.wake = [l.wake EXCEPT ![t] = wake], !.next = n]
      BY <1>8, <3>1 DEF ListsType
    <3> QED BY <1>10, <2>3, <3>2, <3>3
  <2> QED BY <2>1, <2>2, <2>3
<1>14. PICK d, v : d = [l.delayed EXCEPT ![t] = list] /\ v = [l.wake EXCEPT ![t] = x]
  OBVIOUS
<1>15. /\ d \in [Tasks -> {"none", "current", "overflow", "suspended"}] /\ v \in [Tasks -> Ticks]
       /\ d[t] = list /\ v[t] = x /\ \A u \in Tasks : u # t => d[u] = l.delayed[u] /\ v[u] = l.wake[u]
  BY <1>1, <1>14 DEF Fields
<1>16. m = [a EXCEPT !.delayed = d, !.wake = v, !.next = n]
  BY <1>13, <1>14
<1>17. /\ m \in ListsType /\ m.waiting = w /\ m.ready = r /\ m.tick = l.tick /\ m.next = n
       /\ m.delayed = d /\ m.wake = v /\ m.wrapped = l.wrapped
  BY ONLY <1>8, <1>15, <1>16, n \in Ticks DEF ListsType
<1>18. Listed(m)
  BY <1>4, <1>6, <1>15, <1>17 DEF Listed
<1>19. Due(m)
  <2> SUFFICES ASSUME NEW u \in Tasks, m.delayed[u] = "current"
               PROVE  m.tick < m.wake[u] /\ m.next <= m.wake[u]
    BY DEF Due
  <2>1. CASE u = t
    <3>1. list = "current" /\ m.wake[u] = wake /\ m.next <= wake
      BY <1>13, <1>15, <1>17, <2>1
    <3>2. wake - l.tick = toWait[t]
      BY <1>12, <1>13, <3>1
    <3> QED BY <1>11, <1>12, <1>17, <3>1, <3>2
  <2>2. CASE u # t
    <3>1. l.delayed[u] = "current" /\ m.wake[u] = l.wake[u]
      BY <1>15, <1>17, <2>2
    <3>2. l.tick < l.wake[u] /\ l.next <= l.wake[u]
      BY <3>1 DEF Due
    <3> QED BY <1>11, <1>13, <1>17, <3>1, <3>2
  <2> QED BY <2>1, <2>2
<1>20. ASSUME Timed(m, t) PROVE Dist(m, t) = toWait[t]
  BY <1>12, <1>13, <1>15, <1>17, <1>20 DEF Timed, Dist
<1> QED BY <1>4, <1>6, <1>15, <1>17, <1>18, <1>19, <1>20

\* The unsigned subtraction of the code, while the call has not been longer.
LEMMA PassedIs ==
  ASSUME Listed(lists), entered \in [Tasks -> Ticks], NEW t \in Tasks
  PROVE  /\ Passed(t) \in Nat /\ Passed(t) < TickRange
         /\ Passed(t) = IF lists.tick >= entered[t] THEN lists.tick - entered[t]
                        ELSE lists.tick - entered[t] + TickRange
<1>1. lists.tick \in 0 .. TickRange - 1 /\ entered[t] \in 0 .. TickRange - 1 /\ TickRange \in Nat \ {0, 1}
  BY Typed, Facts DEF Listed, Fields
<1>2. PICK d : d = lists.tick - entered[t]
  OBVIOUS
<1>3. Passed(t) = d % TickRange
  BY <1>2 DEF Passed
<1>4. CASE lists.tick >= entered[t]
  <2>1. d \in 0 .. TickRange - 1
    BY <1>1, <1>2, <1>4
  <2>2. \A x \in 0 .. TickRange - 1 : x % TickRange = x
    BY <1>1
  <2>3. Passed(t) = d
    BY <1>3, <2>1, <2>2
  <2> QED BY <1>1, <1>2, <1>4, <2>1, <2>3
<1>5. CASE ~(lists.tick >= entered[t])
  <2>1. d \in -TickRange .. -1 /\ d + TickRange \in 0 .. TickRange - 1
    BY <1>1, <1>2, <1>5
  <2>2. \A x \in -TickRange .. -1 : x % TickRange = x + TickRange
    BY <1>1
  <2>3. Passed(t) = d + TickRange
    BY <1>3, <2>1, <2>2
  <2> QED BY <1>1, <1>2, <1>5, <2>1, <2>3
<1> QED BY <1>4, <1>5

\* What an action does that removes the tasks of X, the first n of them, from
\* the list s.
First(l, s, n, X) ==
  /\ X \in SUBSET Tasks
  /\ \A u \in X : Has(l.waiting[s], u)
  /\ n <= 0 => X = {}
  /\ n >= 0 => Cardinality(X) = n \/ \A u : Has(l.waiting[s], u) => u \in X
  /\ \A u \in X : \A v : Has(l.waiting[s], v) /\ v \notin X => Priority[u] >= Priority[v]

Removed(l, m, X) ==
  /\ Listed(m) /\ Due(m)
  /\ m.tick = l.tick /\ m.wrapped = l.wrapped
  /\ \A s \in Sides, u \in Tasks : Has(m.waiting[s], u) <=> Has(l.waiting[s], u) /\ u \notin X
  /\ \A u \in Tasks : Timed(m, u) => Timed(l, u) /\ Dist(m, u) = Dist(l, u)

LEMMA RemoveDoes ==
  ASSUME Listed(lists), Due(lists), NEW s \in Sides, NEW n \in Int, RemoveFromEventList(s, n)
  PROVE  \E X : /\ First(lists, s, n, X) /\ Removed(lists, lists', X)
                /\ suspender = None => lists'.ready = lists.ready \cup X /\ pending' = pending
                /\ suspender # None => lists'.ready = lists.ready /\ pending' = pending \cup X
<1>1. PICK X : X = Heads(lists, s, n)
  OBVIOUS
<1>2. First(lists, s, n, X)
  <2>1. X = FirstOf(lists.waiting[s], n)
    BY <1>1 DEF Heads, FirstOf
  <2>2. EventList(lists.waiting[s])
    BY DEF Listed
  <2>3. PICK q : q = lists.waiting[s]
    OBVIOUS
  <2>4. /\ X \in SUBSET Tasks
        /\ \A u \in X : Has(q, u)
        /\ n <= 0 => X = {}
        /\ n >= 0 => Cardinality(X) = n \/ \A u : Has(q, u) => u \in X
        /\ \A u \in X : \A v : Has(q, v) /\ v \notin X => Priority[u] >= Priority[v]
    <3>1. EventList(q) /\ X = FirstOf(q, n) /\ n \in Int
      BY <2>1, <2>2, <2>3
    <3> QED BY ONLY <3>1, FirstDo
  <2> QED BY <2>3, <2>4 DEF First
<1>3. PICK a : a = [lists EXCEPT !.waiting[s] = Leave(@, X)]
  OBVIOUS
<1>4. /\ a \in ListsType /\ Dropped(lists, a, X)
      /\ a.tick = lists.tick /\ a.next = lists.next /\ a.ready = lists.ready /\ a.delayed = lists.delayed
      /\ a.wake = lists.wake /\ a.wrapped = lists.wrapped
  BY <1>2, <1>3, Unlisted DEF First
<1>5. CASE suspender = None
  <2>1. lists' = Ready(a, X) /\ pending' = pending
    BY <1>1, <1>3, <1>5 DEF RemoveFromEventList
  <2>2. PICK m : m = lists'
    OBVIOUS
  <2>3. m \in ListsType /\ Moved(a, m, X) /\ m.next = a.next /\ m.waiting = a.waiting
    <3>1. m = Ready(a, X)
      BY <2>1, <2>2
    <3> QED BY <1>2, <1>4, <3>1, ReadyMoves DEF First
  <2>4. Moved(lists, m, X) /\ Dropped(lists, m, X)
    BY <1>4, <2>3 DEF Moved, Dropped
  <2>5. Listed(m)
    BY <1>2, <2>3, <2>4, MovedListed DEF First
  <2>6. Due(m)
    BY <1>4, <2>3, <2>4 DEF Due, Moved
  <2>7. \A u \in Tasks : Timed(m, u) => Timed(lists, u) /\ Dist(m, u) = Dist(lists, u)
    BY <2>4 DEF Moved, Timed, Dist
  <2>8. Removed(lists, m, X) /\ m.ready = lists.ready \cup X
    BY <2>4, <2>5, <2>6, <2>7 DEF Removed, Moved, Dropped
  <2> QED BY <1>2, <1>5, <2>1, <2>2, <2>8
<1>6. CASE suspender # None
  <2>1. lists' = a /\ pending' = pending \cup X
    BY <1>1, <1>3, <1>6 DEF RemoveFromEventList
  <2>2. Listed(a)
    BY <1>4 DEF Listed, Dropped
  <2>3. Due(a)
    BY <1>4 DEF Due
  <2>4. \A u \in Tasks : Timed(a, u) => Timed(lists, u) /\ Dist(a, u) = Dist(lists, u)
    BY <1>4 DEF Timed, Dist
  <2>5. Removed(lists, a, X)
    BY <1>4, <2>2, <2>3, <2>4 DEF Removed, Dropped
  <2> QED BY <1>2, <1>4, <1>6, <2>1, <2>5
<1> QED BY <1>5, <1>6

-----------------------------------------------------------------------------
(* The inductive invariant *)

\* While the call holds the scheduler; before it blocks, or finds that it need
\* not; after that.
Suspending == {"lock", "check", "examine", "place", "unlockTx", "unlockRx", "resume"}
Blocking   == {"suspend", "lock", "check", "examine", "place"}
Leaving    == {"unlockTx", "unlockRx", "resume"}

Waiting(l, t) == Has(l.waiting[Side(t)], t)

Suspends == \A t \in Tasks : pc[t] \in Suspending <=> suspender = t

\* A task that is not ready waits, or was woken, and was on its way to block.
Blocked ==
  \A t \in Tasks : t \notin lists.ready =>
    /\ pc[t] = "try" \/ pc[t] \in Leaving
    /\ t \in pending \/ Waiting(lists, t)

Woke == \A t \in pending : t \notin lists.ready /\ ~Waiting(lists, t)

Idle == suspender = None =>
  pending = {} /\ pended = 0 /\ lock["recv"] = Unlocked /\ lock["send"] = Unlocked

GivesUp == \A t \in Tasks : timedOut[t] => /\ t \in lists.ready /\ pc[t] \in Leaving
                                           /\ elapsed[t] = asked[t]

\* Only the interrupt sends to a locked queue.
Locks ==
  /\ lock["send"] <= 0 /\ lock["recv"] <= count
  /\ \A t \in Tasks :
       /\ pc[t] \in {"check", "examine", "place", "unlockTx"} => lock["recv"] >= 0
       /\ pc[t] \in {"unlockRx", "resume"} => lock["recv"] = Unlocked
       /\ pc[t] = "resume" => lock["send"] = Unlocked

\* Messages, or places, that a task of the list s can have.
Avail(s) == IF s = "recv" THEN count ELSE uxLength - count

\* Tasks woken, or about to try, before u.
Awake(u) == {t \in Tasks : /\ Side(t) = Side(u) /\ Priority[t] >= Priority[u]
                           /\ t \in pending \/ (pc[t] = "try" /\ t \in lists.ready)}

\* A task that goes on to block has found nothing, but for what the lock counts.
Nothing == \A t \in Tasks : pc[t] = "place" => Avail(Side(t)) <= Counted(Side(t))

\* For each message a task waits beside, one of its priority or a higher one is
\* awake, or the lock will wake one.
Wakeups ==
  \A u \in Tasks : Waiting(lists, u) =>
    Avail(Side(u)) <= Cardinality(Awake(u)) + Counted(Side(u))

\* A blocked task has slept no longer than it has to wait, ticks to come included.
Sleeps ==
  /\ \A t \in Tasks : pc[t] \in Blocking =>
       toWait[t] # 0 /\ slept[t] = 0 /\ timing[t] = (toWait[t] # portMAX_DELAY)
  /\ \A t \in Tasks : Timed(lists, t) => slept[t] + Dist(lists, t) <= toWait[t] + pended

\* The time a call believes it has spent is no longer than the time it has spent.
Clock(t) ==
  /\ asked[t] # portMAX_DELAY /\ toWait[t] <= asked[t] /\ Since(lists, t)
  /\ elapsed[t] = asked[t] \/ asked[t] - toWait[t] + Lapse(lists, t) + pended <= elapsed[t]

Clocks ==
  /\ \A t \in Tasks : pc[t] = "out" => ~timing[t]
  /\ \A t \in Tasks : pc[t] # "out" /\ ~timing[t] => toWait[t] = asked[t]
  /\ \A t \in Tasks : timing[t] => Clock(t)
  /\ \A t \in Tasks : elapsed[t] <= asked[t]

Inv ==
  /\ TypeOK /\ Listed(lists) /\ Due(lists)
  /\ Suspends /\ Blocked /\ Woke /\ Idle /\ GivesUp /\ Locks
  /\ Nothing /\ Wakeups /\ Sleeps /\ Clocks

LEMMA InitInv == Init => Inv
<1> SUFFICES ASSUME Init PROVE Inv
  OBVIOUS
<1>1. 0 \in Ticks /\ portMAX_DELAY \in Ticks /\ Ticks \subseteq Nat /\ \A t \in Tasks : t # None
  BY Facts
<1>2. lists \in ListsType
  BY <1>1 DEF Init, ListsType
<1>3. /\ lists.tick = 0 /\ lists.ready = Tasks
      /\ \A t \in Tasks : lists.delayed[t] = "none"
      /\ \A s \in Sides : lists.waiting[s] = <<>>
  BY DEF Init
<1>4. TypeOK
  BY <1>1, <1>2, Facts DEF Init, TypeOK, Unlocked, Sides
<1>5. \A s \in Sides : EventList(lists.waiting[s]) /\ \A u : ~Has(lists.waiting[s], u)
  <2>1. PICK q : q = <<>>
    OBVIOUS
  <2>2. q \in Seq(Tasks) /\ DOMAIN q = {}
    BY <2>1
  <2>3. EventList(q) /\ \A u : ~Has(q, u)
    BY ONLY <2>2 DEF EventList, Has, Sorted, IsInjective
  <2> QED BY <1>3, <2>1, <2>3
<1>6. \A t \in Tasks : Side(t) \in Sides
  BY DEF Side, Sides
<1>7. Listed(lists) /\ Due(lists)
  BY <1>2, <1>3, <1>5 DEF Listed, Due
<1>8. Suspends /\ Blocked /\ Woke /\ Idle /\ GivesUp /\ Nothing
  BY <1>1, <1>3 DEF Init, Suspends, Suspending, Blocked, Woke, Idle, GivesUp, Nothing, Sides
<1>9. Locks /\ Wakeups
  BY <1>1, <1>5, <1>6 DEF Init, Locks, Unlocked, Sides, Wakeups, Waiting
<1>10. Sleeps
  BY <1>3 DEF Init, Sleeps, Blocking, Timed
<1>11. Clocks
  BY <1>1 DEF Init, Clocks
<1> QED BY <1>4, <1>7, <1>8, <1>9, <1>10, <1>11 DEF Inv

\* The processor is the task's own, or the scheduler's.
LEMMA Where ==
  ASSUME Inv, NEW t \in Tasks, Running(t)
  PROVE  /\ pc[t] \in Suspending =>
              suspender = t /\ \A u \in Tasks : u # t => pc[u] \notin Suspending
         /\ pc[t] \notin Suspending =>
              /\ suspender = None /\ t \in lists.ready /\ pending = {} /\ pended = 0
              /\ lock["recv"] = Unlocked /\ lock["send"] = Unlocked
              /\ \A u \in Tasks : pc[u] \notin Suspending
BY Facts DEF Inv, Suspends, Idle, Running

\* What every step needs of the types.
LEMMA Kinds ==
  ASSUME Inv
  PROVE  /\ count \in 0 .. uxLength /\ uxLength \in Nat \ {0} /\ pended \in Nat
         /\ lock \in [Sides -> Int] /\ lock["recv"] \in Int /\ lock["send"] \in Int
         /\ \A s \in Sides : lock[s] >= -1 /\ lock[s] <= uxLength /\ Counted(s) \in Nat /\ Avail(s) \in Nat
         /\ \A t \in Tasks : Side(t) \in Sides
         /\ \A t \in Tasks : /\ toWait[t] \in 0 .. TickRange - 1 /\ asked[t] \in 0 .. TickRange - 1
                             /\ elapsed[t] \in Nat /\ slept[t] \in Nat
                             /\ Dist(lists, t) \in Int /\ Lapse(lists, t) \in Nat
         /\ TickRange \in Nat \ {0, 1} /\ portMAX_DELAY = TickRange - 1 /\ Ticks = 0 .. TickRange - 1
         /\ entered \in [Tasks -> Ticks] /\ timing \in [Tasks -> BOOLEAN] /\ toWait \in [Tasks -> Ticks]
<1>1. TypeOK /\ Listed(lists)
  BY DEF Inv
<1>2. \A t \in Tasks : Side(t) \in Sides
  BY DEF Side, Sides
<1>3. \A t \in Tasks : Dist(lists, t) \in Int /\ Lapse(lists, t) \in Nat
  BY <1>1, Ranges DEF TypeOK
<1>4. \A s \in Sides : lock[s] \in Int /\ lock[s] >= -1 /\ lock[s] <= uxLength
  BY <1>1, Facts DEF TypeOK, Unlocked
<1>5. lock \in [Sides -> Int]
  BY <1>1, <1>4 DEF TypeOK
<1>8. count \in 0 .. uxLength /\ pended \in Nat /\ entered \in [Tasks -> Ticks] /\ timing \in [Tasks -> BOOLEAN]
      /\ toWait \in [Tasks -> Ticks]
  BY <1>1, Facts DEF TypeOK
<1>9. \A s \in Sides : Counted(s) \in Nat
  <2> SUFFICES ASSUME NEW s \in Sides PROVE Counted(s) \in Nat
    OBVIOUS
  <2>1. lock[s] \in Int /\ lock[s] >= -1
    BY <1>4
  <2> QED BY <2>1 DEF Counted, Unlocked
<1>10. \A s \in Sides : Avail(s) \in Nat
  BY <1>8, Facts DEF Avail
<1>6. "recv" \in Sides /\ "send" \in Sides
  BY DEF Sides
<1>7. \A t \in Tasks : toWait[t] \in Ticks /\ asked[t] \in Ticks /\ elapsed[t] \in Nat /\ slept[t] \in Nat
  BY <1>1 DEF TypeOK
<1> QED BY <1>2, <1>3, <1>4, <1>5, <1>6, <1>7, <1>8, <1>9, <1>10, Facts

\* A step that takes nobody from the tasks awake, and leaves the count.
LEMMA WakeupsKept ==
  ASSUME Inv, count' = count, \A s \in Sides : Counted(s)' = Counted(s),
         \A u \in Tasks : Waiting(lists', u) => Waiting(lists, u) /\ Awake(u) \subseteq Awake(u)'
  PROVE  Wakeups'
<1> SUFFICES ASSUME NEW u \in Tasks, Waiting(lists', u)
             PROVE  Avail(Side(u))' <= Cardinality(Awake(u)') + Counted(Side(u))'
  BY DEF Wakeups
<1>1. Avail(Side(u)) <= Cardinality(Awake(u)) + Counted(Side(u))
  BY DEF Inv, Wakeups
<1>2. Awake(u)' \in SUBSET Tasks /\ Awake(u) \in SUBSET Awake(u)'
  BY DEF Awake
<1>3. Cardinality(Awake(u)) <= Cardinality(Awake(u)')
  BY <1>2, Larger
<1>4. Cardinality(Awake(u)) \in Nat /\ Cardinality(Awake(u)') \in Nat
  BY <1>2, Sizes
<1>5. Avail(Side(u))' = Avail(Side(u)) /\ Counted(Side(u))' = Counted(Side(u)) /\ Avail(Side(u)) \in Int
  BY Kinds DEF Avail
<1>6. Counted(Side(u)) \in Int
  BY Kinds DEF Counted
<1> QED BY <1>1, <1>3, <1>4, <1>5, <1>6

-----------------------------------------------------------------------------
(* The steps of a call *)

LEMMA CallInv ==
  ASSUME Inv, NEW t \in Tasks, NEW ticks \in Waits[t], Call(t, ticks)
  PROVE  Inv'
<1>1. /\ pc[t] = "out" /\ pc' = [pc EXCEPT ![t] = "try"]
      /\ toWait' = [toWait EXCEPT ![t] = ticks] /\ asked' = [asked EXCEPT ![t] = ticks]
      /\ elapsed' = [elapsed EXCEPT ![t] = 0]
      /\ UNCHANGED <<count, lock, lists, suspender, pending, pended, entered, timing, timedOut, slept>>
  BY DEF Call, Goto, queueVars
<1>2. /\ suspender = None /\ t \in lists.ready /\ ticks \in Ticks /\ TypeOK
      /\ \A u \in Tasks : pc[u] \notin Suspending
  BY <1>1, Where, Facts DEF Call, Suspending, Inv
<1>3. /\ pc'[t] = "try" /\ toWait'[t] = ticks /\ asked'[t] = ticks /\ elapsed'[t] = 0
      /\ \A u \in Tasks : u # t => /\ pc'[u] = pc[u] /\ toWait'[u] = toWait[u]
                                   /\ asked'[u] = asked[u] /\ elapsed'[u] = elapsed[u]
  BY <1>1, <1>2 DEF TypeOK
<1>4. TypeOK'
  BY <1>1, <1>2, Facts DEF TypeOK
<1>5. Suspends' /\ Blocked' /\ Woke' /\ Idle' /\ GivesUp' /\ Locks' /\ Nothing'
  BY <1>1, <1>2, <1>3 DEF Inv, Suspends, Suspending, Blocked, Leaving, Waiting, Woke, Idle, GivesUp, Locks, Nothing,
     Avail, Counted
<1>6. Wakeups'
  BY <1>1, <1>3, WakeupsKept DEF Waiting, Awake, Counted
<1>7. Sleeps'
  BY <1>1, <1>2, <1>3 DEF Inv, Sleeps, Blocking, Listed, Timed
<1>8. Clocks'
  <2>1. ~timing[t]
    BY <1>1 DEF Inv, Clocks
  <2>2. \A u \in Tasks : timing[u] => Clock(u)'
    BY <1>1, <1>3, <2>1 DEF Inv, Clocks, Clock, Since, Lapse
  <2>3. 0 <= ticks
    BY <1>2, Facts
  <2> QED BY <1>1, <1>3, <2>1, <2>2, <2>3 DEF Inv, Clocks
<1> QED BY <1>1, <1>4, <1>5, <1>6, <1>7, <1>8 DEF Inv

\* The call returns.
Gone(t) ==
  /\ pc'[t] = "out" /\ ~timing'[t] /\ ~timedOut'[t] /\ elapsed'[t] = 0 /\ asked'[t] = 0
  /\ slept'[t] = 0 /\ toWait'[t] = 0
  /\ \A u \in Tasks : u # t =>
       /\ pc'[u] = pc[u] /\ toWait'[u] = toWait[u] /\ entered'[u] = entered[u] /\ timing'[u] = timing[u]
       /\ timedOut'[u] = timedOut[u] /\ asked'[u] = asked[u] /\ elapsed'[u] = elapsed[u]
       /\ slept'[u] = slept[u]

LEMMA Returned ==
  ASSUME TypeOK, NEW t \in Tasks, Return(t)
  PROVE  /\ Gone(t)
         /\ toWait' \in [Tasks -> Ticks] /\ entered' \in [Tasks -> Ticks] /\ asked' \in [Tasks -> Ticks]
         /\ timing' \in [Tasks -> BOOLEAN] /\ timedOut' \in [Tasks -> BOOLEAN]
         /\ elapsed' \in [Tasks -> Nat] /\ slept' \in [Tasks -> Nat]
         /\ pc' \in [Tasks -> {"out", "try", "suspend", "lock", "check", "examine",
                               "place", "unlockTx", "unlockRx", "resume"}]
<1>1. 0 \in Ticks
  BY Facts
<1> QED BY <1>1 DEF TypeOK, Return, Goto, Gone

\* A call that finds nothing.
LEMMA NonePossible ==
  ASSUME Inv, NEW t \in Tasks, ~Possible(t)
  PROVE  Avail(Side(t)) <= 0
<1>1. count \in Int /\ uxLength \in Int
  BY Kinds
<1>2. CASE t \in Receivers
  BY <1>1, <1>2 DEF Possible, Avail, Side
<1>3. CASE t \notin Receivers
  BY <1>1, <1>3 DEF Possible, Avail, Side
<1> QED BY <1>2, <1>3

LEMMA TryFailsInv ==
  ASSUME Inv, NEW t \in Tasks, TryFails(t)
  PROVE  Inv'
<1>1. /\ pc[t] = "try" /\ ~Possible(t) /\ Return(t) /\ Gone(t) /\ TypeOK
      /\ UNCHANGED <<count, lock, lists, suspender, pending, pended>>
  BY Returned DEF TryFails, queueVars, Inv
<1>2. /\ suspender = None /\ t \in lists.ready /\ lock["recv"] = Unlocked
      /\ \A u \in Tasks : pc[u] \notin Suspending
  BY <1>1, Where DEF TryFails, Suspending
<1>4. TypeOK'
  BY <1>1, Returned DEF TypeOK
<1>5. Suspends' /\ Blocked' /\ Woke' /\ Idle' /\ GivesUp' /\ Locks' /\ Nothing'
  BY <1>1, <1>2 DEF Inv, Suspends, Suspending, Blocked, Leaving, Waiting, Woke, Idle, GivesUp, Locks, Nothing,
     Avail, Counted, Gone
<1>6. Wakeups'
  <2> SUFFICES ASSUME NEW u \in Tasks, Waiting(lists, u)
               PROVE  Avail(Side(u))' <= Cardinality(Awake(u)') + Counted(Side(u))'
    BY <1>1 DEF Wakeups, Waiting
  <2>1. /\ Avail(Side(u))' = Avail(Side(u)) /\ Counted(Side(u))' = Counted(Side(u))
        /\ Avail(Side(u)) <= Cardinality(Awake(u)) + Counted(Side(u))
    BY <1>1 DEF Avail, Counted, Inv, Wakeups
  <2>a. Counted(Side(u)) \in Nat /\ Avail(Side(u)) \in Nat
    BY Kinds
  <2>2. Awake(u)' \in SUBSET Tasks /\ Awake(u) \in SUBSET Tasks
    BY DEF Awake
  <2>3. Cardinality(Awake(u)') \in Nat
    BY <2>2, Sizes
  <2>4. CASE Side(u) = Side(t)
    <3>1. Avail(Side(u)) <= 0
      BY <1>1, <2>4, NonePossible
    <3> QED BY <2>1, <2>a, <2>3, <3>1
  <2>5. CASE Side(u) # Side(t)
    <3>1. Awake(u)' = Awake(u)
      BY <1>1, <2>5 DEF Awake, Gone
    <3> QED BY <2>1, <3>1
  <2> QED BY <2>4, <2>5
<1>7. Sleeps'
  BY <1>1, <1>2 DEF Inv, Sleeps, Blocking, Listed, Timed, Gone
<1>8. Clocks'
  <2>1. \A u \in Tasks : u # t /\ timing[u] => Clock(u)'
    BY <1>1 DEF Inv, Clocks, Clock, Since, Lapse, Gone
  <2> QED BY <1>1, <2>1 DEF Inv, Clocks, Gone
<1> QED BY <1>1, <1>4, <1>5, <1>6, <1>7, <1>8 DEF Inv

LEMMA TryBlocksInv ==
  ASSUME Inv, NEW t \in Tasks, TryBlocks(t)
  PROVE  Inv'
<1>1. /\ pc[t] = "try" /\ ~Possible(t) /\ toWait[t] # 0 /\ pc' = [pc EXCEPT ![t] = "suspend"]
      /\ timing' = [timing EXCEPT ![t] = toWait[t] # portMAX_DELAY]
      /\ slept' = [slept EXCEPT ![t] = 0]
      /\ UNCHANGED <<count, lock, suspender, pending, pended, toWait, timedOut, asked, elapsed>>
  BY DEF TryBlocks, Goto, queueVars
<1>2. /\ suspender = None /\ t \in lists.ready /\ lock["recv"] = Unlocked /\ pended = 0 /\ TypeOK /\ Listed(lists)
      /\ \A u \in Tasks : pc[u] \notin Suspending
  BY <1>1, Where DEF TryBlocks, Suspending, Inv
<1>3. /\ pc'[t] = "suspend" /\ timing'[t] = (toWait[t] # portMAX_DELAY) /\ slept'[t] = 0
      /\ \A u \in Tasks : u # t => pc'[u] = pc[u] /\ timing'[u] = timing[u] /\ slept'[u] = slept[u]
  BY <1>1, <1>2 DEF TypeOK
<1>4. /\ entered' \in [Tasks -> Ticks]
      /\ entered'[t] = IF timing'[t] /\ ~timing[t] THEN lists.tick ELSE entered[t]
      /\ \A u \in Tasks : u # t => entered'[u] = entered[u]
  <2>1. entered' = [entered EXCEPT ![t] = IF timing'[t] /\ ~timing[t] THEN lists.tick ELSE entered[t]]
    BY DEF TryBlocks
  <2>2. entered \in [Tasks -> Ticks] /\ lists.tick \in Ticks
    BY <1>2, Typed DEF TypeOK, Listed, Fields
  <2> QED BY <2>1, <2>2
<1>5. PICK w : w = [lists.wrapped EXCEPT ![t] = timing[t] /\ lists.wrapped[t]]
  OBVIOUS
<1>6. /\ w \in [Tasks -> BOOLEAN] /\ w[t] = (timing[t] /\ lists.wrapped[t])
      /\ \A u \in Tasks : u # t => w[u] = lists.wrapped[u]
  <2>1. lists.wrapped \in [Tasks -> BOOLEAN]
    BY <1>2, Typed DEF Listed, Fields
  <2> QED BY <1>5, <2>1
<1>7. /\ lists' \in ListsType /\ lists'.wrapped = w
      /\ lists'.tick = lists.tick /\ lists'.next = lists.next /\ lists'.ready = lists.ready
      /\ lists'.delayed = lists.delayed /\ lists'.wake = lists.wake /\ lists'.waiting = lists.waiting
  <2>1. lists' = [lists EXCEPT !.wrapped = w] /\ lists \in ListsType
    BY <1>2, <1>5 DEF TryBlocks, Listed
  <2> QED BY ONLY <1>6, <2>1 DEF ListsType
<1>8. TypeOK'
  BY <1>1, <1>2, <1>4, <1>7 DEF TypeOK
<1>9. Listed(lists') /\ Due(lists')
  BY <1>2, <1>7 DEF Inv, Listed, Due
<1>10. Suspends' /\ Blocked' /\ Woke' /\ Idle' /\ GivesUp' /\ Locks' /\ Nothing'
  BY <1>1, <1>2, <1>3, <1>7 DEF Inv, Suspends, Suspending, Blocked, Leaving, Waiting, Woke, Idle, GivesUp, Locks,
     Nothing, Avail, Counted
<1>11. Wakeups'
  <2> SUFFICES ASSUME NEW u \in Tasks, Waiting(lists, u)
               PROVE  Avail(Side(u))' <= Cardinality(Awake(u)') + Counted(Side(u))'
    BY <1>7 DEF Wakeups, Waiting
  <2>1. /\ Avail(Side(u))' = Avail(Side(u)) /\ Counted(Side(u))' = Counted(Side(u))
        /\ Avail(Side(u)) <= Cardinality(Awake(u)) + Counted(Side(u))
    BY <1>1 DEF Avail, Counted, Inv, Wakeups
  <2>2. Counted(Side(u)) \in Nat /\ Avail(Side(u)) \in Nat
    BY Kinds
  <2>3. Awake(u)' \in SUBSET Tasks /\ Awake(u) \in SUBSET Tasks
    BY DEF Awake
  <2>4. Cardinality(Awake(u)') \in Nat
    BY <2>3, Sizes
  <2>5. CASE Side(u) = Side(t)
    <3>1. Avail(Side(u)) <= 0
      BY <1>1, <2>5, NonePossible
    <3> QED BY <2>1, <2>2, <2>4, <3>1
  <2>6. CASE Side(u) # Side(t)
    <3>1. Awake(u)' = Awake(u)
      BY <1>1, <1>3, <1>7, <2>6 DEF Awake
    <3> QED BY <2>1, <3>1
  <2> QED BY <2>5, <2>6
<1>12. Sleeps'
  <2>1. \A u \in Tasks : ~Timed(lists', t) /\ (Timed(lists', u) => Timed(lists, u) /\ Dist(lists', u) = Dist(lists, u))
    BY <1>2, <1>7 DEF Listed, Timed, Dist
  <2>2. ASSUME NEW u \in Tasks, Timed(lists', u) PROVE slept'[u] + Dist(lists', u) <= toWait'[u] + pended'
    BY <1>1, <1>3, <2>1, <2>2 DEF Inv, Sleeps
  <2>3. ASSUME NEW u \in Tasks, pc'[u] \in Blocking
        PROVE  toWait'[u] # 0 /\ slept'[u] = 0 /\ timing'[u] = (toWait'[u] # portMAX_DELAY)
    BY <1>1, <1>3, <2>3 DEF Inv, Sleeps
  <2> QED BY <2>2, <2>3 DEF Sleeps
<1>13. Clocks'
  <2>1. ASSUME NEW u \in Tasks, u # t, timing[u] PROVE Clock(u)'
    BY <1>1, <1>3, <1>4, <1>6, <1>7, <2>1 DEF Inv, Clocks, Clock, Since, Lapse
  <2>2. ASSUME timing'[t], timing[t] PROVE Clock(t)'
    <3>1. Clock(t) /\ entered'[t] = entered[t] /\ w[t] = lists.wrapped[t]
      <4>1. lists.wrapped[t] \in BOOLEAN
        BY <1>2, Typed DEF Listed, Fields
      <4> QED BY <1>4, <1>6, <2>2, <4>1 DEF Inv, Clocks
    <3> QED BY <1>1, <1>7, <3>1 DEF Clock, Since, Lapse
  <2>3. ASSUME timing'[t], ~timing[t] PROVE Clock(t)'
    <3>1. toWait[t] = asked[t] /\ toWait[t] # portMAX_DELAY
      BY <1>1, <1>3, <2>3 DEF Inv, Clocks
    <3>2. entered'[t] = lists.tick /\ ~w[t]
      BY <1>4, <1>6, <2>3
    <3>3. lists.tick \in Nat /\ asked[t] \in Nat /\ elapsed[t] \in Nat
      BY <1>2, Typed, Facts, Kinds DEF Listed, Fields
    <3>4. Since(lists, t)' /\ Lapse(lists, t)' = 0
      BY <1>7, <3>2, <3>3 DEF Since, Lapse
    <3> QED BY <1>1, <1>2, <3>1, <3>3, <3>4 DEF Clock
  <2>4. ASSUME ~timing'[t] PROVE toWait'[t] = asked'[t]
    <3>1. toWait[t] = TickRange - 1
      BY <1>1, <1>3, <2>4, Facts
    <3>2. ~timing[t]
      <4>1. timing[t] => asked[t] # TickRange - 1 /\ toWait[t] <= asked[t]
        BY Facts DEF Inv, Clocks, Clock
      <4>2. asked[t] \in 0 .. TickRange - 1 /\ TickRange \in Nat
        BY Kinds
      <4> QED BY <3>1, <4>1, <4>2
    <3> QED BY <1>1, <3>2 DEF Inv, Clocks
  <2>5. \A u \in Tasks : timing'[u] => Clock(u)'
    BY <1>3, <2>1, <2>2, <2>3
  <2>6. \A u \in Tasks : pc'[u] # "out" /\ ~timing'[u] => toWait'[u] = asked'[u]
    BY <1>1, <1>3, <2>4 DEF Inv, Clocks
  <2>7. \A u \in Tasks : (pc'[u] = "out" => ~timing'[u]) /\ elapsed'[u] <= asked'[u]
    BY <1>1, <1>3 DEF Inv, Clocks
  <2> QED BY <2>5, <2>6, <2>7 DEF Clocks
<1> QED BY <1>8, <1>9, <1>10, <1>11, <1>12, <1>13 DEF Inv

LEMMA SuspendAllInv ==
  ASSUME Inv, NEW t \in Tasks, SuspendAll(t)
  PROVE  Inv'
<1>1. /\ pc[t] = "suspend" /\ pc' = [pc EXCEPT ![t] = "lock"] /\ suspender' = t
      /\ UNCHANGED <<count, lock, lists, pending, pended, toWait, entered, timing, asked, timedOut, elapsed, slept>>
  BY DEF SuspendAll, Goto, queueVars, taskVars
<1>2. /\ suspender = None /\ t \in lists.ready /\ TypeOK /\ t # None
      /\ \A u \in Tasks : pc[u] \notin Suspending
  BY <1>1, Where, Facts DEF SuspendAll, Suspending, Inv
<1>3. pc'[t] = "lock" /\ \A u \in Tasks : u # t => pc'[u] = pc[u]
  BY <1>1, <1>2 DEF TypeOK
<1>4. TypeOK'
  BY <1>1, <1>2 DEF TypeOK
<1>5. Suspends' /\ Blocked' /\ Woke' /\ Idle' /\ GivesUp' /\ Locks' /\ Nothing'
  BY <1>1, <1>2, <1>3 DEF Inv, Suspends, Suspending, Blocked, Leaving, Waiting, Woke, Idle, GivesUp, Locks, Nothing,
     Avail, Counted
<1>6. Wakeups'
  BY <1>1, <1>3, WakeupsKept DEF Waiting, Awake, Counted
<1>7. Sleeps'
  BY <1>1, <1>3 DEF Inv, Sleeps, Blocking
<1>8. Clocks'
  BY <1>1, <1>3 DEF Inv, Clocks, Clock, Since, Lapse
<1> QED BY <1>1, <1>4, <1>5, <1>6, <1>7, <1>8 DEF Inv

LEMMA LockQueueInv ==
  ASSUME Inv, NEW t \in Tasks, LockQueue(t)
  PROVE  Inv'
<1>1. /\ pc[t] = "lock" /\ pc' = [pc EXCEPT ![t] = "check"]
      /\ lock' = [s \in Sides |-> IF lock[s] = Unlocked THEN 0 ELSE lock[s]]
      /\ UNCHANGED <<count, lists, suspender, pending, pended, toWait, entered, timing, asked, timedOut, elapsed, slept>>
  BY DEF LockQueue, Goto, taskVars
<1>2. suspender = t /\ TypeOK /\ t # None /\ \A u \in Tasks : u # t => pc[u] \notin Suspending
  BY <1>1, Where, Facts DEF LockQueue, Suspending, Inv
<1>3. pc'[t] = "check" /\ \A u \in Tasks : u # t => pc'[u] = pc[u]
  BY <1>1, <1>2 DEF TypeOK
<1>4. \A s \in Sides : lock'[s] = IF lock[s] = Unlocked THEN 0 ELSE lock[s]
  BY <1>1
<1>5. /\ lock'["recv"] >= 0 /\ lock'["recv"] <= count /\ lock'["send"] <= 0
      /\ \A s \in Sides : lock'[s] \in Unlocked .. uxLength /\ Counted(s)' = Counted(s)
  <2>1. "recv" \in Sides /\ "send" \in Sides
    BY DEF Sides
  <2>2. /\ count \in 0 .. uxLength /\ uxLength \in Nat /\ lock["recv"] <= count /\ lock["send"] <= 0
        /\ \A s \in Sides : lock[s] \in Int /\ lock[s] >= -1 /\ lock[s] <= uxLength
    BY Kinds DEF Inv, Locks
  <2>3. \A s \in Sides : Counted(s)' = Counted(s)
    BY <1>4 DEF Counted, Unlocked
  <2>4. lock'["recv"] >= 0 /\ lock'["recv"] <= count
    BY <1>4, <2>1, <2>2 DEF Unlocked
  <2>5. lock'["send"] <= 0
    BY <1>4, <2>1, <2>2 DEF Unlocked
  <2>6. \A s \in Sides : lock'[s] \in Unlocked .. uxLength
    BY <1>4, <2>2 DEF Unlocked
  <2> QED BY <2>3, <2>4, <2>5, <2>6
<1>6. TypeOK'
  <2>1. lock' \in [Sides -> Unlocked .. uxLength]
    BY <1>1, <1>5
  <2> QED BY <1>1, <1>2, <2>1 DEF TypeOK
<1>7. Suspends' /\ Blocked' /\ Woke' /\ Idle' /\ GivesUp' /\ Locks' /\ Nothing'
  BY <1>1, <1>2, <1>3, <1>5 DEF Inv, Suspends, Suspending, Blocked, Leaving, Waiting, Woke, Idle, GivesUp, Locks,
     Nothing
<1>8. Wakeups'
  BY <1>1, <1>3, <1>5, WakeupsKept DEF Waiting, Awake
<1>9. Sleeps'
  BY <1>1, <1>3 DEF Inv, Sleeps, Blocking
<1>10. Clocks'
  BY <1>1, <1>3 DEF Inv, Clocks, Clock, Since, Lapse
<1> QED BY <1>1, <1>6, <1>7, <1>8, <1>9, <1>10 DEF Inv

LEMMA ExamineInv ==
  ASSUME Inv, NEW t \in Tasks, Examine(t)
  PROVE  Inv'
<1>1. /\ pc[t] = "examine" /\ pc' = [pc EXCEPT ![t] = IF Possible(t) THEN "unlockTx" ELSE "place"]
      /\ UNCHANGED <<count, lock, lists, suspender, pending, pended, toWait, entered, timing, asked, timedOut,
                     elapsed, slept>>
  BY DEF Examine, Goto, taskVars, queueVars
<1>2. suspender = t /\ TypeOK /\ t # None /\ \A u \in Tasks : u # t => pc[u] \notin Suspending
  BY <1>1, Where, Facts DEF Examine, Suspending, Inv
<1>3. pc'[t] = (IF Possible(t) THEN "unlockTx" ELSE "place") /\ \A u \in Tasks : u # t => pc'[u] = pc[u]
  BY <1>1, <1>2 DEF TypeOK
<1>4. pc'[t] \in {"unlockTx", "place"}
  BY <1>3
<1>5. TypeOK'
  BY <1>1, <1>2 DEF TypeOK
<1>6. Suspends' /\ Blocked' /\ Woke' /\ Idle' /\ GivesUp' /\ Locks'
  BY <1>1, <1>2, <1>3, <1>4 DEF Inv, Suspends, Suspending, Blocked, Leaving, Waiting, Woke, Idle, GivesUp, Locks
<1>7. Nothing'
  <2>1. ASSUME ~Possible(t) PROVE Avail(Side(t)) <= Counted(Side(t))
    <3>1. Avail(Side(t)) <= 0
      BY <2>1, NonePossible
    <3> QED BY <3>1, Kinds
  <2>2. \A u \in Tasks : Avail(Side(u))' = Avail(Side(u)) /\ Counted(Side(u))' = Counted(Side(u))
    BY <1>1 DEF Avail, Counted
  <2> QED BY <1>2, <1>3, <2>1, <2>2 DEF Nothing, Suspending
<1>8. Wakeups'
  BY <1>1, <1>3, <1>4, WakeupsKept DEF Waiting, Awake, Counted
<1>9. Sleeps'
  BY <1>1, <1>3, <1>4 DEF Inv, Sleeps, Blocking
<1>10. Clocks'
  BY <1>1, <1>3, <1>4 DEF Inv, Clocks, Clock, Since, Lapse
<1> QED BY <1>1, <1>5, <1>6, <1>7, <1>8, <1>9, <1>10 DEF Inv

LEMMA CheckForTimeOutInv ==
  ASSUME Inv, NEW t \in Tasks, CheckForTimeOut(t)
  PROVE  Inv'
<1>1. /\ pc[t] = "check"
      /\ UNCHANGED <<count, lock, suspender, pending, pended, timing, asked, elapsed, slept>>
  BY DEF CheckForTimeOut, queueVars
<1>2. /\ suspender = t /\ TypeOK /\ Listed(lists) /\ Due(lists) /\ t # None
      /\ \A u \in Tasks : u # t => pc[u] \notin Suspending
  BY <1>1, Where, Facts DEF CheckForTimeOut, Suspending, Inv
<1>3. t \in lists.ready /\ toWait[t] # 0 /\ slept[t] = 0 /\ timing[t] = (toWait[t] # portMAX_DELAY)
  BY <1>1 DEF Inv, Blocked, Leaving, Sleeps, Blocking
<1>4. /\ toWait[t] \in 0 .. TickRange - 1 /\ asked[t] \in 0 .. TickRange - 1 /\ elapsed[t] \in Nat /\ pended \in Nat
      /\ TickRange \in Nat \ {0, 1} /\ portMAX_DELAY = TickRange - 1 /\ Lapse(lists, t) \in Nat
      /\ lists.tick \in 0 .. TickRange - 1 /\ entered[t] \in 0 .. TickRange - 1
      /\ Passed(t) \in Nat /\ Passed(t) < TickRange
  <2>1. lists.tick \in Ticks /\ entered[t] \in Ticks
    BY <1>2, Typed DEF Listed, Fields, TypeOK
  <2>2. Passed(t) \in Nat /\ Passed(t) < TickRange
    BY <1>2, PassedIs DEF TypeOK
  <2> QED BY <2>1, <2>2, Kinds
<1>5. Lapse(lists, t) = IF lists.wrapped[t] /\ lists.tick >= entered[t] THEN TickRange ELSE Passed(t)
  BY <1>2, PassedIs DEF Lapse, TypeOK
<1>6. CASE Expired(t)
  <2>1. /\ timedOut' = [timedOut EXCEPT ![t] = TRUE] /\ pc' = [pc EXCEPT ![t] = "unlockTx"]
        /\ UNCHANGED <<lists, toWait, entered>>
    BY <1>6 DEF CheckForTimeOut, Goto
  <2>2. /\ pc'[t] = "unlockTx" /\ timedOut'[t]
        /\ \A u \in Tasks : u # t => pc'[u] = pc[u] /\ timedOut'[u] = timedOut[u]
    BY <1>2, <2>1 DEF TypeOK
  <2>3. elapsed[t] = asked[t]
    <3>1. timing[t] /\ toWait[t] <= Lapse(lists, t)
      <4>1. /\ toWait[t] # portMAX_DELAY
            /\ (lists.wrapped[t] /\ lists.tick >= entered[t]) \/ Passed(t) >= toWait[t]
        BY <1>6 DEF Expired
      <4>2. timing[t]
        BY <1>3, <4>1
      <4>3. CASE lists.wrapped[t] /\ lists.tick >= entered[t]
        <5>1. Lapse(lists, t) = TickRange
          BY <1>5, <4>3
        <5> QED BY <1>4, <4>2, <5>1
      <4>4. CASE ~(lists.wrapped[t] /\ lists.tick >= entered[t])
        <5>1. Lapse(lists, t) = Passed(t)
          BY <1>5, <4>4
        <5> QED BY <1>4, <4>1, <4>2, <4>4, <5>1
      <4> QED BY <4>3, <4>4
    <3>2. elapsed[t] <= asked[t] /\ (elapsed[t] = asked[t] \/ asked[t] - toWait[t] + Lapse(lists, t) + pended <= elapsed[t])
      BY <3>1 DEF Inv, Clocks, Clock
    <3> QED BY <1>4, <3>1, <3>2
  <2>4. TypeOK'
    BY <1>1, <1>2, <2>1 DEF TypeOK
  <2>5. Suspends' /\ Blocked' /\ Woke' /\ Idle' /\ Locks' /\ Nothing'
    BY <1>1, <1>2, <2>1, <2>2 DEF Inv, Suspends, Suspending, Blocked, Leaving, Waiting, Woke, Idle, Locks, Nothing,
       Avail, Counted
  <2>6. GivesUp'
    BY <1>1, <1>3, <2>1, <2>2, <2>3 DEF Inv, GivesUp, Leaving
  <2>7. Wakeups'
    BY <1>1, <2>1, <2>2, WakeupsKept DEF Waiting, Awake, Counted
  <2>8. Sleeps'
    BY <1>1, <2>1, <2>2 DEF Inv, Sleeps, Blocking
  <2>9. Clocks'
    BY <1>1, <2>1, <2>2 DEF Inv, Clocks, Clock, Since, Lapse
  <2> QED BY <1>2, <2>1, <2>4, <2>5, <2>6, <2>7, <2>8, <2>9 DEF Inv
<1>7. CASE ~Expired(t)
  <2>1. pc' = [pc EXCEPT ![t] = "examine"] /\ UNCHANGED timedOut
    BY <1>7 DEF CheckForTimeOut, Goto
  <2>2. pc'[t] = "examine" /\ \A u \in Tasks : u # t => pc'[u] = pc[u]
    BY <1>2, <2>1 DEF TypeOK
  \* What is left to wait, and the time that has been read again.
  <2>3. /\ toWait' \in [Tasks -> Ticks] /\ entered' \in [Tasks -> Ticks] /\ lists' \in ListsType
        /\ toWait'[t] # 0 /\ timing[t] = (toWait'[t] # portMAX_DELAY)
        /\ \A u \in Tasks : u # t => /\ toWait'[u] = toWait[u] /\ entered'[u] = entered[u]
                                     /\ lists'.wrapped[u] = lists.wrapped[u]
        /\ lists'.tick = lists.tick /\ lists'.next = lists.next /\ lists'.ready = lists.ready
        /\ lists'.delayed = lists.delayed /\ lists'.wake = lists.wake /\ lists'.waiting = lists.waiting
        /\ timing[t] => /\ toWait'[t] = toWait[t] - Lapse(lists, t) /\ entered'[t] = lists.tick
                        /\ ~lists'.wrapped[t]
        /\ ~timing[t] => toWait'[t] = toWait[t]
    <3>1. CASE toWait[t] = portMAX_DELAY
      <4>1. UNCHANGED <<lists, toWait, entered>>
        BY <1>7, <3>1 DEF CheckForTimeOut
      <4>2. ~timing[t]
        BY <1>3, <3>1
      <4> QED BY <1>2, <1>3, <3>1, <4>1, <4>2 DEF TypeOK
    <3>2. CASE toWait[t] # portMAX_DELAY
      <4>1. /\ toWait' = [toWait EXCEPT ![t] = toWait[t] - Passed(t)]
            /\ entered' = [entered EXCEPT ![t] = lists.tick]
            /\ lists' = [lists EXCEPT !.wrapped[t] = FALSE]
        BY <1>7, <3>2 DEF CheckForTimeOut
      <4>2. /\ Lapse(lists, t) = Passed(t) /\ toWait[t] - Passed(t) \in Ticks /\ toWait[t] - Passed(t) # 0
            /\ toWait[t] - Passed(t) # portMAX_DELAY
        <5>1. ~(lists.wrapped[t] /\ lists.tick >= entered[t]) /\ ~(Passed(t) >= toWait[t])
          BY <1>7, <3>2 DEF Expired
        <5>2. Lapse(lists, t) = Passed(t)
          BY <1>5, <5>1
        <5> QED BY <1>4, <3>2, <5>1, <5>2, Facts
      <4>3. /\ toWait' \in [Tasks -> Ticks] /\ toWait'[t] = toWait[t] - Passed(t)
            /\ \A u \in Tasks : u # t => toWait'[u] = toWait[u]
        BY <1>2, <4>1, <4>2 DEF TypeOK
      <4>4. /\ entered' \in [Tasks -> Ticks] /\ entered'[t] = lists.tick
            /\ \A u \in Tasks : u # t => entered'[u] = entered[u]
        <5>1. lists.tick \in Ticks
          BY <1>2, Typed DEF Listed, Fields
        <5> QED BY <1>2, <4>1, <5>1 DEF TypeOK
      <4>5. PICK w : w = [lists.wrapped EXCEPT ![t] = FALSE]
        OBVIOUS
      <4>6. w \in [Tasks -> BOOLEAN] /\ ~w[t] /\ \A u \in Tasks : u # t => w[u] = lists.wrapped[u]
        <5>1. lists.wrapped \in [Tasks -> BOOLEAN]
          BY <1>2, Typed DEF Listed, Fields
        <5> QED BY <4>5, <5>1
      <4>7. /\ lists' \in ListsType /\ lists'.wrapped = w
            /\ lists'.tick = lists.tick /\ lists'.next = lists.next /\ lists'.ready = lists.ready
            /\ lists'.delayed = lists.delayed /\ lists'.wake = lists.wake /\ lists'.waiting = lists.waiting
        <5>1. lists' = [lists EXCEPT !.wrapped = w] /\ lists \in ListsType
          BY <1>2, <4>1, <4>5 DEF Listed
        <5> QED BY ONLY <4>6, <5>1 DEF ListsType
      <4> QED BY <1>3, <3>2, <4>2, <4>3, <4>4, <4>6, <4>7
    <3> QED BY <3>1, <3>2
  <2>4. TypeOK'
    BY <1>1, <1>2, <2>1, <2>3 DEF TypeOK
  <2>5. Listed(lists') /\ Due(lists')
    BY <1>2, <2>3 DEF Listed, Due
  <2>6. Suspends' /\ Blocked' /\ Woke' /\ Idle' /\ GivesUp' /\ Locks' /\ Nothing'
    BY <1>1, <1>2, <2>1, <2>2, <2>3 DEF Inv, Suspends, Suspending, Blocked, Leaving, Waiting, Woke, Idle, GivesUp,
       Locks, Nothing, Avail, Counted
  <2>7. Wakeups'
    BY <1>1, <2>2, <2>3, WakeupsKept DEF Waiting, Awake, Counted
  <2>8. Sleeps'
    <3>1. \A u \in Tasks : ~Timed(lists', t) /\ (Timed(lists', u) => Timed(lists, u) /\ Dist(lists', u) = Dist(lists, u))
      BY <1>2, <1>3, <2>3 DEF Listed, Timed, Dist
    <3>2. ASSUME NEW u \in Tasks, Timed(lists', u) PROVE slept'[u] + Dist(lists', u) <= toWait'[u] + pended'
      BY <1>1, <2>3, <3>1, <3>2 DEF Inv, Sleeps
    <3>3. ASSUME NEW u \in Tasks, pc'[u] \in Blocking
          PROVE  toWait'[u] # 0 /\ slept'[u] = 0 /\ timing'[u] = (toWait'[u] # portMAX_DELAY)
      BY <1>1, <1>3, <2>2, <2>3, <3>3 DEF Inv, Sleeps
    <3> QED BY <3>2, <3>3 DEF Sleeps
  <2>9. Clocks'
    <3>1. ASSUME NEW u \in Tasks, u # t, timing[u] PROVE Clock(u)'
      BY <1>1, <2>3, <3>1 DEF Inv, Clocks, Clock, Since, Lapse
    <3>2. ASSUME timing[t] PROVE Clock(t)'
      <4>1. Clock(t) /\ toWait'[t] = toWait[t] - Lapse(lists, t) /\ entered'[t] = lists.tick /\ ~lists'.wrapped[t]
        BY <2>3, <3>2 DEF Inv, Clocks
      <4>2. Since(lists, t)' /\ Lapse(lists, t)' = 0
        BY <1>4, <2>3, <4>1 DEF Since, Lapse
      <4> QED BY <1>1, <1>4, <4>1, <4>2 DEF Clock
    <3>3. \A u \in Tasks : timing'[u] => Clock(u)'
      BY <1>1, <3>1, <3>2
    <3>4. \A u \in Tasks : pc'[u] # "out" /\ ~timing'[u] => toWait'[u] = asked'[u]
      BY <1>1, <2>2, <2>3 DEF Inv, Clocks
    <3>5. \A u \in Tasks : (pc'[u] = "out" => ~timing'[u]) /\ elapsed'[u] <= asked'[u]
      BY <1>1, <2>2 DEF Inv, Clocks
    <3> QED BY <3>3, <3>4, <3>5 DEF Clocks
  <2> QED BY <2>4, <2>5, <2>6, <2>7, <2>8, <2>9 DEF Inv
<1> QED BY <1>6, <1>7

LEMMA PlaceInv ==
  ASSUME Inv, NEW t \in Tasks, Place(t)
  PROVE  Inv'
<1>1. /\ pc[t] = "place" /\ pc' = [pc EXCEPT ![t] = "unlockTx"] /\ lists' = PlaceOnEventList(lists, t)
      /\ UNCHANGED <<count, lock, suspender, pending, pended, toWait, entered, timing, asked, timedOut, elapsed, slept>>
  BY DEF Place, Goto, queueVars, taskVars
<1>2. /\ suspender = t /\ TypeOK /\ Listed(lists) /\ Due(lists) /\ t # None
      /\ \A u \in Tasks : u # t => pc[u] \notin Suspending
  BY <1>1, Where, Facts DEF Place, Suspending, Inv
<1>3. /\ t \in lists.ready /\ t \notin pending /\ ~Waiting(lists, t) /\ toWait[t] # 0 /\ slept[t] = 0 /\ ~timedOut[t]
      /\ Side(t) \in Sides
  BY <1>1, <1>2, Kinds DEF Inv, Blocked, Leaving, Sleeps, Blocking, Woke, GivesUp, Listed, Waiting
<1>4. pc'[t] = "unlockTx" /\ \A u \in Tasks : u # t => pc'[u] = pc[u]
  BY <1>1, <1>2 DEF TypeOK
<1>5. PICK m : m = lists'
  OBVIOUS
<1>6. /\ Listed(m) /\ Due(m)
      /\ m.tick = lists.tick /\ m.wrapped = lists.wrapped /\ m.ready = lists.ready \ {t}
      /\ \A s \in Sides, u \in Tasks :
           Has(m.waiting[s], u) <=> Has(lists.waiting[s], u) \/ (s = Side(t) /\ u = t)
      /\ \A u \in Tasks : u # t => m.delayed[u] = lists.delayed[u] /\ m.wake[u] = lists.wake[u]
      /\ Timed(m, t) => Dist(m, t) = toWait[t]
  BY <1>1, <1>2, <1>3, <1>5, PlaceDoes DEF TypeOK, Waiting
<1>7. \A u \in Tasks : Waiting(m, u) <=> Waiting(lists, u) \/ u = t
  BY <1>6, Kinds DEF Waiting
<1>8. TypeOK'
  BY <1>1, <1>2, <1>5, <1>6 DEF TypeOK, Listed
<1>9. Suspends' /\ Idle' /\ GivesUp' /\ Locks' /\ Nothing'
  BY <1>1, <1>2, <1>3, <1>4, <1>5, <1>6 DEF Inv, Suspends, Suspending, Leaving, Idle, GivesUp, Locks, Nothing,
     Avail, Counted
<1>10. Blocked'
  BY <1>1, <1>2, <1>4, <1>5, <1>6, <1>7 DEF Inv, Blocked, Leaving
<1>11. Woke'
  BY <1>1, <1>2, <1>3, <1>5, <1>6, <1>7 DEF Inv, Woke, TypeOK
<1>12. Wakeups'
  <2> SUFFICES ASSUME NEW u \in Tasks, Waiting(m, u)
               PROVE  Avail(Side(u))' <= Cardinality(Awake(u)') + Counted(Side(u))'
    BY <1>5 DEF Wakeups
  <2>1. Avail(Side(u))' = Avail(Side(u)) /\ Counted(Side(u))' = Counted(Side(u))
    BY <1>1 DEF Avail, Counted
  <2>2. Awake(u)' = Awake(u)
    BY <1>1, <1>3, <1>4, <1>5, <1>6 DEF Awake
  <2>3. Awake(u) \in SUBSET Tasks
    BY DEF Awake
  <2>4. Cardinality(Awake(u)) \in Nat /\ Avail(Side(u)) \in Nat /\ Counted(Side(u)) \in Nat
    BY <2>3, Sizes, Kinds
  <2>5. CASE u = t
    <3>1. Avail(Side(t)) <= Counted(Side(t))
      BY <1>1 DEF Inv, Nothing
    <3> QED BY <2>1, <2>2, <2>4, <2>5, <3>1
  <2>6. CASE u # t
    BY <1>7, <2>1, <2>2, <2>6 DEF Inv, Wakeups
  <2> QED BY <2>5, <2>6
<1>13. Sleeps'
  <2>1. ASSUME NEW u \in Tasks, Timed(m, u) PROVE slept[u] + Dist(m, u) <= toWait[u] + pended
    <3>1. CASE u = t
      <4>1. toWait[t] \in Int /\ pended \in Nat
        BY Kinds
      <4>2. slept[u] = 0 /\ Dist(m, u) = toWait[t]
        BY <1>3, <1>6, <2>1, <3>1
      <4> QED BY <3>1, <4>1, <4>2
    <3>2. CASE u # t
      <4>1. Timed(lists, u) /\ Dist(m, u) = Dist(lists, u)
        BY <1>6, <2>1, <3>2 DEF Timed, Dist
      <4> QED BY <4>1 DEF Inv, Sleeps
    <3> QED BY <3>1, <3>2
  <2> QED BY <1>1, <1>4, <1>5, <2>1 DEF Inv, Sleeps, Blocking
<1>14. Clocks'
  BY <1>1, <1>4, <1>5, <1>6 DEF Inv, Clocks, Clock, Since, Lapse
<1> QED BY <1>5, <1>6, <1>8, <1>9, <1>10, <1>11, <1>12, <1>13, <1>14 DEF Inv

-----------------------------------------------------------------------------
(* Steps that wake *)

\* The first n tasks of a list are awake instead of waiting.
LEMMA HeadsJoin ==
  ASSUME Inv, NEW s \in Sides, NEW n \in Nat, NEW X, First(lists, s, n, X), Removed(lists, lists', X),
         \A v \in X : v \in pending' \/ (pc'[v] = "try" /\ v \in lists'.ready),
         NEW u \in Tasks, Waiting(lists', u), Side(u) = s, Awake(u) \subseteq Awake(u)'
  PROVE  Waiting(lists, u) /\ Cardinality(Awake(u)') >= Cardinality(Awake(u)) + n
<1>1. Has(lists.waiting[s], u) /\ u \notin X
  BY DEF Removed, Waiting
<1>2. Cardinality(X) = n /\ X \in SUBSET Tasks /\ \A v \in X : Priority[v] >= Priority[u]
  BY <1>1 DEF First
<1>3. ASSUME NEW v \in X PROVE Side(v) = s /\ v \notin lists.ready /\ v \notin pending
  <2>1. v \in Tasks /\ Has(lists.waiting[s], v)
    BY <1>2 DEF First
  <2>2. Side(v) = s /\ v \notin lists.ready
    BY <2>1 DEF Inv, Listed
  <2>3. v \notin pending
    BY <2>1, <2>2 DEF Inv, Woke, Waiting
  <2> QED BY <2>2, <2>3
<1>4. X \subseteq Awake(u)' /\ Awake(u) \cap X = {}
  BY <1>2, <1>3 DEF Awake
<1>5. Awake(u) \in SUBSET Tasks /\ Awake(u)' \in SUBSET Tasks /\ Awake(u) \cup X \subseteq Awake(u)'
  BY <1>4 DEF Awake
<1>6. Cardinality(Awake(u)') >= Cardinality(Awake(u)) + Cardinality(X)
  BY <1>2, <1>4, <1>5, Joined
<1> QED BY <1>1, <1>2, <1>6 DEF Waiting

\* What becomes of the tasks that leave the list s.
LEMMA WokenAre ==
  ASSUME Inv, NEW s \in Sides, NEW n, NEW X, First(lists, s, n, X)
  PROVE  \A v \in X : /\ v \in Tasks /\ Side(v) = s /\ Waiting(lists, v) /\ v \notin lists.ready /\ v \notin pending
                      /\ ~timedOut[v] /\ (pc[v] = "try" \/ pc[v] \in Leaving)
                      /\ suspender = None => pc[v] = "try"
<1> SUFFICES ASSUME NEW v \in X
             PROVE  /\ v \in Tasks /\ Side(v) = s /\ Waiting(lists, v) /\ v \notin lists.ready /\ v \notin pending
                    /\ ~timedOut[v] /\ (pc[v] = "try" \/ pc[v] \in Leaving)
                    /\ suspender = None => pc[v] = "try"
  OBVIOUS
<1>1. v \in Tasks /\ Has(lists.waiting[s], v)
  BY DEF First
<1>2. Side(v) = s /\ v \notin lists.ready
  BY <1>1 DEF Inv, Listed
<1>3. Waiting(lists, v) /\ v \notin pending
  BY <1>1, <1>2 DEF Inv, Woke, Waiting
<1>4. ~timedOut[v] /\ (pc[v] = "try" \/ pc[v] \in Leaving)
  BY <1>1, <1>2 DEF Inv, GivesUp, Blocked
<1>5. suspender = None => pc[v] = "try"
  BY <1>1, <1>4, Facts DEF Inv, Suspends, Suspending, Leaving
<1> QED BY <1>1, <1>2, <1>3, <1>4, <1>5

LEMMA UnlockInv ==
  ASSUME Inv, NEW t \in Tasks, suspender = t, NEW s \in Sides, Unlock(t, s),
         \/ s = "recv" /\ pc[t] = "unlockTx" /\ Goto(t, "unlockRx")
         \/ s = "send" /\ pc[t] = "unlockRx" /\ Goto(t, "resume")
  PROVE  Inv'
<1>1. /\ RemoveFromEventList(s, lock[s]) /\ lock' = [lock EXCEPT ![s] = Unlocked]
      /\ UNCHANGED <<count, suspender, pended, toWait, entered, timing, asked, timedOut, elapsed, slept>>
  BY DEF Unlock, taskVars
<1>2. /\ TypeOK /\ Listed(lists) /\ Due(lists) /\ t # None
      /\ \A u \in Tasks : u # t => pc[u] \notin Suspending
  BY Facts DEF Inv, Suspends
<1>3. PICK new \in {"unlockRx", "resume"} : pc' = [pc EXCEPT ![t] = new] /\ (s = "recv" <=> new = "unlockRx")
  BY DEF Goto
<1>4. pc'[t] = new /\ \A u \in Tasks : u # t => pc'[u] = pc[u]
  BY <1>2, <1>3 DEF TypeOK
<1>5. PICK X : /\ First(lists, s, lock[s], X) /\ Removed(lists, lists', X)
               /\ lists'.ready = lists.ready /\ pending' = pending \cup X
  <2>1. lock[s] \in Int
    BY Kinds
  <2> QED BY <1>1, <1>2, <2>1, RemoveDoes
<1>6. \A v \in X : /\ v \in Tasks /\ Side(v) = s /\ v \notin lists.ready /\ v \notin pending
                   /\ ~timedOut[v] /\ (pc[v] = "try" \/ pc[v] \in Leaving)
  BY <1>5, WokenAre
<1>7. /\ Listed(lists') /\ Due(lists') /\ lists'.tick = lists.tick /\ lists'.wrapped = lists.wrapped
      /\ \A u \in Tasks : Waiting(lists', u) <=> Waiting(lists, u) /\ u \notin X
      /\ \A u \in Tasks : Timed(lists', u) => Timed(lists, u) /\ Dist(lists', u) = Dist(lists, u)
  BY <1>5, Kinds DEF Removed, Waiting
<1>8. /\ lock'[s] = Unlocked /\ Counted(s)' = 0
      /\ \A r \in Sides : r # s => lock'[r] = lock[r] /\ Counted(r)' = Counted(r)
      /\ lock' \in [Sides -> Unlocked .. uxLength]
  <2>1. Unlocked \in Unlocked .. uxLength
    BY Facts DEF Unlocked
  <2> QED BY <1>1, <1>2, <2>1 DEF TypeOK, Counted
<1>9. TypeOK'
  BY <1>1, <1>2, <1>3, <1>5, <1>6, <1>7, <1>8 DEF TypeOK, Listed
<1>10. Suspends' /\ GivesUp' /\ Nothing'
  BY <1>1, <1>2, <1>3, <1>4, <1>5 DEF Inv, Suspends, Suspending, Leaving, GivesUp, Nothing
<1>11. Blocked'
  BY <1>3, <1>4, <1>5, <1>7 DEF Inv, Blocked, Leaving
<1>12. Woke'
  BY <1>2, <1>5, <1>6, <1>7 DEF Inv, Woke, TypeOK
<1>13. Idle'
  BY <1>1, <1>2 DEF Idle
<1>14. Locks'
  <2>1. "recv" \in Sides /\ "send" \in Sides
    BY DEF Sides
  <2>2. count \in Nat /\ lock["recv"] \in Int /\ lock["send"] \in Int
    BY Kinds
  <2>3. lock'["send"] <= 0 /\ lock'["recv"] <= count
    BY <1>8, <2>1, <2>2 DEF Inv, Locks, Unlocked
  <2>4. \A u \in Tasks : u # t => pc'[u] \notin {"check", "examine", "place", "unlockTx", "unlockRx", "resume"}
    BY <1>2, <1>4 DEF Suspending
  <2>5. lock'["recv"] = Unlocked
    <3>1. CASE s = "recv"
      BY <1>8, <3>1
    <3>2. CASE s = "send"
      <4>1. lock["recv"] = Unlocked
        BY <3>2 DEF Inv, Locks
      <4> QED BY <1>8, <2>1, <3>2, <4>1
    <3> QED BY <3>1, <3>2 DEF Sides
  <2>6. new = "resume" => lock'["send"] = Unlocked
    BY <1>3, <1>8 DEF Sides
  <2> QED BY <1>1, <1>3, <1>4, <2>3, <2>4, <2>5, <2>6 DEF Locks
<1>15. Wakeups'
  <2> SUFFICES ASSUME NEW u \in Tasks, Waiting(lists', u)
               PROVE  Avail(Side(u))' <= Cardinality(Awake(u)') + Counted(Side(u))'
    BY DEF Wakeups
  <2>1. /\ Waiting(lists, u) /\ Avail(Side(u))' = Avail(Side(u))
        /\ Avail(Side(u)) <= Cardinality(Awake(u)) + Counted(Side(u))
    BY <1>1, <1>7 DEF Avail, Inv, Wakeups
  <2>2. Awake(u) \subseteq Awake(u)'
    BY <1>3, <1>4, <1>5 DEF Awake
  <2>3. Awake(u) \in SUBSET Awake(u)' /\ Awake(u)' \in SUBSET Tasks
    BY <2>2 DEF Awake
  <2>4. /\ Cardinality(Awake(u)) \in Nat /\ Cardinality(Awake(u)') \in Nat
        /\ Avail(Side(u)) \in Nat /\ Counted(Side(u)) \in Nat
    BY <2>3, Sizes, Kinds
  <2>5. CASE Side(u) # s
    <3>1. Cardinality(Awake(u)) <= Cardinality(Awake(u)')
      BY <2>3, Larger
    <3>2. Counted(Side(u))' = Counted(Side(u))
      BY <1>8, <2>5, Kinds
    <3> QED BY <2>1, <2>4, <3>1, <3>2
  <2>6. CASE Side(u) = s
    <3>1. PICK n : n = lock[s]
      OBVIOUS
    <3>2. n \in Int /\ n >= -1
      BY <3>1, Kinds
    <3>3. CASE n = -1
      <4>1. Counted(Side(u)) = 0 /\ Counted(Side(u))' = 0
        BY <1>8, <2>6, <3>1, <3>3 DEF Counted, Unlocked
      <4>2. Cardinality(Awake(u)) <= Cardinality(Awake(u)')
        BY <2>3, Larger
      <4> QED BY <2>1, <2>4, <4>1, <4>2
    <3>4. CASE n # -1
      <4>1. n \in Nat /\ First(lists, s, n, X) /\ Removed(lists, lists', X)
        BY <1>5, <3>1, <3>2, <3>4
      <4>2. \A v \in X : v \in pending'
        BY <1>5
      <4>3. Cardinality(Awake(u)') >= Cardinality(Awake(u)) + n
        BY <2>2, <2>6, <4>1, <4>2, HeadsJoin
      <4>4. Counted(Side(u)) = n /\ Counted(Side(u))' = 0
        BY <1>8, <2>6, <3>1, <3>4 DEF Counted, Unlocked
      <4> QED BY <2>1, <2>4, <4>1, <4>3, <4>4
    <3> QED BY <3>3, <3>4
  <2> QED BY <2>5, <2>6
<1>16. Sleeps'
  BY <1>1, <1>3, <1>4, <1>7 DEF Inv, Sleeps, Blocking
<1>17. Clocks'
  BY <1>1, <1>3, <1>4, <1>7 DEF Inv, Clocks, Clock, Since, Lapse
<1> QED BY <1>7, <1>9, <1>10, <1>11, <1>12, <1>13, <1>14, <1>15, <1>16, <1>17 DEF Inv

LEMMA GiveFromISRInv ==
  ASSUME Inv, GiveFromISR
  PROVE  Inv'
<1>1. /\ count < uxLength /\ count' = count + 1
      /\ UNCHANGED <<suspender, pended, pc, toWait, entered, timing, asked, timedOut, elapsed, slept>>
  BY DEF GiveFromISR, taskVars
<1>2. /\ TypeOK /\ Listed(lists) /\ Due(lists) /\ "recv" \in Sides /\ "send" \in Sides
      /\ count \in Nat /\ uxLength \in Nat /\ lock["recv"] \in Int
  BY Kinds DEF Inv, Sides
<1>3. /\ Avail("recv")' = Avail("recv") + 1 /\ Avail("send")' = Avail("send") - 1
      /\ Avail("recv") \in Nat /\ Avail("send") \in Nat
  BY <1>1, <1>2, Kinds DEF Avail
<1>4. CASE lock["recv"] = Unlocked
  <2>1. RemoveFromEventList("recv", 1) /\ lock' = lock
    BY <1>4 DEF GiveFromISR
  <2>2. PICK X : /\ First(lists, "recv", 1, X) /\ Removed(lists, lists', X)
                 /\ suspender = None => lists'.ready = lists.ready \cup X /\ pending' = pending
                 /\ suspender # None => lists'.ready = lists.ready /\ pending' = pending \cup X
    BY <1>2, <2>1, RemoveDoes
  <2>3. \A v \in X : /\ v \in Tasks /\ Side(v) = "recv" /\ v \notin lists.ready /\ v \notin pending
                     /\ ~timedOut[v] /\ (pc[v] = "try" \/ pc[v] \in Leaving)
                     /\ suspender = None => pc[v] = "try"
    BY <1>2, <2>2, WokenAre
  <2>4. /\ Listed(lists') /\ Due(lists') /\ lists'.tick = lists.tick /\ lists'.wrapped = lists.wrapped
        /\ \A u \in Tasks : Waiting(lists', u) <=> Waiting(lists, u) /\ u \notin X
        /\ \A u \in Tasks : Timed(lists', u) => Timed(lists, u) /\ Dist(lists', u) = Dist(lists, u)
    BY <2>2, Kinds DEF Removed, Waiting
  <2>5. TypeOK'
    BY <1>1, <1>2, <2>1, <2>2, <2>3, <2>4 DEF TypeOK, Listed
  <2>6. Suspends' /\ Idle'
    BY <1>1, <2>1, <2>2 DEF Inv, Suspends, Idle
  <2>7. GivesUp'
    BY <1>1, <2>2 DEF Inv, GivesUp
  <2>8. Blocked'
    BY <1>1, <2>2, <2>4 DEF Inv, Blocked
  <2>9. Woke'
    BY <1>2, <2>2, <2>3, <2>4 DEF Inv, Woke, TypeOK, Idle
  <2>10. Locks'
    BY <1>1, <1>2, <1>4, <2>1 DEF Inv, Locks, Unlocked
  <2>11. Nothing'
    BY <1>1, <1>4 DEF Inv, Locks, Nothing, Unlocked
  <2>12. Wakeups'
    <3> SUFFICES ASSUME NEW u \in Tasks, Waiting(lists', u)
                 PROVE  Avail(Side(u))' <= Cardinality(Awake(u)') + Counted(Side(u))'
      BY DEF Wakeups
    <3>1. /\ Waiting(lists, u) /\ Counted(Side(u))' = Counted(Side(u))
          /\ Avail(Side(u)) <= Cardinality(Awake(u)) + Counted(Side(u))
      BY <2>1, <2>4 DEF Counted, Inv, Wakeups
    <3>2. Awake(u) \subseteq Awake(u)'
      BY <1>1, <2>2 DEF Awake
    <3>3. Awake(u) \in SUBSET Awake(u)' /\ Awake(u)' \in SUBSET Tasks
      BY <3>2 DEF Awake
    <3>4. /\ Cardinality(Awake(u)) \in Nat /\ Cardinality(Awake(u)') \in Nat
          /\ Counted(Side(u)) \in Nat
      BY <3>3, Sizes, Kinds
    <3>5. CASE Side(u) = "recv"
      <4>1. \A v \in X : v \in pending' \/ (pc'[v] = "try" /\ v \in lists'.ready)
        BY <1>1, <2>2, <2>3
      <4>2. Cardinality(Awake(u)') >= Cardinality(Awake(u)) + 1
        BY <1>2, <2>2, <3>2, <3>5, <4>1, HeadsJoin
      <4> QED BY <1>3, <3>1, <3>4, <3>5, <4>2
    <3>6. CASE Side(u) = "send"
      <4>1. Cardinality(Awake(u)) <= Cardinality(Awake(u)')
        BY <3>3, Larger
      <4> QED BY <1>3, <3>1, <3>4, <3>6, <4>1
    <3> QED BY <3>5, <3>6, Kinds DEF Sides
  <2>13. Sleeps'
    BY <1>1, <2>4 DEF Inv, Sleeps
  <2>14. Clocks'
    BY <1>1, <2>4 DEF Inv, Clocks, Clock, Since, Lapse
  <2> QED BY <2>4, <2>5, <2>6, <2>7, <2>8, <2>9, <2>10, <2>11, <2>12, <2>13, <2>14 DEF Inv
<1>5. CASE lock["recv"] # Unlocked
  <2>1. lock' = [lock EXCEPT !["recv"] = lock["recv"] + 1] /\ lists' = lists /\ pending' = pending
    BY <1>5 DEF GiveFromISR
  <2>2. lock["recv"] >= 0 /\ lock["recv"] <= count
    <3>1. lock["recv"] >= -1 /\ lock["recv"] # -1
      BY <1>2, <1>5, Kinds DEF Unlocked
    <3> QED BY <1>2, <3>1 DEF Inv, Locks
  <2>3. lock'["recv"] = lock["recv"] + 1 /\ lock'["send"] = lock["send"]
    BY <1>2, <2>1 DEF TypeOK
  <2>4. Counted("recv")' = Counted("recv") + 1 /\ Counted("send")' = Counted("send")
    <3>1. lock["recv"] + 1 # -1 /\ lock["recv"] # -1
      BY <1>2, <2>2
    <3> QED BY <2>3, <3>1 DEF Counted, Unlocked
  <2>5. TypeOK'
    <3>1. lock["recv"] + 1 \in Unlocked .. uxLength /\ count + 1 \in 0 .. uxLength
      BY <1>1, <1>2, <2>2 DEF Unlocked
    <3>2. lock' \in [Sides -> Unlocked .. uxLength]
      BY <1>2, <2>1, <3>1 DEF TypeOK
    <3> QED BY <1>1, <1>2, <2>1, <3>1, <3>2 DEF TypeOK
  <2>6. Suspends' /\ Blocked' /\ Woke' /\ Idle' /\ GivesUp'
    BY <1>1, <1>5, <2>1 DEF Inv, Suspends, Blocked, Waiting, Woke, Idle, GivesUp
  <2>7. Locks'
    <3>1. lock'["send"] <= 0 /\ lock'["recv"] <= count' /\ lock'["recv"] >= 0
      BY <1>1, <1>2, <2>2, <2>3 DEF Inv, Locks
    <3>2. \A u \in Tasks : pc[u] \notin {"unlockRx", "resume"}
      BY <1>5 DEF Inv, Locks
    <3> QED BY <1>1, <3>1, <3>2 DEF Locks
  <2>8. /\ Counted("recv") \in Nat /\ Counted("send") \in Nat
        /\ \A u \in Tasks : Side(u) = "recv" \/ Side(u) = "send"
    BY <1>2, Kinds DEF Sides
  <2>9. Nothing'
    <3> SUFFICES ASSUME NEW u \in Tasks, pc[u] = "place"
                 PROVE  Avail(Side(u))' <= Counted(Side(u))'
      BY <1>1 DEF Nothing
    <3>1. Avail(Side(u)) <= Counted(Side(u))
      BY DEF Inv, Nothing
    <3> QED BY <1>3, <2>4, <2>8, <3>1
  <2>10. Wakeups'
    <3> SUFFICES ASSUME NEW u \in Tasks, Waiting(lists, u)
                 PROVE  Avail(Side(u))' <= Cardinality(Awake(u)') + Counted(Side(u))'
      BY <2>1 DEF Wakeups
    <3>1. Avail(Side(u)) <= Cardinality(Awake(u)) + Counted(Side(u))
      BY DEF Inv, Wakeups
    <3>2. Awake(u)' = Awake(u)
      BY <1>1, <2>1 DEF Awake
    <3>3. Cardinality(Awake(u)) \in Nat
      <4>1. Awake(u) \in SUBSET Tasks
        BY DEF Awake
      <4> QED BY <4>1, Sizes
    <3>4. CASE Side(u) = "recv"
      BY <1>3, <2>4, <2>8, <3>1, <3>2, <3>3, <3>4
    <3>5. CASE Side(u) = "send"
      BY <1>3, <2>4, <2>8, <3>1, <3>2, <3>3, <3>5
    <3> QED BY <2>8, <3>4, <3>5
  <2>11. Sleeps' /\ Clocks'
    BY <1>1, <2>1 DEF Inv, Sleeps, Clocks, Clock, Since, Lapse
  <2> QED BY <1>2, <2>1, <2>5, <2>6, <2>7, <2>9, <2>10, <2>11 DEF Inv
<1> QED BY <1>4, <1>5

LEMMA TrySucceedsInv ==
  ASSUME Inv, NEW t \in Tasks, TrySucceeds(t)
  PROVE  Inv'
<1>1. /\ pc[t] = "try" /\ Possible(t) /\ count' = (IF t \in Receivers THEN count - 1 ELSE count + 1)
      /\ RemoveFromEventList(Opposite(t), 1) /\ Return(t) /\ Gone(t) /\ Running(t)
      /\ UNCHANGED <<lock, suspender, pended>>
  BY Returned DEF TrySucceeds, Inv
<1>2. /\ suspender = None /\ t \in lists.ready /\ lock["recv"] = Unlocked /\ lock["send"] = Unlocked
      /\ TypeOK /\ Listed(lists) /\ Due(lists) /\ pending = {} /\ pended = 0
      /\ \A u \in Tasks : pc[u] \notin Suspending
  BY <1>1, Where DEF Suspending, Inv
<1>3. PICK s, r : s = Side(t) /\ r = Opposite(t)
  OBVIOUS
<1>4. s \in Sides /\ r \in Sides /\ s # r /\ \A u \in Tasks : Side(u) = s \/ Side(u) = r
  BY <1>3 DEF Side, Opposite, Sides
<1>5. PICK X : /\ First(lists, r, 1, X) /\ Removed(lists, lists', X)
               /\ lists'.ready = lists.ready \cup X /\ pending' = pending
  BY <1>1, <1>2, <1>3, <1>4, RemoveDoes
<1>6. \A v \in X : v \in Tasks /\ Side(v) = r /\ v \notin lists.ready /\ v # t /\ pc[v] = "try"
  BY <1>2, <1>4, <1>5, WokenAre
<1>7. /\ Listed(lists') /\ Due(lists') /\ lists'.tick = lists.tick /\ lists'.wrapped = lists.wrapped
      /\ \A u \in Tasks : Waiting(lists', u) <=> Waiting(lists, u) /\ u \notin X
      /\ \A u \in Tasks : Timed(lists', u) => Timed(lists, u) /\ Dist(lists', u) = Dist(lists, u) /\ u # t
  <2>1. /\ Listed(lists') /\ Due(lists') /\ lists'.tick = lists.tick /\ lists'.wrapped = lists.wrapped
        /\ \A u \in Tasks : Waiting(lists', u) <=> Waiting(lists, u) /\ u \notin X
        /\ \A u \in Tasks : Timed(lists', u) => Timed(lists, u) /\ Dist(lists', u) = Dist(lists, u)
    BY <1>5, Kinds DEF Removed, Waiting
  <2>2. \A u \in Tasks : Timed(lists, u) => u # t
    BY <1>2 DEF Listed, Timed
  <2> QED BY <2>1, <2>2
<1>8. /\ count' \in 0 .. uxLength /\ Avail(s)' = Avail(s) - 1 /\ Avail(r)' = Avail(r) + 1
      /\ Avail(s) \in Nat /\ Avail(r) \in Nat
  <2>1. count \in 0 .. uxLength /\ uxLength \in Nat
    BY Kinds
  <2>2. CASE t \in Receivers
    <3>1. s = "recv" /\ r = "send" /\ count' = count - 1 /\ count > 0
      BY <1>1, <1>3, <2>2 DEF Side, Opposite, Possible
    <3> QED BY <2>1, <3>1 DEF Avail
  <2>3. CASE t \notin Receivers
    <3>1. s = "send" /\ r = "recv" /\ count' = count + 1 /\ count < uxLength
      BY <1>1, <1>3, <2>3 DEF Side, Opposite, Possible
    <3> QED BY <2>1, <3>1 DEF Avail
  <2> QED BY <2>2, <2>3
<1>9. TypeOK'
  BY <1>1, <1>2, <1>5, <1>7, <1>8, Returned DEF TypeOK, Listed
<1>10. Suspends' /\ Idle' /\ Nothing'
  BY <1>1, <1>2, <1>5 DEF Inv, Suspends, Suspending, Idle, Nothing, Gone
<1>11. GivesUp'
  BY <1>1, <1>5 DEF Inv, GivesUp, Gone
<1>12. Blocked'
  BY <1>1, <1>2, <1>5, <1>7 DEF Inv, Blocked, Gone
<1>13. Woke'
  BY <1>2, <1>5 DEF Woke
<1>14. Locks'
  <2>1. lock["recv"] <= count' /\ lock["send"] <= 0
    BY <1>2, <1>8, Kinds DEF Unlocked
  <2>2. \A u \in Tasks : pc'[u] \notin Suspending
    BY <1>1, <1>2 DEF Gone, Suspending
  <2> QED BY <1>1, <2>1, <2>2 DEF Locks, Suspending
<1>15. Wakeups'
  <2> SUFFICES ASSUME NEW u \in Tasks, Waiting(lists', u)
               PROVE  Avail(Side(u))' <= Cardinality(Awake(u)') + Counted(Side(u))'
    BY DEF Wakeups
  <2>1. /\ Waiting(lists, u) /\ Counted(Side(u))' = Counted(Side(u))
        /\ Avail(Side(u)) <= Cardinality(Awake(u)) + Counted(Side(u))
    BY <1>1, <1>7 DEF Counted, Inv, Wakeups
  <2>2. Awake(u) \ {t} \subseteq Awake(u)'
    BY <1>1, <1>5 DEF Awake, Gone
  <2>3. Awake(u) \in SUBSET Tasks /\ Awake(u)' \in SUBSET Tasks
    BY DEF Awake
  <2>4. Cardinality(Awake(u)) \in Nat /\ Cardinality(Awake(u)') \in Nat /\ Counted(Side(u)) \in Nat
    BY <2>3, Sizes, Kinds
  <2>5. CASE Side(u) = s
    <3>1. Cardinality(Awake(u)') + 1 >= Cardinality(Awake(u))
      BY <2>2, <2>3, LeftBy
    <3> QED BY <1>8, <2>1, <2>4, <2>5, <3>1
  <2>6. CASE Side(u) = r
    <3>1. t \notin Awake(u)
      BY <1>3, <1>4, <2>6 DEF Awake
    <3>2. Awake(u) \subseteq Awake(u)'
      BY <2>2, <3>1
    <3>3. \A v \in X : v \in pending' \/ (pc'[v] = "try" /\ v \in lists'.ready)
      BY <1>1, <1>5, <1>6 DEF Gone
    <3>4. Cardinality(Awake(u)') >= Cardinality(Awake(u)) + 1
      BY <1>4, <1>5, <2>6, <3>2, <3>3, HeadsJoin
    <3> QED BY <1>8, <2>1, <2>4, <2>6, <3>4
  <2> QED BY <1>4, <2>5, <2>6
<1>16. Sleeps'
  BY <1>1, <1>7 DEF Inv, Sleeps, Blocking, Gone
<1>17. Clocks'
  <2>1. \A u \in Tasks : u # t /\ timing[u] => Clock(u)'
    BY <1>1, <1>7 DEF Inv, Clocks, Clock, Since, Lapse, Gone
  <2> QED BY <1>1, <2>1 DEF Inv, Clocks, Gone
<1> QED BY <1>7, <1>9, <1>10, <1>11, <1>12, <1>13, <1>14, <1>15, <1>16, <1>17 DEF Inv

-----------------------------------------------------------------------------
(* The scheduler resumed, and the tick *)

LEMMA ResumeAllInv ==
  ASSUME Inv, NEW t \in Tasks, ResumeAll(t)
  PROVE  Inv'
<1>1. /\ pc[t] = "resume" /\ Running(t) /\ suspender' = None /\ pending' = {} /\ pended' = 0
      /\ lists' = PendedTicks(Ready(lists, pending), pended)
      /\ UNCHANGED <<count, lock>>
  BY DEF ResumeAll, queueVars
<1>2. /\ suspender = t /\ TypeOK /\ Listed(lists) /\ Due(lists)
      /\ \A u \in Tasks : u # t => pc[u] \notin Suspending
      /\ pended \in Nat /\ pending \in SUBSET Tasks
      /\ entered \in [Tasks -> Ticks] /\ timing \in [Tasks -> BOOLEAN]
  BY <1>1, Where, Kinds DEF Suspending, Inv, TypeOK
<1>3. PICK a : a = Ready(lists, pending)
  OBVIOUS
<1>4. a \in ListsType /\ Moved(lists, a, pending) /\ a.next = lists.next /\ a.waiting = lists.waiting
  BY <1>2, <1>3, ReadyMoves DEF Listed
<1>5. Dropped(lists, a, pending)
  <2>1. \A s \in Sides, u \in Tasks : Has(lists.waiting[s], u) => u \notin pending
    BY <1>2 DEF Inv, Woke, Waiting, Listed
  <2>2. \A s \in Sides : EventList(lists.waiting[s])
    BY <1>2 DEF Listed
  <2>3. \A s \in Sides : \A u : Has(lists.waiting[s], u) => u \in Tasks
    BY <2>2 DEF EventList, Has
  <2> QED BY <1>4, <2>1, <2>2, <2>3 DEF Dropped
<1>6. Listed(a) /\ Due(a)
  <2>1. Listed(a)
    BY <1>2, <1>4, <1>5, MovedListed
  <2>2. Due(a)
    BY <1>2, <1>4 DEF Due, Moved
  <2> QED BY <2>1, <2>2
<1>7. /\ \A u \in Tasks : Timed(a, u) => Timed(lists, u) /\ Dist(a, u) = Dist(lists, u)
      /\ \A u \in Tasks : (Since(lists, u) => Since(a, u)) /\ Lapse(a, u) = Lapse(lists, u)
      /\ a.ready = lists.ready \cup pending
  BY <1>4 DEF Moved, Timed, Dist, Since, Lapse
<1>8. PICK m, n : m = lists' /\ n = pended
  OBVIOUS
<1>9. Later(a, m, n)
  <2>1. m = PendedTicks(a, n)
    BY <1>1, <1>3, <1>8
  <2> QED BY <1>2, <1>6, <1>8, <2>1, PendedTicksDo
<1>10. /\ Listed(m) /\ Due(m) /\ lists.ready \subseteq m.ready /\ pending \subseteq m.ready
       /\ \A u \in Tasks : Waiting(m, u) <=> Waiting(lists, u) /\ u \notin m.ready
  BY <1>4, <1>7, <1>9, Kinds DEF Later, Waiting
<1>11. \A u \in Tasks : Timed(m, u) =>
         u \notin m.ready /\ Timed(lists, u) /\ Dist(m, u) + pended = Dist(lists, u) /\ Dist(m, u) \in Int
  <2>1. \A u \in Tasks : Timed(m, u) => Timed(lists, u) /\ Dist(m, u) + pended = Dist(lists, u)
    BY <1>7, <1>8, <1>9 DEF Later
  <2>2. \A u \in Tasks : Dist(m, u) \in Int
    BY <1>2, <1>10, Ranges
  <2>3. \A u \in Tasks : Timed(m, u) => u \notin m.ready
    BY <1>10 DEF Listed, Timed
  <2> QED BY <2>1, <2>2, <2>3
<1>12. \A u \in Tasks : timing[u] /\ Since(lists, u) =>
         Since(m, u) /\ Lapse(m, u) <= Lapse(lists, u) + pended /\ Lapse(m, u) \in Nat
  <2>1. \A u \in Tasks : timing[u] /\ Since(a, u) => Since(m, u) /\ Lapse(m, u) <= Lapse(a, u) + pended
    BY <1>8, <1>9 DEF Later
  <2>2. \A u \in Tasks : Lapse(m, u) \in Nat
    BY <1>2, <1>10, Ranges
  <2> QED BY <1>7, <2>1, <2>2
\* The call returns if it gave up, and goes round its loop if it did not.
<1>13. /\ timedOut[t] => Gone(t)
       /\ ~timedOut[t] => /\ pc' = [pc EXCEPT ![t] = "try"]
                          /\ UNCHANGED <<toWait, entered, timing, asked, timedOut, elapsed, slept>>
  BY <1>2, Returned DEF ResumeAll, Goto, taskVars
<1>14. /\ \A u \in Tasks : u # t =>
            /\ pc'[u] = pc[u] /\ toWait'[u] = toWait[u] /\ entered'[u] = entered[u] /\ timing'[u] = timing[u]
            /\ timedOut'[u] = timedOut[u] /\ asked'[u] = asked[u] /\ elapsed'[u] = elapsed[u]
            /\ slept'[u] = slept[u]
       /\ pc'[t] \in {"out", "try"} /\ ~timedOut'[t]
       /\ t \notin lists.ready => pc'[t] = "try" /\ ~timedOut[t]
  <2>1. timedOut[t] => t \in lists.ready
    BY DEF Inv, GivesUp
  <2>2. CASE timedOut[t]
    BY <1>13, <2>1, <2>2 DEF Gone
  <2>3. CASE ~timedOut[t]
    BY <1>2, <1>13, <2>3 DEF TypeOK
  <2> QED BY <2>2, <2>3
<1>15. \A u \in Tasks : u \notin lists.ready => pc'[u] = "try"
  BY <1>2, <1>14 DEF Inv, Blocked, Leaving, Suspending
<1>16. TypeOK'
  <2>1. /\ count \in 0 .. uxLength /\ lock \in [Sides -> Unlocked .. uxLength] /\ m \in ListsType
        /\ 0 \in 0 .. MaxPended
    BY <1>2, <1>10, Facts DEF TypeOK, Listed
  <2>2. CASE timedOut[t]
    BY <1>1, <1>2, <1>8, <2>1, <2>2, Returned DEF TypeOK, ResumeAll
  <2>3. CASE ~timedOut[t]
    BY <1>1, <1>2, <1>8, <1>13, <2>1, <2>3 DEF TypeOK
  <2> QED BY <2>2, <2>3
<1>17. Suspends'
  BY <1>1, <1>2, <1>14, Facts DEF Suspends, Suspending
<1>18. Blocked'
  BY <1>8, <1>10, <1>15 DEF Inv, Blocked
<1>19. Woke' /\ Idle'
  BY <1>1 DEF Inv, Locks, Woke, Idle
<1>20. GivesUp'
  BY <1>2, <1>14 DEF Inv, GivesUp, Leaving, Suspending
<1>21. Locks' /\ Nothing'
  <2>1. \A u \in Tasks : pc'[u] \notin Suspending
    BY <1>2, <1>14 DEF Suspending
  <2> QED BY <1>1, <2>1 DEF Inv, Locks, Nothing, Suspending
<1>22. Wakeups'
  <2>1. ASSUME NEW u \in Tasks PROVE Awake(u) \subseteq Awake(u)'
    <3> SUFFICES ASSUME NEW v \in Awake(u) PROVE pc'[v] = "try" /\ v \in m.ready
      BY <1>8 DEF Awake
    <3>1. v \in Tasks /\ (v \in pending \/ (pc[v] = "try" /\ v \in lists.ready))
      BY DEF Awake
    <3>2. CASE v \in pending
      BY <1>10, <1>15, <3>1, <3>2 DEF Inv, Woke
    <3>3. CASE v \notin pending
      BY <1>1, <1>10, <1>14, <3>1, <3>3
    <3> QED BY <3>2, <3>3
  <2> QED BY <1>1, <1>8, <1>10, <2>1, WakeupsKept DEF Counted
<1>23. Sleeps'
  <2>1. ASSUME NEW u \in Tasks, pc'[u] \in Blocking
        PROVE  toWait'[u] # 0 /\ slept'[u] = 0 /\ timing'[u] = (toWait'[u] # portMAX_DELAY)
    <3>1. u # t
      BY <1>14, <2>1 DEF Blocking
    <3> QED BY <1>14, <2>1, <3>1 DEF Inv, Sleeps
  <2>2. ASSUME NEW u \in Tasks, Timed(m, u) PROVE slept'[u] + Dist(m, u) <= toWait'[u] + pended'
    <3>1. u \notin lists.ready /\ slept'[u] = slept[u] /\ toWait'[u] = toWait[u]
      BY <1>10, <1>11, <1>13, <1>14, <2>2
    <3>2. slept[u] + Dist(lists, u) <= toWait[u] + pended
      BY <1>11, <2>2 DEF Inv, Sleeps
    <3>3. Dist(m, u) + pended = Dist(lists, u) /\ Dist(m, u) \in Int
      BY <1>11, <2>2
    <3>4. slept[u] \in Nat /\ toWait[u] \in Nat /\ pended \in Nat /\ pended' = 0
      BY <1>1, Kinds
    <3> QED BY <3>1, <3>2, <3>3, <3>4
  <2> QED BY <1>8, <2>1, <2>2 DEF Sleeps
<1>24. Clocks'
  <2>1. ASSUME NEW u \in Tasks, timing'[u] PROVE Clock(u)'
    <3>1. /\ timing[u] /\ asked'[u] = asked[u] /\ toWait'[u] = toWait[u] /\ elapsed'[u] = elapsed[u]
          /\ entered'[u] = entered[u]
      BY <1>13, <1>14, <2>1 DEF Gone
    <3>2. Clock(u)
      BY <3>1 DEF Inv, Clocks
    <3>3. Since(m, u) /\ Lapse(m, u) <= Lapse(lists, u) + pended /\ Lapse(m, u) \in Nat
      BY <1>12, <3>1, <3>2 DEF Clock
    <3>4. Since(lists, u)' /\ Lapse(lists, u)' = Lapse(m, u)
      BY <1>8, <3>1, <3>3 DEF Since, Lapse
    <3>5. elapsed[u] = asked[u] \/ asked[u] - toWait[u] + Lapse(m, u) + 0 <= elapsed[u]
      <4>1. /\ asked[u] \in Nat /\ toWait[u] \in Nat /\ elapsed[u] \in Nat /\ pended \in Nat
            /\ Lapse(lists, u) \in Nat
        BY Kinds
      <4>2. elapsed[u] = asked[u] \/ asked[u] - toWait[u] + Lapse(lists, u) + pended <= elapsed[u]
        BY <3>2 DEF Clock
      <4> QED BY <3>3, <4>1, <4>2
    <3> QED BY <1>1, <3>1, <3>2, <3>4, <3>5 DEF Clock
  <2>2. ASSUME NEW u \in Tasks
        PROVE  /\ pc'[u] = "out" => ~timing'[u]
               /\ pc'[u] # "out" /\ ~timing'[u] => toWait'[u] = asked'[u]
               /\ elapsed'[u] <= asked'[u]
    <3>1. CASE u = t /\ timedOut[t]
      BY <1>13, <3>1 DEF Gone
    <3>2. CASE u = t /\ ~timedOut[t]
      <4>1. pc'[t] = "try"
        BY <1>2, <1>13, <3>2 DEF TypeOK
      <4> QED BY <1>1, <1>13, <3>2, <4>1 DEF Inv, Clocks
    <3>3. CASE u # t
      BY <1>14, <3>3 DEF Inv, Clocks
    <3> QED BY <3>1, <3>2, <3>3
  <2> QED BY <2>1, <2>2 DEF Clocks
<1> QED BY <1>8, <1>10, <1>16, <1>17, <1>18, <1>19, <1>20, <1>21, <1>22, <1>23, <1>24 DEF Inv

LEMMA TickInv ==
  ASSUME Inv, Tick
  PROVE  Inv'
<1>1. /\ UNCHANGED <<count, lock, suspender, pending, pc, toWait, entered, timing, asked, timedOut>>
      /\ elapsed' = [t \in Tasks |-> IF pc[t] = "out" \/ asked[t] \in {elapsed[t], portMAX_DELAY}
                                     THEN elapsed[t] ELSE elapsed[t] + 1]
      /\ slept' = [t \in Tasks |-> IF lists.delayed[t] \in {"current", "overflow"} /\ slept[t] <= Longest
                                   THEN slept[t] + 1 ELSE slept[t]]
  BY DEF Tick, queueVars, taskVars
<1>2. TypeOK /\ Listed(lists) /\ Due(lists) /\ timing \in [Tasks -> BOOLEAN] /\ entered \in [Tasks -> Ticks]
  BY Kinds DEF Inv
<1>3. \A t \in Tasks : elapsed[t] \in Nat /\ slept[t] \in Nat /\ asked[t] \in Nat /\ toWait[t] \in Nat
  BY Kinds
<1>4. /\ elapsed' \in [Tasks -> Nat] /\ slept' \in [Tasks -> Nat]
      /\ \A t \in Tasks : slept'[t] <= slept[t] + 1 /\ (slept'[t] # slept[t] => Timed(lists, t))
      /\ \A t \in Tasks : elapsed'[t] = elapsed[t] \/ (elapsed'[t] = elapsed[t] + 1 /\ elapsed[t] # asked[t])
      /\ \A t \in Tasks : pc[t] # "out" /\ asked[t] # portMAX_DELAY /\ elapsed[t] # asked[t] =>
                            elapsed'[t] = elapsed[t] + 1
  <2>1. \A t \in Tasks : elapsed'[t] \in Nat /\ slept'[t] \in Nat
    BY <1>1, <1>3
  <2>2. elapsed' \in [Tasks -> Nat] /\ slept' \in [Tasks -> Nat]
    BY <1>1, <2>1
  <2>3. \A t \in Tasks : slept'[t] <= slept[t] + 1 /\ (slept'[t] # slept[t] => Timed(lists, t))
    BY <1>1, <1>3 DEF Timed
  <2>4. \A t \in Tasks : elapsed'[t] = elapsed[t] \/ (elapsed'[t] = elapsed[t] + 1 /\ elapsed[t] # asked[t])
    BY <1>1, <1>3
  <2>5. \A t \in Tasks : pc[t] # "out" /\ asked[t] # portMAX_DELAY /\ elapsed[t] # asked[t] =>
                            elapsed'[t] = elapsed[t] + 1
    BY <1>1, <1>3
  <2> QED BY <2>2, <2>3, <2>4, <2>5
\* The tick advances the lists, or is pended: one way or the other it counts.
<1>5. PICK m, d : /\ m = lists' /\ d \in {0, 1} /\ pended' = pended + d
                  /\ Listed(m) /\ Due(m) /\ lists.ready \subseteq m.ready
                  /\ \A u \in Tasks : Waiting(m, u) <=> Waiting(lists, u) /\ u \notin m.ready
                  /\ \A u \in Tasks : Timed(m, u) =>
                       Timed(lists, u) /\ Dist(m, u) + 1 = Dist(lists, u) + d
                  /\ \A u \in Tasks : timing[u] /\ Since(lists, u) =>
                       Since(m, u) /\ Lapse(m, u) + d <= Lapse(lists, u) + 1
                  /\ suspender = None => d = 0
                  /\ pended + d \in 0 .. MaxPended
  <2>1. CASE suspender = None
    <3>1. pended' = pended /\ pended + 0 = pended /\ pended \in 0 .. MaxPended
      BY <1>2, <2>1, Kinds DEF Tick, TypeOK
    <3>2. PICK m : m = lists'
      OBVIOUS
    <3>3. Ticked(lists, m)
      <4>1. m = IncrementTick(lists)
        BY <2>1, <3>2 DEF Tick
      <4> QED BY <1>2, <4>1, IncrementTickDoes
    <3>4. \A u \in Tasks : timing[u] /\ Since(lists, u) => Since(m, u) /\ Lapse(m, u) <= Lapse(lists, u) + 1
      BY <1>2, <3>3, TickedLapse
    <3>5. Listed(m) /\ Due(m) /\ lists.ready \subseteq m.ready
      BY <3>3 DEF Ticked
    <3>6. \A u \in Tasks : Waiting(m, u) <=> Waiting(lists, u) /\ u \notin m.ready
      BY <3>3, Kinds DEF Ticked, Waiting
    <3>7. \A u \in Tasks : Dist(m, u) \in Int /\ Dist(lists, u) \in Int /\ Lapse(m, u) \in Nat /\ Lapse(lists, u) \in Nat
      BY <1>2, <3>5, Ranges
    <3>8. \A u \in Tasks : Timed(m, u) => Timed(lists, u) /\ Dist(m, u) + 1 = Dist(lists, u) + 0
      BY <3>3, <3>7 DEF Ticked
    <3>9. \A u \in Tasks : timing[u] /\ Since(lists, u) => Since(m, u) /\ Lapse(m, u) + 0 <= Lapse(lists, u) + 1
      BY <3>4, <3>7
    <3> QED BY <3>1, <3>2, <3>5, <3>6, <3>8, <3>9
  <2>2. CASE suspender # None
    <3>1. lists' = lists /\ pended' = pended + 1 /\ pended < MaxPended /\ pended \in Nat
      BY <2>2, Kinds DEF Tick
    <3>2. \A u \in Tasks : Waiting(lists, u) => u \notin lists.ready
      BY <1>2, Kinds DEF Listed, Waiting
    <3>3. pended + 1 \in 0 .. MaxPended
      BY <3>1, Facts
    <3>4. \A u \in Tasks : Dist(lists, u) \in Int /\ Lapse(lists, u) \in Nat
      BY Kinds
    <3>5. \A u \in Tasks : Lapse(lists, u) + 1 <= Lapse(lists, u) + 1
      BY <3>4
    <3> QED BY <1>2, <2>2, <3>1, <3>2, <3>3, <3>5
  <2> QED BY <2>1, <2>2
<1>6. TypeOK'
  BY <1>1, <1>2, <1>4, <1>5 DEF TypeOK, Listed
<1>7. Suspends' /\ Nothing'
  BY <1>1 DEF Inv, Suspends, Nothing, Avail, Counted
<1>8. Blocked'
  BY <1>1, <1>5 DEF Inv, Blocked
<1>9. Idle'
  BY <1>1, <1>5, Kinds DEF Inv, Idle
<1>10. Woke'
  <2>1. CASE suspender = None
    BY <1>1, <2>1 DEF Inv, Idle, Woke
  <2>2. CASE suspender # None
    <3>1. lists' = lists
      BY <2>2 DEF Tick
    <3> QED BY <1>1, <3>1 DEF Inv, Woke, Waiting
  <2> QED BY <2>1, <2>2
<1>11. GivesUp'
  BY <1>1, <1>4, <1>5 DEF Inv, GivesUp
<1>12. Locks'
  BY <1>1 DEF Inv, Locks
<1>13. Wakeups'
  <2>1. \A u \in Tasks : Awake(u) \subseteq Awake(u)'
    BY <1>1, <1>5 DEF Awake
  <2> QED BY <1>1, <1>5, <2>1, WakeupsKept DEF Counted
<1>14. Sleeps'
  <2>1. ASSUME NEW u \in Tasks, Timed(m, u) PROVE slept'[u] + Dist(m, u) <= toWait'[u] + pended'
    <3>1. slept[u] + Dist(lists, u) <= toWait[u] + pended /\ Dist(m, u) + 1 = Dist(lists, u) + d
      BY <1>5, <2>1 DEF Inv, Sleeps
    <3>2. /\ slept'[u] <= slept[u] + 1 /\ slept'[u] \in Nat /\ slept[u] \in Nat /\ toWait[u] \in Nat
          /\ pended \in Nat /\ d \in Nat /\ pended' = pended + d /\ toWait'[u] = toWait[u]
      <4>1. slept'[u] <= slept[u] + 1 /\ slept'[u] \in Nat
        BY <1>4
      <4>2. d \in Nat /\ pended' = pended + d
        BY <1>5
      <4> QED BY <1>1, <1>3, <4>1, <4>2, Kinds
    <3>3. Dist(m, u) \in Int /\ Dist(lists, u) \in Int
      BY <1>2, <1>5, Ranges
    <3> QED BY <3>1, <3>2, <3>3
  <2>2. ASSUME NEW u \in Tasks, pc[u] \in Blocking PROVE slept'[u] = 0
    <3>1. slept[u] = 0 /\ u \in lists.ready
      BY <2>2 DEF Inv, Sleeps, Blocked, Blocking, Leaving
    <3>2. ~Timed(lists, u)
      BY <1>2, <3>1 DEF Listed, Timed
    <3> QED BY <1>4, <3>1, <3>2
  <2> QED BY <1>1, <1>5, <2>1, <2>2 DEF Inv, Sleeps
<1>15. Clocks'
  <2>1. ASSUME NEW u \in Tasks, timing[u] PROVE Clock(u)'
    <3>1. Clock(u) /\ pc[u] # "out"
      BY <2>1 DEF Inv, Clocks
    <3>2. Since(m, u) /\ Lapse(m, u) + d <= Lapse(lists, u) + 1
      BY <1>5, <2>1, <3>1 DEF Clock
    <3>3. Since(lists, u)' /\ Lapse(lists, u)' = Lapse(m, u)
      BY <1>1, <1>5, <3>2 DEF Since, Lapse
    <3>4. elapsed'[u] = asked[u] \/ asked[u] - toWait[u] + Lapse(m, u) + (pended + d) <= elapsed'[u]
      <4>1. /\ asked[u] \in Nat /\ toWait[u] \in Nat /\ elapsed[u] \in Nat /\ pended \in Nat /\ d \in Nat
            /\ Lapse(lists, u) \in Nat /\ Lapse(m, u) \in Nat
        <5>1. d \in Nat /\ Lapse(m, u) \in Nat
          BY <1>2, <1>5, Ranges
        <5> QED BY <1>3, <5>1, Kinds
      <4>2. CASE elapsed[u] = asked[u]
        <5>1. elapsed'[u] = elapsed[u]
          BY <1>4, <4>2
        <5> QED BY <4>2, <5>1
      <4>3. CASE elapsed[u] # asked[u]
        <5>1. elapsed'[u] = elapsed[u] + 1
          BY <1>4, <3>1, <4>3 DEF Clock
        <5>2. asked[u] - toWait[u] + Lapse(lists, u) + pended <= elapsed[u]
          BY <3>1, <4>3 DEF Clock
        <5> QED BY <3>2, <4>1, <5>1, <5>2
      <4> QED BY <4>2, <4>3
    <3> QED BY <1>1, <1>5, <3>1, <3>3, <3>4 DEF Clock
  <2>2. ASSUME NEW u \in Tasks PROVE elapsed'[u] <= asked[u]
    <3>1. elapsed[u] <= asked[u] /\ elapsed[u] \in Nat /\ asked[u] \in Nat
      BY <1>3 DEF Inv, Clocks
    <3>2. elapsed'[u] = elapsed[u] \/ (elapsed'[u] = elapsed[u] + 1 /\ elapsed[u] # asked[u])
      BY <1>4
    <3> QED BY <3>1, <3>2
  <2> QED BY <1>1, <2>1, <2>2 DEF Inv, Clocks
<1> QED BY <1>5, <1>6, <1>7, <1>8, <1>9, <1>10, <1>11, <1>12, <1>13, <1>14, <1>15 DEF Inv

-----------------------------------------------------------------------------
(* The theorems *)

LEMMA StutterInv == ASSUME Inv, UNCHANGED vars PROVE Inv'
<1>1. UNCHANGED <<count, lock, lists, suspender, pending, pended, pc, toWait, entered, timing, asked,
                  timedOut, elapsed, slept>>
  BY DEF vars, queueVars, taskVars
<1> QED BY <1>1 DEF Inv, TypeOK, Suspends, Blocked, Waiting, Woke, Idle, GivesUp, Locks, Nothing, Avail, Counted,
      Wakeups, Awake, Sleeps, Clocks, Clock, Since, Lapse

LEMMA StepInv == Inv /\ [Next]_vars => Inv'
<1> SUFFICES ASSUME Inv, [Next]_vars PROVE Inv'
  OBVIOUS
<1>1. CASE UNCHANGED vars
  BY <1>1, StutterInv
<1>2. CASE GiveFromISR
  BY <1>2, GiveFromISRInv
<1>3. CASE Tick
  BY <1>3, TickInv
<1>4. ASSUME NEW t \in Tasks, NEW ticks \in Waits[t], Call(t, ticks) PROVE Inv'
  BY <1>4, CallInv
<1>5. ASSUME NEW t \in Tasks, CallStep(t) PROVE Inv'
  <2>1. CASE TrySucceeds(t)  BY <2>1, TrySucceedsInv
  <2>2. CASE TryFails(t)  BY <2>2, TryFailsInv
  <2>3. CASE TryBlocks(t)  BY <2>3, TryBlocksInv
  <2>4. CASE SuspendAll(t)  BY <2>4, SuspendAllInv
  <2>5. CASE LockQueue(t)  BY <2>5, LockQueueInv
  <2>6. CASE CheckForTimeOut(t)  BY <2>6, CheckForTimeOutInv
  <2>7. CASE Examine(t)  BY <2>7, ExamineInv
  <2>8. CASE Place(t)  BY <2>8, PlaceInv
  <2>9. CASE UnlockTx(t)
    <3>1. suspender = t /\ "recv" \in Sides
      BY <2>9, Where DEF UnlockTx, Suspending, Sides
    <3> QED BY <2>9, <3>1, UnlockInv DEF UnlockTx
  <2>10. CASE UnlockRx(t)
    <3>1. suspender = t /\ "send" \in Sides
      BY <2>10, Where DEF UnlockRx, Suspending, Sides
    <3> QED BY <2>10, <3>1, UnlockInv DEF UnlockRx
  <2>11. CASE ResumeAll(t)  BY <2>11, ResumeAllInv
  <2> QED BY <1>5, <2>1, <2>2, <2>3, <2>4, <2>5, <2>6, <2>7, <2>8, <2>9, <2>10, <2>11 DEF CallStep
<1> QED BY <1>1, <1>2, <1>3, <1>4, <1>5 DEF Next

\* Where each task is in its call, whichever lists it is on, what the counts of
\* the locks stand for and how far the clocks of the calls have come, always.
THEOREM Invariant == Spec => []Inv
BY InitInv, StepInv, PTL DEF Spec

\* Every variable keeps its type; the count stays within the queue's length.
THEOREM TypeCorrect == Spec => []TypeOK
<1>1. Inv => TypeOK
  BY DEF Inv
<1> QED BY <1>1, Invariant, PTL

LEMMA ListedAgree == Inv => ListsAgree
<1> SUFFICES ASSUME Inv PROVE ListsAgree
  OBVIOUS
<1>1. \A s \in Sides : EventList(lists.waiting[s])
  BY DEF Inv, Listed
<1>2. \A s \in Sides : \A u : u \in Range(lists.waiting[s]) <=> Has(lists.waiting[s], u)
  BY DEF Range, Has
<1>3. ASSUME NEW t \in Tasks, NEW s \in Sides, t \in Range(lists.waiting[s])
      PROVE  t \notin lists.ready \cup pending /\ t \in Range(lists.waiting[Side(t)]) /\ ~timedOut[t]
  <2>1. s = Side(t) /\ t \notin lists.ready
    BY <1>2, <1>3 DEF Inv, Listed
  <2> QED BY <1>2, <1>3, <2>1 DEF Inv, Woke, Waiting, GivesUp
<1>4. ASSUME NEW t \in Tasks, t \notin lists.ready
      PROVE  (\E s \in Sides : t \in Range(lists.waiting[s])) \/ t \in pending
  BY <1>2, <1>4, Kinds DEF Inv, Blocked, Waiting
<1>5. \A t \in Tasks : t \in lists.ready <=> lists.delayed[t] = "none"
  BY DEF Inv, Listed
<1>6. pending # {} => suspender # None
  BY DEF Inv, Idle
<1>7. \A s \in Sides : IsInjective(lists.waiting[s])
  BY <1>1 DEF EventList
<1> QED BY <1>3, <1>4, <1>5, <1>6, <1>7 DEF ListsAgree

\* A task is on one event list at most, once, and only while it is blocked.
THEOREM ListsRight == Spec => []ListsAgree
BY ListedAgree, Invariant, PTL

\* The task at the head of a list, while there is one.
LEMMA HeadWaits ==
  ASSUME Inv, NEW s \in Sides, lists.waiting[s] # <<>>
  PROVE  \E u \in Tasks : Waiting(lists, u) /\ Side(u) = s
<1>1. PICK q : q = lists.waiting[s]
  OBVIOUS
<1>2. EventList(q)
  BY <1>1 DEF Inv, Listed
<1>3. q \in Seq(Tasks) /\ q # <<>>
  BY <1>1, <1>2 DEF EventList
<1>4. Len(q) \in Nat /\ Len(q) # 0 /\ 1 \in DOMAIN q /\ q[1] \in Tasks
  BY ONLY <1>3
<1>5. Has(q, q[1])
  BY <1>4 DEF Has
<1>6. Side(q[1]) = s
  BY <1>1, <1>4, <1>5 DEF Inv, Listed
<1> QED BY <1>1, <1>4, <1>5, <1>6 DEF Waiting

LEMMA AwakeTry ==
  ASSUME Inv, NEW T \in SUBSET Tasks, NEW s \in Sides, \A t \in Tasks : Side(t) = s => t \in T,
         lists.waiting[s] # <<>>
  PROVE  Avail(s) <= Cardinality(WillTry(T) \cup Woken(T)) + Counted(s)
<1>1. PICK u \in Tasks : Waiting(lists, u) /\ Side(u) = s
  BY HeadWaits
<1>2. Avail(s) <= Cardinality(Awake(u)) + Counted(s)
  BY <1>1 DEF Inv, Wakeups
<1>3. /\ WillTry(T) \cup Woken(T) \in SUBSET Tasks
      /\ Awake(u) \in SUBSET (WillTry(T) \cup Woken(T))
  BY <1>1 DEF WillTry, Woken, Awake
<1>4. Awake(u) \in SUBSET Tasks
  BY DEF Awake
<1>5. Cardinality(Awake(u)) <= Cardinality(WillTry(T) \cup Woken(T))
  BY <1>3, Larger
<1>6. /\ Cardinality(Awake(u)) \in Nat /\ Cardinality(WillTry(T) \cup Woken(T)) \in Nat
      /\ Avail(s) \in Nat /\ Counted(s) \in Nat
  BY <1>3, <1>4, Sizes, Kinds
<1> QED BY <1>2, <1>5, <1>6

LEMMA WakeupsSuffice == Inv => NoLostWakeup
<1> SUFFICES ASSUME Inv PROVE NoLostWakeup
  OBVIOUS
<1>1. "recv" \in Sides /\ "send" \in Sides /\ Receivers \in SUBSET Tasks /\ Senders \in SUBSET Tasks
  BY DEF Sides, Tasks
<1>2. \A t \in Tasks : (Side(t) = "recv" => t \in Receivers) /\ (Side(t) = "send" => t \in Senders)
  BY DEF Side, Tasks
<1>3. ASSUME lists.waiting["recv"] # <<>>
      PROVE  count <= Cardinality(WillTry(Receivers) \cup Woken(Receivers)) + Counted("recv")
  BY <1>1, <1>2, <1>3, AwakeTry DEF Avail
<1>4. ASSUME lists.waiting["send"] # <<>>
      PROVE  uxLength - count <= Cardinality(WillTry(Senders) \cup Woken(Senders)) + Counted("send")
  BY <1>1, <1>2, <1>4, AwakeTry DEF Avail
<1> QED BY <1>3, <1>4 DEF NoLostWakeup

\* No wake-up is lost, whatever interrupts the calls, and whoever takes the
\* message before the woken task does.
THEOREM WakeUpKept == Spec => []NoLostWakeup
BY WakeupsSuffice, Invariant, PTL

\* The tick looks at the delayed list in time.
THEOREM WakeUpInTime == Spec => []NextUnblockSound
<1>1. Inv => NextUnblockSound
  BY DEF Inv, Due, NextUnblockSound, Current
<1> QED BY <1>1, Invariant, PTL

LEMMA SleepsEnd == Inv => NeverOversleeps
<1> SUFFICES ASSUME Inv, suspender = None, NEW t \in Tasks, Timed(lists, t)
             PROVE  slept[t] < toWait[t]
  BY DEF NeverOversleeps, Timed
<1>1. slept[t] + Dist(lists, t) <= toWait[t] + pended /\ pended = 0
  BY DEF Inv, Sleeps, Idle
<1>2. Dist(lists, t) > 0
  BY Kinds, Ranges DEF Inv, Timed
<1>3. slept[t] \in Nat /\ toWait[t] \in Nat /\ Dist(lists, t) \in Int
  BY Kinds
<1> QED BY <1>1, <1>2, <1>3

\* No task is left asleep beyond its time, for any width of the tick.
THEOREM NotOverslept == Spec => []NeverOversleeps
BY SleepsEnd, Invariant, PTL

\* No call gives up early.
THEOREM NotEarly == Spec => []NeverGivesUpEarly
<1>1. Inv => NeverGivesUpEarly
  <2> SUFFICES ASSUME Inv, NEW t \in Tasks, timedOut[t] PROVE elapsed[t] >= asked[t]
    BY DEF NeverGivesUpEarly
  <2>1. elapsed[t] = asked[t] /\ elapsed[t] \in Nat
    BY Kinds DEF Inv, GivesUp
  <2> QED BY <2>1
<1> QED BY <1>1, Invariant, PTL

LEMMA TakesFirst ==
  ASSUME Inv, Next, NEW t \in Receivers, count' < count, pc[t] = "try", pc'[t] = "out",
         NEW u \in Range(lists.waiting["recv"])
  PROVE  Priority[u] <= Priority[t]
<1>1. PICK r \in Tasks : TrySucceeds(r)
  <2>1. count \in Nat
    BY Kinds
  <2>2. count' # count /\ count' # count + 1
    BY <2>1
  <2>3. ~GiveFromISR /\ ~Tick
    BY <2>2 DEF GiveFromISR, Tick, queueVars
  <2>4. \A r \in Tasks : \A ticks \in Waits[r] : ~Call(r, ticks)
    BY <2>2 DEF Call, queueVars
  <2>5. \A r \in Tasks : CallStep(r) => TrySucceeds(r)
    BY <2>2 DEF CallStep, TryFails, TryBlocks, SuspendAll, LockQueue, CheckForTimeOut, Examine, Place,
       UnlockTx, UnlockRx, Unlock, ResumeAll, queueVars
  <2> QED BY <2>3, <2>4, <2>5 DEF Next
<1>2. t \in Tasks /\ Return(r) /\ pc[r] = "try" /\ Running(r) /\ Possible(r)
  BY <1>1 DEF Tasks, TrySucceeds
<1>3. r = t
  BY <1>2, Returned DEF Inv, Gone
<1>4. suspender = None /\ pending = {} /\ lock["recv"] = Unlocked
  BY <1>2, Where DEF Suspending
<1>5. count > 0 /\ \A v \in lists.ready : Priority[v] <= Priority[t]
  BY <1>2, <1>3, <1>4 DEF Possible, Running
<1>6. u \in Tasks /\ Waiting(lists, u) /\ Side(u) = "recv"
  <2>1. EventList(lists.waiting["recv"]) /\ "recv" \in Sides
    BY DEF Inv, Listed, Sides
  <2>2. Has(lists.waiting["recv"], u)
    BY DEF Range, Has
  <2>3. u \in Tasks
    BY <2>1, <2>2 DEF EventList, Has
  <2>4. Side(u) = "recv"
    BY <2>1, <2>2, <2>3 DEF Inv, Listed
  <2> QED BY <2>2, <2>3, <2>4 DEF Waiting
<1>7. count <= Cardinality(Awake(u)) + 0
  BY <1>4, <1>6 DEF Inv, Wakeups, Avail, Counted
<1>8. Awake(u) # {}
  <2>1. count \in Nat /\ Cardinality({}) = 0
    BY Kinds, FS_EmptySet
  <2> QED BY <1>5, <1>7, <2>1
<1>9. PICK v : v \in Awake(u)
  BY <1>8
<1>10. v \in Tasks /\ v \in lists.ready /\ Priority[v] >= Priority[u]
  BY <1>4, <1>9 DEF Awake
<1>11. Priority[v] <= Priority[t] /\ Priority[u] \in Nat /\ Priority[v] \in Nat /\ Priority[t] \in Nat
  BY <1>2, <1>5, <1>6, <1>10, Facts
<1> QED BY <1>10, <1>11

\* A message goes to the waiting task of the highest priority.
THEOREM HigherFirst == Spec => HigherTakesFirst
<1>1. Inv /\ [Next]_vars =>
        [\A t \in Receivers : (count' < count /\ pc[t] = "try" /\ pc'[t] = "out") =>
           \A u \in Range(lists.waiting["recv"]) : Priority[u] <= Priority[t]]_vars
  BY TakesFirst
<1> QED BY <1>1, Invariant, PTL DEF Spec, HigherTakesFirst

=============================================================================
