---------------------------- MODULE TasksProofs ----------------------------
(***************************************************************************)
(* Proofs about module Tasks, for any number of services, any priorities   *)
(* and any delay: the lists of the scheduler, the choice of the task that  *)
(* runs, and the idle task.                                                *)
(***************************************************************************)
EXTENDS Tasks, SequenceTheorems, WellFoundedInduction, TLAPS

-----------------------------------------------------------------------------
(* Lists without repetition *)

Has(s, u) == \E i \in DOMAIN s : s[i] = u

\* vListInsertEnd adds one item, at the end or before position i.
Inserted(new, s, i, t) == new = IF i = 0 THEN Append(s, t) ELSE InsertAt(s, i, t)

LEMMA InsertedAt ==
  ASSUME NEW S, NEW s \in Seq(S), NEW t \in S, NEW i \in 0 .. Len(s), NEW new, Inserted(new, s, i, t),
         NEW p, p = (IF i = 0 THEN Len(s) + 1 ELSE i)
  PROVE  /\ new \in Seq(S) /\ Len(new) = Len(s) + 1
         /\ \A j \in 1 .. Len(s) + 1 :
              new[j] = IF j < p THEN s[j] ELSE IF j = p THEN t ELSE s[j - 1]
<1>1. CASE i = 0
  <2>1. /\ new \in Seq(S) /\ Len(new) = Len(s) + 1
        /\ \A j \in 1 .. Len(s) + 1 : new[j] = IF j < Len(s) + 1 THEN s[j] ELSE t
    BY <1>1 DEF Inserted
  <2>2. p = Len(s) + 1 /\ Len(s) \in Nat
    BY <1>1
  <2>3. ASSUME NEW j \in 1 .. Len(s) + 1
        PROVE  new[j] = IF j < p THEN s[j] ELSE IF j = p THEN t ELSE s[j - 1]
    <3>1. j < p \/ j = p
      BY ONLY <2>2, j \in 1 .. Len(s) + 1
    <3> QED BY <2>1, <2>2, <3>1
  <2> QED BY <2>1, <2>3
<1>2. CASE i # 0
  <2>1. PICK x, y, z : x = SubSeq(s, 1, i - 1) /\ y = SubSeq(s, i, Len(s)) /\ z = x \o <<t>>
    OBVIOUS
  <2>2. x \in Seq(S) /\ Len(x) = i - 1 /\ \A j \in 1 .. i - 1 : x[j] = s[j]
    BY <1>2, <2>1
  <2>3. y \in Seq(S) /\ Len(y) = Len(s) - i + 1
        /\ \A j \in 1 .. Len(s) - i + 1 : y[j] = s[i + j - 1]
    BY <1>2, <2>1
  <2>4. z \in Seq(S) /\ Len(z) = i /\ z[i] = t /\ \A j \in 1 .. i - 1 : z[j] = s[j]
    BY <1>2, <2>1, <2>2
  <2>5. new = z \o y
    BY <1>2, <2>1 DEF Inserted, InsertAt
  <2>6. new \in Seq(S) /\ Len(new) = Len(s) + 1
    <3>1. Len(z) + Len(y) = Len(s) + 1
      BY <1>2, <2>3, <2>4
    <3> HIDE <1>2
    <3>2. new \in Seq(S)
      BY <2>3, <2>4, <2>5, ConcatProperties
    <3>3. Len(new) = Len(z) + Len(y)
      BY <2>3, <2>4, <2>5, ConcatProperties
    <3> QED BY <3>1, <3>2, <3>3
  <2>7. ASSUME NEW j \in 1 .. Len(s) + 1
        PROVE  new[j] = IF j < i THEN s[j] ELSE IF j = i THEN t ELSE s[j - 1]
    <3>1. new[j] = IF j <= Len(z) THEN z[j] ELSE y[j - Len(z)]
      BY <2>3, <2>4, <2>5
    <3>2. CASE j < i  BY <2>4, <3>1, <3>2
    <3>3. CASE j = i  BY <2>4, <3>1, <3>3
    <3>4. CASE j > i
      <4>1. j - i \in 1 .. Len(s) - i + 1 /\ i + (j - i) - 1 = j - 1
        BY <1>2, <3>4
      <4>2. y[j - i] = s[i + (j - i) - 1]
        BY <2>3, <4>1
      <4> QED BY <2>4, <3>1, <3>4, <4>1, <4>2
    <3> QED BY <3>2, <3>3, <3>4
  <2>8. i \in 1 .. Len(s) + 1
    BY <1>2
  <2> QED BY <2>6, <2>7, <2>8
<1> QED BY <1>1, <1>2

LEMMA Insertion ==
  ASSUME NEW S, NEW s \in Seq(S), IsInjective(s), NEW t \in S, ~Has(s, t),
         NEW i \in 0 .. Len(s), NEW new, Inserted(new, s, i, t)
  PROVE  /\ new \in Seq(S) /\ IsInjective(new) /\ Len(new) = Len(s) + 1
         /\ \A u : Has(new, u) <=> Has(s, u) \/ u = t
<1>1. PICK p \in 1 .. Len(s) + 1 :
        /\ new \in Seq(S) /\ Len(new) = Len(s) + 1
        /\ \A j \in 1 .. Len(s) + 1 :
             new[j] = IF j < p THEN s[j] ELSE IF j = p THEN t ELSE s[j - 1]
  <2>1. PICK p : p = IF i = 0 THEN Len(s) + 1 ELSE i
    OBVIOUS
  <2>2. p \in 1 .. Len(s) + 1
    BY <2>1
  <2>3. /\ new \in Seq(S) /\ Len(new) = Len(s) + 1
        /\ \A j \in 1 .. Len(s) + 1 :
             new[j] = IF j < p THEN s[j] ELSE IF j = p THEN t ELSE s[j - 1]
    BY <2>1, InsertedAt
  <2> QED BY ONLY <2>2, <2>3
<1>2. DOMAIN new = 1 .. Len(s) + 1 /\ DOMAIN s = 1 .. Len(s) /\ Len(s) \in Nat
  BY <1>1
<1>3. ASSUME NEW j \in 1 .. Len(s) PROVE s[j] # t
  BY <1>2 DEF Has
<1>4. ASSUME NEW a \in 1 .. Len(s) + 1, NEW b \in 1 .. Len(s) + 1, new[a] = new[b], a < b
      PROVE  FALSE
  <2>1. \A j, k \in 1 .. Len(s) : s[j] = s[k] => j = k
    BY <1>2 DEF IsInjective
  <2>2. new[a] = (IF a < p THEN s[a] ELSE IF a = p THEN t ELSE s[a - 1])
        /\ new[b] = (IF b < p THEN s[b] ELSE IF b = p THEN t ELSE s[b - 1])
    BY <1>1
  <2>3. CASE b < p  BY <2>1, <2>2, <2>3, <1>4
  <2>4. CASE b = p  BY <2>2, <2>4, <1>3, <1>4
  <2>5. CASE b > p /\ a < p  BY <2>1, <2>2, <2>5, <1>4
  <2>6. CASE b > p /\ a = p  BY <2>2, <2>6, <1>3, <1>4
  <2>7. CASE a > p  BY <2>1, <2>2, <2>7, <1>4
  <2> QED BY <2>3, <2>4, <2>5, <2>6, <2>7
<1>5. IsInjective(new)
  <2> SUFFICES ASSUME NEW a \in 1 .. Len(s) + 1, NEW b \in 1 .. Len(s) + 1, new[a] = new[b]
               PROVE  a = b
    BY <1>2 DEF IsInjective
  <2>1. ~(a < b) /\ ~(b < a)
    BY <1>4
  <2> QED BY <2>1
<1>6. ASSUME NEW u PROVE Has(new, u) <=> Has(s, u) \/ u = t
  <2>1. ASSUME Has(new, u), u # t PROVE Has(s, u)
    <3>1. PICK j \in 1 .. Len(s) + 1 : new[j] = u
      BY <1>2, <2>1 DEF Has
    <3>2. u = IF j < p THEN s[j] ELSE s[j - 1]
      BY <1>1, <2>1, <3>1
    <3>3. CASE j < p  BY <1>2, <3>2, <3>3 DEF Has
    <3>4. CASE ~(j < p)
      <4>1. j # p
        BY <1>1, <2>1, <3>1
      <4>2. j - 1 \in 1 .. Len(s) /\ u = s[j - 1]
        BY <3>2, <3>4, <4>1
      <4> QED BY <1>2, <4>2 DEF Has
    <3> QED BY <3>3, <3>4
  <2>2. ASSUME Has(s, u) PROVE Has(new, u)
    <3>1. PICK j \in 1 .. Len(s) : s[j] = u
      BY <1>2, <2>2 DEF Has
    <3>2. CASE j < p
      <4>1. new[j] = u
        BY <1>1, <3>1, <3>2
      <4> QED BY <1>2, <4>1 DEF Has
    <3>3. CASE ~(j < p)
      <4>1. PICK k \in 1 .. Len(s) + 1 : k > p /\ k - 1 = j
        <5>1. j + 1 \in 1 .. Len(s) + 1 /\ j + 1 > p /\ j + 1 - 1 = j
          BY <3>3
        <5> QED BY <5>1
      <4>2. new[k] = s[k - 1]
        BY <1>1, <4>1
      <4>3. new[k] = u
        BY <3>1, <4>1, <4>2
      <4> QED BY <1>2, <4>3 DEF Has
    <3> QED BY <3>2, <3>3
  <2>3. Has(new, t)
    BY <1>1, <1>2 DEF Has
  <2> QED BY <2>1, <2>2, <2>3
<1> QED BY <1>1, <1>5, <1>6

\* uxListRemove takes the item at position i out, and no other.
LEMMA RemovedAt ==
  ASSUME NEW S, NEW s \in Seq(S), NEW i \in 1 .. Len(s), NEW new, new = RemoveAt(s, i)
  PROVE  /\ new \in Seq(S) /\ Len(new) = Len(s) - 1
         /\ \A j \in 1 .. Len(s) - 1 : new[j] = IF j < i THEN s[j] ELSE s[j + 1]
<1>1. PICK x, y : x = SubSeq(s, 1, i - 1) /\ y = SubSeq(s, i + 1, Len(s))
  OBVIOUS
<1>2. x \in Seq(S) /\ Len(x) = i - 1 /\ \A j \in 1 .. i - 1 : x[j] = s[j]
  BY <1>1
<1>3. y \in Seq(S) /\ Len(y) = Len(s) - i /\ \A j \in 1 .. Len(s) - i : y[j] = s[i + j]
  BY <1>1
<1>4. new = x \o y
  BY <1>1 DEF RemoveAt
<1>5. new \in Seq(S) /\ Len(new) = Len(s) - 1
  BY <1>2, <1>3, <1>4
<1>6. ASSUME NEW j \in 1 .. Len(s) - 1 PROVE new[j] = IF j < i THEN s[j] ELSE s[j + 1]
  <2>1. new[j] = IF j <= Len(x) THEN x[j] ELSE y[j - Len(x)]
    BY <1>2, <1>3, <1>4
  <2>2. CASE j < i  BY <1>2, <2>1, <2>2
  <2>3. CASE ~(j < i)
    <3>1. j - (i - 1) \in 1 .. Len(s) - i /\ i + (j - (i - 1)) = j + 1
      BY <2>3
    <3>2. y[j - (i - 1)] = s[i + (j - (i - 1))]
      BY <1>3, <3>1
    <3> QED BY <1>2, <2>1, <2>3, <3>1, <3>2
  <2> QED BY <2>2, <2>3
<1> QED BY <1>5, <1>6

LEMMA Removal ==
  ASSUME NEW S, NEW s \in Seq(S), IsInjective(s), NEW i \in 1 .. Len(s),
         NEW new, new = RemoveAt(s, i)
  PROVE  /\ new \in Seq(S) /\ IsInjective(new) /\ Len(new) = Len(s) - 1
         /\ \A u : Has(new, u) <=> Has(s, u) /\ u # s[i]
<1>1. /\ new \in Seq(S) /\ Len(new) = Len(s) - 1
      /\ \A j \in 1 .. Len(s) - 1 : new[j] = IF j < i THEN s[j] ELSE s[j + 1]
  BY RemovedAt
<1>2. DOMAIN new = 1 .. Len(s) - 1 /\ DOMAIN s = 1 .. Len(s) /\ Len(s) \in Nat
  BY <1>1
<1>3. \A j, k \in 1 .. Len(s) : s[j] = s[k] => j = k
  BY <1>2 DEF IsInjective
<1>4. IsInjective(new)
  <2> SUFFICES ASSUME NEW a \in 1 .. Len(s) - 1, NEW b \in 1 .. Len(s) - 1, new[a] = new[b]
               PROVE  a = b
    BY <1>2 DEF IsInjective
  <2>1. /\ new[a] = (IF a < i THEN s[a] ELSE s[a + 1])
        /\ new[b] = (IF b < i THEN s[b] ELSE s[b + 1])
    BY <1>1
  <2>2. PICK c, d \in 1 .. Len(s) :
          /\ c = (IF a < i THEN a ELSE a + 1) /\ d = (IF b < i THEN b ELSE b + 1)
          /\ s[c] = s[d]
    <3>1. (IF a < i THEN a ELSE a + 1) \in 1 .. Len(s) /\ (IF b < i THEN b ELSE b + 1) \in 1 .. Len(s)
      OBVIOUS
    <3>2. /\ new[a] = s[IF a < i THEN a ELSE a + 1]
          /\ new[b] = s[IF b < i THEN b ELSE b + 1]
      BY <2>1
    <3> QED BY <3>1, <3>2
  <2>3. c = d
    BY <1>3, <2>2
  <2> QED BY <2>2, <2>3
<1>5. ASSUME NEW u PROVE Has(new, u) <=> Has(s, u) /\ u # s[i]
  <2>1. ASSUME Has(new, u) PROVE Has(s, u) /\ u # s[i]
    <3>1. PICK j \in 1 .. Len(s) - 1 : new[j] = u
      BY <1>2, <2>1 DEF Has
    <3>2. PICK k \in 1 .. Len(s) : k # i /\ s[k] = u
      <4>1. CASE j < i  BY <1>1, <3>1, <4>1
      <4>2. CASE ~(j < i)
        <5>1. j + 1 \in 1 .. Len(s) /\ j + 1 # i /\ s[j + 1] = u
          BY <1>1, <3>1, <4>2
        <5> QED BY <5>1
      <4> QED BY <4>1, <4>2
    <3> QED BY <1>2, <1>3, <3>2 DEF Has
  <2>2. ASSUME Has(s, u), u # s[i] PROVE Has(new, u)
    <3>1. PICK j \in 1 .. Len(s) : s[j] = u
      BY <1>2, <2>2 DEF Has
    <3>2. CASE j < i
      <4>1. j \in 1 .. Len(s) - 1 /\ new[j] = u
        BY <1>1, <3>1, <3>2
      <4> QED BY <1>2, <4>1 DEF Has
    <3>3. CASE j > i
      <4>1. j - 1 \in 1 .. Len(s) - 1 /\ new[j - 1] = s[j - 1 + 1]
        BY <1>1, <3>3
      <4>2. new[j - 1] = u
        BY <3>1, <4>1
      <4> QED BY <1>2, <4>1, <4>2 DEF Has
    <3> QED BY <2>2, <3>1, <3>2, <3>3
  <2> QED BY <2>1, <2>2
<1> QED BY <1>1, <1>4, <1>5

-----------------------------------------------------------------------------
\* A set of naturals that is bounded has a greatest one.
LEMMA Greatest ==
  ASSUME NEW n \in Nat, NEW Q \in SUBSET (0 .. n), Q # {}
  PROVE  \E p \in Q : \A q \in Q : q <= p
<1> DEFINE T == {n - q : q \in Q}
<1>1. T \subseteq Nat /\ T # {}
  <2>1. \A q \in Q : n - q \in Nat
    OBVIOUS
  <2>2. PICK q \in Q : n - q \in T
    OBVIOUS
  <2> QED BY <2>1, <2>2
<1>2. PICK x \in T : \A y \in T : ~(<<y, x>> \in OpToRel(<, Nat))
  <2> HIDE DEF T
  <2> QED BY <1>1, NatLessThanWellFounded, WFMin
<1>3. PICK p \in Q : x = n - p
  OBVIOUS
<1>4. ASSUME NEW q \in Q PROVE q <= p
  <2>1. n - q \in T /\ n - q \in Nat /\ x \in Nat
    BY <1>1
  <2>2. ~(<<n - q, x>> \in OpToRel(<, Nat))
    BY <1>2, <2>1
  <2>3. ~(n - q < x)
    BY <2>1, <2>2 DEF OpToRel
  <2> QED BY <1>3, <2>3
<1> QED BY <1>4

-----------------------------------------------------------------------------
(* Types *)

Level(p) == {t \in Tasks : Priority[t] = p}

Listed ==
  /\ ready \in [Priorities -> Seq(Tasks)] /\ index \in [Priorities -> Nat]
  /\ \A p \in Priorities :
       /\ ready[p] \in Seq(Level(p)) /\ IsInjective(ready[p])
       /\ index[p] \in 0 .. Len(ready[p])

Others ==
  /\ running \in Tasks
  /\ pendsv \in BOOLEAN /\ systick \in BOOLEAN /\ masked \in BOOLEAN /\ deleted \in BOOLEAN
  /\ delay \in 0 .. DelayTicks
  /\ created \in 0 .. Len(Services)

LEMMA Facts ==
  /\ {Startup, Clockd, Sensor, Idle} \subseteq Tasks
  /\ \A t \in Tasks : Priority[t] \in Priorities
  /\ Priorities \subseteq Nat
  /\ Len(Services) \in Nat /\ DOMAIN Services = 1 .. Len(Services)
  /\ \A i \in 1 .. Len(Services) : Services[i] \in Tasks \ {Startup, Clockd, Sensor, Idle}
  /\ \A i, j \in 1 .. Len(Services) : Services[i] = Services[j] => i = j
  /\ \A t \in Tasks \ {Idle} : Priority[t] > Priority[Idle]
  /\ \A t \in {Clockd, Sensor, Idle} : Priority[Startup] > Priority[t]
  /\ Startup \notin {Clockd, Sensor, Idle} /\ Clockd \notin {Sensor, Idle} /\ Sensor # Idle
  /\ DelayTicks \in Nat \ {0}
<1>1. {Startup, Clockd, Sensor, Idle} \subseteq Tasks
  BY DEF Tasks
<1>2. Priority \in [Tasks -> 0 .. configMAX_PRIORITIES - 1] /\ configMAX_PRIORITIES \in Nat
  BY TasksAssumption
<1>3. (\A t \in Tasks : Priority[t] \in Priorities) /\ Priorities \subseteq Nat
  BY <1>2 DEF Priorities
<1>4. Services \in Seq(Tasks \ {Startup, Clockd, Sensor, Idle}) /\ IsInjective(Services)
  BY DistinctAssumption
<1>5. /\ Len(Services) \in Nat /\ DOMAIN Services = 1 .. Len(Services)
      /\ \A i \in 1 .. Len(Services) : Services[i] \in Tasks \ {Startup, Clockd, Sensor, Idle}
  BY <1>4
<1>6. \A i, j \in 1 .. Len(Services) : Services[i] = Services[j] => i = j
  BY <1>4, <1>5 DEF IsInjective
<1>7. /\ \A t \in Tasks \ {Idle} : Priority[t] > Priority[Idle]
      /\ \A t \in {Clockd, Sensor, Idle} : Priority[Startup] > Priority[t]
      /\ DelayTicks \in Nat \ {0}
  BY TasksAssumption
<1>8. Startup \notin {Clockd, Sensor, Idle} /\ Clockd \notin {Sensor, Idle} /\ Sensor # Idle
  BY DistinctAssumption
<1> QED BY <1>1, <1>3, <1>5, <1>6, <1>7, <1>8

LEMMA ReadyHas == \A t : IsReady(t) <=> Has(ready[Priority[t]], t)
BY DEF IsReady, Has

\* A list holds the tasks that are ready at its priority.
LEMMA EmptyList ==
  ASSUME Listed, NEW p \in Priorities
  PROVE  ready[p] = <<>> <=> \A t \in Tasks : IsReady(t) => Priority[t] # p
<1>1. ready[p] \in Seq(Level(p)) /\ DOMAIN ready[p] = 1 .. Len(ready[p]) /\ Len(ready[p]) \in Nat
  BY DEF Listed
<1>2. ASSUME ready[p] = <<>>, NEW t \in Tasks, IsReady(t) PROVE Priority[t] # p
  BY <1>2 DEF IsReady
<1>3. ASSUME ready[p] # <<>> PROVE \E t \in Tasks : IsReady(t) /\ Priority[t] = p
  <2>1. 1 \in DOMAIN ready[p]
    BY <1>1, <1>3
  <2>2. ready[p][1] \in Level(p)
    BY <1>1, <2>1
  <2>3. ready[p][1] \in Tasks /\ Priority[ready[p][1]] = p
    BY <2>2 DEF Level
  <2>4. IsReady(ready[p][1])
    BY <2>1, <2>3 DEF IsReady
  <2> QED BY <2>3, <2>4
<1> QED BY <1>2, <1>3

\* The scheduler finds the highest priority that has a ready task.
LEMMA TopReady ==
  ASSUME Listed, NEW t \in Tasks, IsReady(t)
  PROVE  /\ TopReadyPriority \in Priorities /\ ready[TopReadyPriority] # <<>>
         /\ \A q \in Priorities : q > TopReadyPriority => ready[q] = <<>>
         /\ Priority[t] <= TopReadyPriority
<1> DEFINE Q == {p \in Priorities : ready[p] # <<>>}
<1>1. Priority[t] \in Q
  BY Facts, EmptyList
<1>2. Q \in SUBSET (0 .. configMAX_PRIORITIES) /\ configMAX_PRIORITIES \in Nat
  <2>1. Priority \in [Tasks -> 0 .. configMAX_PRIORITIES - 1] /\ configMAX_PRIORITIES \in Nat
    BY TasksAssumption
  <2> QED BY <2>1 DEF Priorities
<1>3. PICK p \in Q : \A q \in Q : q <= p
  <2>1. Q # {}
    BY <1>1
  <2> HIDE DEF Q
  <2> QED BY <1>2, <2>1, Greatest
<1>4. \A q \in Priorities : q > p => ready[q] = <<>>
  BY <1>3, Facts
<1>5. TopReadyPriority \in Priorities /\ ready[TopReadyPriority] # <<>>
      /\ \A q \in Priorities : q > TopReadyPriority => ready[q] = <<>>
  BY <1>3, <1>4 DEF TopReadyPriority
<1>6. Priority[t] <= TopReadyPriority
  <2>1. Priority[t] \in Priorities /\ ready[Priority[t]] # <<>>
    BY <1>1
  <2>2. ~(Priority[t] > TopReadyPriority)
    BY <1>5, <2>1
  <2>3. Priority[t] \in Nat /\ TopReadyPriority \in Nat
    BY <1>5, <2>1, Facts
  <2> QED BY <2>2, <2>3
<1> QED BY <1>5, <1>6

\* One list is replaced by another of the same priority.
LEMMA Relisted ==
  ASSUME Listed, NEW t \in Tasks, NEW p, p = Priority[t],
         ready' = [ready EXCEPT ![p] = ready'[p]],
         ready'[p] \in Seq(Level(p)), IsInjective(ready'[p]),
         NEW n, index' = [index EXCEPT ![p] = n], index'[p] \in 0 .. Len(ready'[p])
  PROVE  /\ Listed'
         /\ \A u \in Tasks : Priority[u] = p => (IsReady(u)' <=> Has(ready'[p], u))
         /\ \A u \in Tasks : Priority[u] # p => (IsReady(u)' <=> IsReady(u))
         /\ \A u \in Tasks : Priority[u] = p => (IsReady(u) <=> Has(ready[p], u))
<1>1. p \in Priorities
  BY Facts
<1>2. \A q \in Priorities : q # p => ready'[q] = ready[q] /\ index'[q] = index[q]
  BY DEF Listed
<1>3. ready' \in [Priorities -> Seq(Tasks)] /\ index' \in [Priorities -> Nat]
  <2>1. ready'[p] \in Seq(Tasks)
    <3>1. Level(p) \subseteq Tasks
      BY DEF Level
    <3> HIDE DEF Level
    <3> QED BY <3>1
  <2>2. index'[p] \in Nat
    OBVIOUS
  <2>3. n \in Nat
    BY <1>1, <2>2 DEF Listed
  <2> QED BY <1>1, <2>1, <2>3 DEF Listed
<1>4. ASSUME NEW q \in Priorities
      PROVE  /\ ready'[q] \in Seq(Level(q)) /\ IsInjective(ready'[q])
             /\ index'[q] \in 0 .. Len(ready'[q])
  <2>1. CASE q = p  BY <2>1
  <2>2. CASE q # p
    <3>1. /\ ready[q] \in Seq(Level(q)) /\ IsInjective(ready[q])
          /\ index[q] \in 0 .. Len(ready[q])
      BY DEF Listed
    <3> QED BY <1>2, <2>2, <3>1
  <2> QED BY <2>1, <2>2
<1>5. Listed'
  BY <1>3, <1>4 DEF Listed, Level
<1>6. \A u \in Tasks : IsReady(u)' <=> Has(ready'[Priority[u]], u)
  BY DEF IsReady, Has
<1> QED BY <1>2, <1>5, <1>6, Facts, ReadyHas

\* A task that becomes ready joins the list of its priority.
LEMMA InsertReady ==
  ASSUME Listed, NEW t \in Tasks, ~IsReady(t), vListInsertEnd(t)
  PROVE  Listed' /\ \A u \in Tasks : IsReady(u)' <=> IsReady(u) \/ u = t
<1>1. PICK p \in Priorities : p = Priority[t]
  BY Facts
<1>2. /\ ready' = [ready EXCEPT ![p] = ready'[p]]
      /\ Inserted(ready'[p], ready[p], index[p], t)
      /\ index' = [index EXCEPT ![p] = IF index[p] = 0 THEN 0 ELSE index[p] + 1]
  BY <1>1 DEF vListInsertEnd, Inserted, Listed
<1>3. /\ ready[p] \in Seq(Level(p)) /\ IsInjective(ready[p]) /\ t \in Level(p)
      /\ index[p] \in 0 .. Len(ready[p]) /\ ~Has(ready[p], t)
  BY <1>1, ReadyHas DEF Listed, Level
<1>4. /\ ready'[p] \in Seq(Level(p)) /\ IsInjective(ready'[p])
      /\ Len(ready'[p]) = Len(ready[p]) + 1
      /\ \A u : Has(ready'[p], u) <=> Has(ready[p], u) \/ u = t
  BY <1>2, <1>3, Insertion
<1>5. index'[p] \in 0 .. Len(ready'[p])
  BY <1>2, <1>3, <1>4 DEF Listed
<1> QED BY <1>1, <1>2, <1>4, <1>5, Relisted

\* A task that waits leaves it.
LEMMA RemoveReady ==
  ASSUME Listed, NEW t \in Tasks, IsReady(t), uxListRemove(t)
  PROVE  Listed' /\ \A u \in Tasks : IsReady(u)' <=> IsReady(u) /\ u # t
<1>1. PICK p \in Priorities : p = Priority[t]
  BY Facts
<1>2. PICK i \in DOMAIN ready[p] :
        /\ ready[p][i] = t
        /\ ready' = [ready EXCEPT ![p] = RemoveAt(ready[p], i)]
        /\ index' = [index EXCEPT ![p] = IF i <= index[p] THEN index[p] - 1 ELSE index[p]]
  BY <1>1 DEF uxListRemove, IsReady
<1>3. /\ ready[p] \in Seq(Level(p)) /\ IsInjective(ready[p])
      /\ index[p] \in 0 .. Len(ready[p]) /\ i \in 1 .. Len(ready[p])
  <2>1. /\ ready[p] \in Seq(Level(p)) /\ IsInjective(ready[p])
        /\ index[p] \in 0 .. Len(ready[p])
    BY <1>1 DEF Listed
  <2>2. DOMAIN ready[p] = 1 .. Len(ready[p])
    BY <2>1
  <2> QED BY <2>1, <2>2
<1>4. ready'[p] = RemoveAt(ready[p], i) /\ ready' = [ready EXCEPT ![p] = ready'[p]]
  BY <1>2 DEF Listed
<1>5. /\ ready'[p] \in Seq(Level(p)) /\ IsInjective(ready'[p])
      /\ Len(ready'[p]) = Len(ready[p]) - 1
      /\ \A u : Has(ready'[p], u) <=> Has(ready[p], u) /\ u # t
  <2>1. /\ ready'[p] \in Seq(Level(p)) /\ IsInjective(ready'[p])
        /\ Len(ready'[p]) = Len(ready[p]) - 1
        /\ \A u : Has(ready'[p], u) <=> Has(ready[p], u) /\ u # ready[p][i]
    <3>1. /\ ready[p] \in Seq(Level(p)) /\ IsInjective(ready[p]) /\ i \in 1 .. Len(ready[p])
          /\ ready'[p] = RemoveAt(ready[p], i)
      BY <1>3, <1>4
    <3> QED BY ONLY <3>1, Removal
  <2>2. ready[p][i] = t
    BY <1>2
  <2> QED BY ONLY <2>1, <2>2
<1>6. index'[p] \in 0 .. Len(ready'[p])
  BY <1>2, <1>3, <1>5 DEF Listed
<1> QED BY <1>1, <1>2, <1>4, <1>5, <1>6, Relisted

-----------------------------------------------------------------------------
(* The choice of the task that runs *)

Chosen ==
  /\ IsReady(running)
  /\ \A u \in Tasks : IsReady(u) => Priority[u] <= Priority[running]

Sched ==
  /\ IsReady(Clockd) /\ IsReady(Idle)
  /\ \A i \in created + 1 .. Len(Services) : ~IsReady(Services[i])
  /\ delay = 0 <=> IsReady(Sensor)
  /\ masked => running = Clockd
  /\ running # Idle
  /\ ~pendsv => Chosen

Inv == Listed /\ Others /\ Sched

IsJoin(z, x, y) == z = x \o y

LEMMA Joined ==
  ASSUME NEW S, NEW x \in Seq(S), NEW y \in Seq(S), IsInjective(x), IsInjective(y),
         \A u : ~(Has(x, u) /\ Has(y, u)), NEW z, IsJoin(z, x, y)
  PROVE  z \in Seq(S) /\ IsInjective(z) /\ \A u : Has(z, u) <=> Has(x, u) \/ Has(y, u)
<1>1. z \in Seq(S) /\ Len(z) = Len(x) + Len(y) /\ Len(x) \in Nat /\ Len(y) \in Nat
  BY ConcatProperties DEF IsJoin
<1>2. /\ DOMAIN z = 1 .. Len(x) + Len(y)
      /\ DOMAIN x = 1 .. Len(x) /\ DOMAIN y = 1 .. Len(y)
  BY <1>1
<1>3. \A j \in 1 .. Len(x) + Len(y) : z[j] = IF j <= Len(x) THEN x[j] ELSE y[j - Len(x)]
  BY ConcatProperties DEF IsJoin
<1>4. ASSUME NEW u PROVE Has(z, u) <=> Has(x, u) \/ Has(y, u)
  <2>1. ASSUME Has(z, u) PROVE Has(x, u) \/ Has(y, u)
    <3>1. PICK j \in 1 .. Len(x) + Len(y) : z[j] = u
      BY <1>2, <2>1 DEF Has
    <3>2. CASE j <= Len(x)
      <4>1. j \in 1 .. Len(x) /\ x[j] = u
        BY <1>1, <1>3, <3>1, <3>2
      <4> QED BY <1>2, <4>1 DEF Has
    <3>3. CASE j > Len(x)
      <4>1. j - Len(x) \in 1 .. Len(y) /\ y[j - Len(x)] = u
        BY <1>1, <1>3, <3>1, <3>3
      <4> QED BY <1>2, <4>1 DEF Has
    <3> QED BY <1>1, <3>2, <3>3
  <2>2. ASSUME Has(x, u) PROVE Has(z, u)
    <3>1. PICK j \in 1 .. Len(x) : x[j] = u
      BY <1>2, <2>2 DEF Has
    <3>2. j \in 1 .. Len(x) + Len(y) /\ z[j] = u
      BY <1>1, <1>3, <3>1
    <3> QED BY <1>2, <3>2 DEF Has
  <2>3. ASSUME Has(y, u) PROVE Has(z, u)
    <3>1. PICK j \in 1 .. Len(y) : y[j] = u
      BY <1>2, <2>3 DEF Has
    <3>2. PICK k \in 1 .. Len(x) + Len(y) : k > Len(x) /\ k - Len(x) = j
      <4>1. Len(x) + j \in 1 .. Len(x) + Len(y) /\ Len(x) + j > Len(x) /\ (Len(x) + j) - Len(x) = j
        BY <1>1
      <4> QED BY <4>1
    <3>3. z[k] = u
      BY <1>1, <1>3, <3>1, <3>2
    <3> QED BY <1>2, <3>3 DEF Has
  <2> QED BY <2>1, <2>2, <2>3
<1>5. IsInjective(z)
  <2> SUFFICES ASSUME NEW a \in 1 .. Len(x) + Len(y), NEW b \in 1 .. Len(x) + Len(y), z[a] = z[b]
               PROVE  a = b
    BY <1>2 DEF IsInjective
  <2>1. \A j \in 1 .. Len(x) : Has(x, x[j])
    BY <1>2 DEF Has
  <2>2. \A j \in 1 .. Len(y) : Has(y, y[j])
    BY <1>2 DEF Has
  <2>3. \A j, k \in 1 .. Len(x) : x[j] = x[k] => j = k
    BY <1>2 DEF IsInjective
  <2>4. \A j, k \in 1 .. Len(y) : y[j] = y[k] => j = k
    BY <1>2 DEF IsInjective
  <2>5. /\ z[a] = IF a <= Len(x) THEN x[a] ELSE y[a - Len(x)]
        /\ z[b] = IF b <= Len(x) THEN x[b] ELSE y[b - Len(x)]
    BY <1>3
  <2>6. CASE a <= Len(x) /\ b <= Len(x)
    <3>1. a \in 1 .. Len(x) /\ b \in 1 .. Len(x)
      BY ONLY <1>1, <2>6
    <3>2. x[a] = x[b]
      BY ONLY <2>5, <2>6, z[a] = z[b]
    <3> QED BY ONLY <2>3, <3>1, <3>2
  <2>7. CASE a > Len(x) /\ b > Len(x)
    <3>1. a - Len(x) \in 1 .. Len(y) /\ b - Len(x) \in 1 .. Len(y)
      BY ONLY <1>1, <2>7
    <3>2. y[a - Len(x)] = y[b - Len(x)]
      <4>1. ~(a <= Len(x)) /\ ~(b <= Len(x))
        BY ONLY <1>1, <2>7
      <4> QED BY ONLY <2>5, <4>1, z[a] = z[b]
    <3>3. a - Len(x) = b - Len(x)
      BY ONLY <2>4, <3>1, <3>2
    <3> QED BY ONLY <1>1, <3>3
  <2>8. CASE a <= Len(x) /\ b > Len(x)
    <3>1. a \in 1 .. Len(x) /\ b - Len(x) \in 1 .. Len(y)
      BY ONLY <1>1, <2>8
    <3>2. x[a] = y[b - Len(x)]
      <4>1. ~(b <= Len(x))
        BY ONLY <1>1, <2>8
      <4> QED BY ONLY <2>5, <2>8, <4>1, z[a] = z[b]
    <3> QED BY <2>1, <2>2, <3>1, <3>2
  <2>9. CASE a > Len(x) /\ b <= Len(x)
    <3>1. b \in 1 .. Len(x) /\ a - Len(x) \in 1 .. Len(y)
      BY ONLY <1>1, <2>9
    <3>2. x[b] = y[a - Len(x)]
      <4>1. ~(a <= Len(x))
        BY ONLY <1>1, <2>9
      <4> QED BY ONLY <2>5, <2>9, <4>1, z[a] = z[b]
    <3> QED BY <2>1, <2>2, <3>1, <3>2
  <2> QED BY <1>1, <2>6, <2>7, <2>8, <2>9
<1> QED BY <1>1, <1>4, <1>5

LEMMA OneEntry ==
  ASSUME NEW t \in Tasks, NEW p, NEW e, e = IF Priority[t] = p THEN <<t>> ELSE <<>>
  PROVE  e \in Seq(Level(p)) /\ IsInjective(e) /\ \A u : Has(e, u) <=> u = t /\ Priority[t] = p
<1>1. CASE Priority[t] = p
  <2>1. e = <<t>> /\ t \in Level(p)
    BY <1>1 DEF Level
  <2>2. DOMAIN e = {1} /\ e[1] = t
    BY <2>1
  <2>3. e \in Seq(Level(p))
    BY <2>1
  <2> QED BY <1>1, <2>2, <2>3 DEF IsInjective, Has
<1>2. CASE Priority[t] # p
  <2>1. e = <<>> /\ DOMAIN e = {}
    BY <1>2
  <2> QED BY <1>2, <2>1 DEF IsInjective, Has
<1> QED BY <1>1, <1>2

LEMMA InitInv == Init => Inv
<1> SUFFICES ASSUME Init PROVE Inv
  OBVIOUS
<1>1. ASSUME NEW p \in Priorities
      PROVE  /\ ready[p] \in Seq(Level(p)) /\ IsInjective(ready[p])
             /\ \A u : Has(ready[p], u) <=> u \in {Startup, Clockd, Sensor, Idle} /\ Priority[u] = p
  <2>1. PICK a, b, c, d : /\ a = (IF Priority[Startup] = p THEN <<Startup>> ELSE <<>>)
                          /\ b = (IF Priority[Clockd] = p THEN <<Clockd>> ELSE <<>>)
                          /\ c = (IF Priority[Sensor] = p THEN <<Sensor>> ELSE <<>>)
                          /\ d = (IF Priority[Idle] = p THEN <<Idle>> ELSE <<>>)
    OBVIOUS
  <2>2. PICK x, y, z : IsJoin(x, a, b) /\ IsJoin(y, x, c) /\ IsJoin(z, y, d)
    BY DEF IsJoin
  <2>3. ready[p] = z
    BY <2>1, <2>2 DEF Init, IsJoin
  <2>4. a \in Seq(Level(p)) /\ IsInjective(a) /\ \A u : Has(a, u) <=> u = Startup /\ Priority[Startup] = p
    BY <2>1, OneEntry, Facts
  <2>5. b \in Seq(Level(p)) /\ IsInjective(b) /\ \A u : Has(b, u) <=> u = Clockd /\ Priority[Clockd] = p
    BY <2>1, OneEntry, Facts
  <2>6. c \in Seq(Level(p)) /\ IsInjective(c) /\ \A u : Has(c, u) <=> u = Sensor /\ Priority[Sensor] = p
    BY <2>1, OneEntry, Facts
  <2>7. d \in Seq(Level(p)) /\ IsInjective(d) /\ \A u : Has(d, u) <=> u = Idle /\ Priority[Idle] = p
    BY <2>1, OneEntry, Facts
  <2>8. Startup \notin {Clockd, Sensor, Idle} /\ Clockd \notin {Sensor, Idle} /\ Sensor # Idle
    BY Facts
  <2>9. x \in Seq(Level(p)) /\ IsInjective(x) /\ \A u : Has(x, u) <=> Has(a, u) \/ Has(b, u)
    <3>1. \A u : ~(Has(a, u) /\ Has(b, u))
      BY ONLY <2>4, <2>5, <2>8
    <3> QED BY ONLY <2>2, <2>4, <2>5, <3>1, Joined
  <2>10. y \in Seq(Level(p)) /\ IsInjective(y) /\ \A u : Has(y, u) <=> Has(x, u) \/ Has(c, u)
    <3>1. \A u : ~(Has(x, u) /\ Has(c, u))
      BY ONLY <2>4, <2>5, <2>6, <2>8, <2>9
    <3> QED BY ONLY <2>2, <2>6, <2>9, <3>1, Joined
  <2>11. z \in Seq(Level(p)) /\ IsInjective(z) /\ \A u : Has(z, u) <=> Has(y, u) \/ Has(d, u)
    <3>1. \A u : ~(Has(y, u) /\ Has(d, u))
      BY ONLY <2>4, <2>5, <2>6, <2>7, <2>8, <2>9, <2>10
    <3> QED BY ONLY <2>2, <2>7, <2>10, <3>1, Joined
  <2> QED BY ONLY <2>3, <2>4, <2>5, <2>6, <2>7, <2>9, <2>10, <2>11
<1>2. index = [p \in Priorities |-> 0] /\ ready \in [Priorities -> Seq(Tasks)]
  <2>1. ASSUME NEW p \in Priorities PROVE ready[p] \in Seq(Tasks)
    <3>1. Level(p) \subseteq Tasks
      BY DEF Level
    <3> HIDE DEF Level
    <3> QED BY <1>1, <3>1
  <2>2. ready = [p \in Priorities |-> ready[p]] /\ index = [p \in Priorities |-> 0]
    BY DEF Init
  <2> QED BY <2>1, <2>2
<1>3. Listed
  <2>1. ASSUME NEW p \in Priorities PROVE index[p] \in 0 .. Len(ready[p])
    <3>1. Len(ready[p]) \in Nat
      BY <1>1
    <3> QED BY <1>2, <3>1
  <2>2. index \in [Priorities -> Nat]
    BY <1>2
  <2> QED BY <1>1, <1>2, <2>1, <2>2 DEF Listed
<1>4. Others
  <2>1. running = Startup /\ pendsv = FALSE /\ systick = FALSE /\ masked = FALSE
        /\ deleted = FALSE /\ delay = 0 /\ created = 0
    BY DEF Init
  <2>2. running \in Tasks /\ delay \in 0 .. DelayTicks /\ created \in 0 .. Len(Services)
    BY <2>1, Facts
  <2> QED BY <2>1, <2>2 DEF Others
<1>5. ASSUME NEW u \in Tasks PROVE IsReady(u) <=> u \in {Startup, Clockd, Sensor, Idle}
  <2>1. Priority[u] \in Priorities /\ (IsReady(u) <=> Has(ready[Priority[u]], u))
    BY Facts, ReadyHas
  <2>2. \A v : Has(ready[Priority[u]], v) <=> v \in {Startup, Clockd, Sensor, Idle} /\ Priority[v] = Priority[u]
    BY <1>1, <2>1
  <2> QED BY <2>1, <2>2
<1>6. running = Startup /\ delay = 0 /\ created = 0 /\ ~masked /\ ~pendsv
  BY DEF Init
<1>7. ASSUME NEW u \in Tasks, IsReady(u) PROVE Priority[u] <= Priority[Startup]
  <2>1. u = Startup \/ u \in {Clockd, Sensor, Idle}
    BY <1>5, <1>7
  <2>2. Priority[Startup] \in Nat
    BY Facts
  <2>3. \A t \in {Clockd, Sensor, Idle} : Priority[t] \in Nat /\ Priority[Startup] > Priority[t]
    BY Facts
  <2>4. CASE u = Startup  BY ONLY <2>2, <2>4
  <2>5. CASE u \in {Clockd, Sensor, Idle}  BY ONLY <2>2, <2>3, <2>5
  <2> QED BY <2>1, <2>4, <2>5
<1>8. Sched
  <2>1. {Startup, Clockd, Sensor, Idle} \subseteq Tasks /\ Startup # Idle
    BY Facts
  <2>2. \A i \in created + 1 .. Len(Services) : ~IsReady(Services[i])
    BY <1>5, <1>6, Facts
  <2>3. delay = 0 <=> IsReady(Sensor)
    BY <1>5, <1>6, <2>1
  <2>4. IsReady(Clockd) /\ IsReady(Idle) /\ running # Idle /\ Chosen
    BY <1>5, <1>6, <1>7, <2>1 DEF Chosen
  <2> QED BY <1>6, <2>2, <2>3, <2>4 DEF Sched
<1> QED BY <1>3, <1>4, <1>8 DEF Inv

-----------------------------------------------------------------------------
(* Every action keeps the invariant *)

LEMMA Unaltered ==
  ASSUME Listed, UNCHANGED lists
  PROVE  Listed' /\ \A u \in Tasks : IsReady(u)' <=> IsReady(u)
<1>1. ready' = ready /\ index' = index
  BY DEF lists
<1> QED BY <1>1 DEF Listed, Level, IsReady

\* A task other than CLOCK_thread runs with interrupts open, so no switch is
\* pending and it was the right choice.
LEMMA Running ==
  ASSUME Inv, NEW t \in Tasks \ {Clockd}, Runs(t)
  PROVE  running = t /\ ~masked /\ ~pendsv /\ Chosen /\ IsReady(t)
<1>1. running = t /\ running # Clockd
  BY DEF Runs
<1>2. ~masked
  BY <1>1 DEF Inv, Sched
<1>3. ~pendsv
  BY <1>2 DEF Runs
<1> QED BY <1>1, <1>2, <1>3 DEF Inv, Sched, Chosen

LEMMA Waiting ==
  ASSUME Inv, NEW t \in Tasks, Waits(t)
  PROVE  /\ t \notin {Clockd, Sensor, Idle}
         /\ \A j \in created + 1 .. Len(Services) : Services[j] # t
<1>1. created \in 0 .. Len(Services) /\ Len(Services) \in Nat
  BY Facts DEF Inv, Others
<1>2. CASE t = Startup
  <2>1. \A j \in created + 1 .. Len(Services) : j \in 1 .. Len(Services)
    BY <1>1
  <2> QED BY <1>2, <2>1, Facts
<1>3. CASE \E i \in 1 .. created : t = Services[i]
  <2>1. PICK i \in 1 .. created : t = Services[i]
    BY <1>3
  <2>2. i \in 1 .. Len(Services)
    BY <1>1
  <2>3. ASSUME NEW j \in created + 1 .. Len(Services) PROVE Services[j] # t
    <3>1. j \in 1 .. Len(Services) /\ j # i
      BY <1>1
    <3> QED BY <2>1, <2>2, <3>1, Facts
  <2> QED BY <2>1, <2>2, <2>3, Facts
<1> QED BY <1>2, <1>3 DEF Waits

\* A task that becomes ready takes over only through a switch.
LEMMA MadeReady ==
  ASSUME Inv, NEW t \in Tasks, ~IsReady(t), NEW preempts \in BOOLEAN, MakeReady(t, preempts),
         Priority[t] > Priority[running] => preempts, running' = running
  PROVE  /\ Listed' /\ pendsv' \in BOOLEAN
         /\ \A u \in Tasks : IsReady(u)' <=> IsReady(u) \/ u = t
         /\ ~pendsv' => Chosen'
<1>1. Listed' /\ \A u \in Tasks : IsReady(u)' <=> IsReady(u) \/ u = t
  BY InsertReady DEF MakeReady, Inv
<1>2. pendsv' \in BOOLEAN /\ (~pendsv' => ~pendsv /\ ~preempts)
  BY DEF MakeReady, Inv, Others
<1>3. running \in Tasks /\ \A u \in Tasks : Priority[u] \in Nat
  BY Facts DEF Inv, Others
<1>4. ASSUME ~pendsv' PROVE Chosen'
  <2>1. IsReady(running) /\ \A u \in Tasks : IsReady(u) => Priority[u] <= Priority[running]
    BY <1>2, <1>4 DEF Inv, Sched, Chosen
  <2>2. Priority[t] <= Priority[running]
    <3>1. ~(Priority[t] > Priority[running])
      BY <1>2, <1>4
    <3>2. Priority[t] \in Nat /\ Priority[running] \in Nat
      BY <1>3
    <3> QED BY ONLY <3>1, <3>2
  <2>3. IsReady(running)'
    <3>1. \A u \in Tasks : u = running => IsReady(u)'
      BY <1>1, <2>1
    <3>2. \A u \in Tasks : u = running' => IsReady(u)'
      BY <3>1
    <3> QED BY <1>3, <3>2 DEF IsReady
  <2>4. \A u \in Tasks : IsReady(u)' => Priority[u] <= Priority[running]
    BY <1>1, <2>1, <2>2
  <2> QED BY <2>3, <2>4 DEF Chosen
<1> QED BY <1>1, <1>2, <1>4

LEMMA Left ==
  ASSUME Inv, NEW t \in Tasks, IsReady(t), Leave(t)
  PROVE  /\ Listed' /\ pendsv' = TRUE
         /\ \A u \in Tasks : IsReady(u)' <=> IsReady(u) /\ u # t
BY RemoveReady DEF Leave, Inv

LEMMA Later ==
  Inv => /\ Len(Services) \in Nat
         /\ \A i \in created + 1 .. Len(Services) : Services[i] \in Tasks \ {Startup, Clockd, Sensor, Idle}
<1> SUFFICES ASSUME Inv, NEW i \in created + 1 .. Len(Services)
             PROVE  Services[i] \in Tasks \ {Startup, Clockd, Sensor, Idle}
  BY Facts
<1>1. created \in 0 .. Len(Services) /\ Len(Services) \in Nat
  BY Facts DEF Inv, Others
<1>2. i \in 1 .. Len(Services)
  BY <1>1
<1> QED BY <1>2, Facts

\* The invariant does not depend on the tick, and loses nothing by a switch.
LEMMA Same ==
  ASSUME Inv, UNCHANGED <<running, created>>, \A u \in Tasks : IsReady(u)' <=> IsReady(u),
         delay' = 0 <=> delay = 0, masked' => running = Clockd, ~pendsv' => ~pendsv
  PROVE  Sched'
<1>1. \A u \in {Clockd, Sensor, Idle} : u \in Tasks
  BY Facts
<1>2. \A i \in created + 1 .. Len(Services) : ~IsReady(Services[i])'
  BY Later DEF Inv, Sched
<1>3. ASSUME ~pendsv' PROVE Chosen'
  <2>1. Chosen
    BY <1>3 DEF Inv, Sched
  <2>2. running \in Tasks
    BY DEF Inv, Others
  <2>3. IsReady(running)'
    BY <2>1, <2>2 DEF Chosen, IsReady
  <2> QED BY <2>1, <2>3 DEF Chosen
<1> QED BY <1>1, <1>2, <1>3 DEF Inv, Sched

LEMMA SwitchContextInv == Inv /\ SwitchContext => Inv'
<1> SUFFICES ASSUME Inv, SwitchContext PROVE Inv'
  OBVIOUS
<1> USE DEF Inv
<1>1. PICK p : p = TopReadyPriority
  OBVIOUS
<1>2. /\ p \in Priorities /\ ready[p] # <<>>
      /\ \A q \in Priorities : q > p => ready[q] = <<>>
      /\ Priority[Clockd] <= p
  BY <1>1, TopReady, Facts DEF Sched
<1>3. /\ ready[p] \in Seq(Level(p)) /\ index[p] \in 0 .. Len(ready[p])
      /\ index \in [Priorities -> Nat]
  BY <1>2 DEF Listed
<1>4. PICK n : n = NextEntry(p)
  OBVIOUS
<1>5. n \in 1 .. Len(ready[p])
  <2>1. Len(ready[p]) \in Nat /\ Len(ready[p]) # 0
    BY <1>2, <1>3
  <2> QED BY <1>3, <1>4, <2>1 DEF NextEntry
<1>6. /\ ~masked /\ running' = ready[p][n] /\ index' = [index EXCEPT ![p] = n]
      /\ UNCHANGED <<ready, systick, masked, delay, created, deleted>> /\ pendsv' = FALSE
  BY <1>1, <1>4 DEF SwitchContext
<1>7. running' \in Tasks /\ Priority[running'] = p
  <2>1. ready[p][n] \in Level(p)
    BY <1>3, <1>5
  <2> QED BY <1>6, <2>1 DEF Level
<1>8. \A u : IsReady(u)' <=> IsReady(u)
  BY <1>6 DEF IsReady
<1>9. Listed'
  <2>1. index' \in [Priorities -> Nat]
    <3>1. n \in Nat
      BY <1>3, <1>5
    <3> QED BY ONLY <1>3, <1>6, <3>1
  <2>2. ASSUME NEW q \in Priorities PROVE index'[q] \in 0 .. Len(ready[q])
    <3>1. index[q] \in 0 .. Len(ready[q])
      BY DEF Listed
    <3>2. CASE q = p
      <4>1. index'[q] = n
        BY <1>3, <1>6, <3>2
      <4> QED BY <1>5, <3>2, <4>1
    <3>3. CASE q # p
      <4>1. index'[q] = index[q]
        BY <1>3, <1>6, <3>3
      <4> QED BY <3>1, <4>1
    <3> QED BY <3>2, <3>3
  <2>3. ready' = ready
    BY <1>6
  <2> QED BY <2>1, <2>2, <2>3 DEF Listed, Level
<1>10. Others'
  BY <1>6, <1>7 DEF Others
<1>11. Chosen'
  <2>1. IsReady(running')
    <3>1. n \in DOMAIN ready[p] /\ ready[p][n] = running'
      BY <1>3, <1>5, <1>6
    <3> QED BY <1>7, <3>1 DEF IsReady
  <2>2. IsReady(running)'
    BY <1>6, <2>1 DEF IsReady
  <2>3. ASSUME NEW u \in Tasks, IsReady(u)' PROVE Priority[u] <= p
    <3>1. IsReady(u)
      BY <1>8, <2>3
    <3> QED BY <1>1, <3>1, TopReady
  <2> QED BY <1>7, <2>2, <2>3 DEF Chosen
<1>12. running' # Idle
  <2>1. Priority[Clockd] > Priority[Idle] /\ Priority[Clockd] \in Nat /\ Priority[Idle] \in Nat /\ p \in Nat
    BY <1>2, Facts
  <2>2. p # Priority[Idle]
    BY ONLY <1>2, <2>1
  <2> QED BY <1>7, <2>2
<1>13. Sched'
  BY <1>6, <1>8, <1>11, <1>12 DEF Sched
<1> QED BY <1>9, <1>10, <1>13

LEMMA SysTickInv == Inv /\ SysTick => Inv'
<1> SUFFICES ASSUME Inv, SysTick PROVE Inv'
  OBVIOUS
<1>1. /\ UNCHANGED <<lists, running, pendsv, masked, delay, created, deleted>> /\ systick' = TRUE
  BY DEF SysTick
<1>2. Listed' /\ \A u \in Tasks : IsReady(u)' <=> IsReady(u)
  BY <1>1, Unaltered DEF Inv
<1>3. Others'
  BY <1>1 DEF Inv, Others
<1>4. Sched'
  <2>1. masked => running = Clockd
    BY DEF Inv, Sched
  <2> QED BY <1>1, <1>2, <2>1, Same
<1> QED BY <1>2, <1>3, <1>4 DEF Inv

LEMMA IncrementTickInv == Inv /\ IncrementTick => Inv'
<1> SUFFICES ASSUME Inv, IncrementTick PROVE Inv'
  OBVIOUS
<1>1. /\ ~masked /\ systick' = FALSE
      /\ UNCHANGED <<running, masked, created, deleted>>
      /\ delay' = IF delay = 0 THEN 0 ELSE delay - 1
  BY DEF IncrementTick
<1>2. delay \in 0 .. DelayTicks /\ delay' \in 0 .. DelayTicks /\ (delay' = 0 <=> delay = 0 \/ delay = 1)
  <2>1. delay \in 0 .. DelayTicks /\ DelayTicks \in Nat
    BY Facts DEF Inv, Others
  <2> QED BY ONLY <1>1, <2>1
<1>3. CASE delay = 1
  <2>1. ~IsReady(Sensor)
    BY <1>3 DEF Inv, Sched
  <2>2. PICK preempts \in BOOLEAN :
          MakeReady(Sensor, preempts) /\ (Priority[Sensor] > Priority[running] => preempts)
    <3>1. Priority[Sensor] \in Nat /\ Priority[running] \in Nat
      BY Facts DEF Inv, Others
    <3>2. Priority[Sensor] > Priority[running] => Priority[Sensor] >= Priority[running]
      BY ONLY <3>1
    <3> QED BY <1>3, <3>2 DEF IncrementTick
  <2>3. /\ Listed' /\ pendsv' \in BOOLEAN
        /\ \A u \in Tasks : IsReady(u)' <=> IsReady(u) \/ u = Sensor
        /\ ~pendsv' => Chosen'
    BY <1>1, <2>1, <2>2, MadeReady, Facts
  <2>4. Others'
    BY <1>1, <1>2, <2>3 DEF Inv, Others
  <2>5. Sched'
    <3>1. \A i \in created + 1 .. Len(Services) : ~IsReady(Services[i])'
      BY <2>3, Later DEF Inv, Sched
    <3>2. delay' = 0 <=> IsReady(Sensor)'
      BY <1>2, <1>3, <2>3, Facts
    <3> QED BY <1>1, <2>3, <3>1, <3>2, Facts DEF Inv, Sched
  <2> QED BY <2>3, <2>4, <2>5 DEF Inv
<1>4. CASE delay # 1
  <2>1. UNCHANGED lists /\ pendsv' \in BOOLEAN /\ (~pendsv' => ~pendsv)
    BY <1>4 DEF IncrementTick, Inv, Others
  <2>2. Listed' /\ \A u \in Tasks : IsReady(u)' <=> IsReady(u)
    BY <2>1, Unaltered DEF Inv
  <2>3. Others'
    BY <1>1, <1>2, <2>1 DEF Inv, Others
  <2>4. Sched'
    BY <1>1, <1>2, <1>4, <2>1, <2>2, Same
  <2> QED BY <2>2, <2>3, <2>4 DEF Inv
<1> QED BY <1>3, <1>4

LEMMA WakeInv ==
  ASSUME Inv, NEW t \in Tasks, Wake(t) PROVE Inv'
<1>1. /\ ~masked /\ Waits(t) /\ ~IsReady(t)
      /\ UNCHANGED <<running, systick, masked, delay, created, deleted>>
  BY DEF Wake
<1>2. PICK preempts \in BOOLEAN :
        MakeReady(t, preempts) /\ (Priority[t] > Priority[running] => preempts)
  <2>1. MakeReady(t, Priority[t] > Priority[running])
    BY DEF Wake
  <2>2. (Priority[t] > Priority[running]) \in BOOLEAN
    BY Facts DEF Inv, Others
  <2> QED BY ONLY <2>1, <2>2
<1>3. /\ Listed' /\ pendsv' \in BOOLEAN
      /\ \A u \in Tasks : IsReady(u)' <=> IsReady(u) \/ u = t
      /\ ~pendsv' => Chosen'
  BY <1>1, <1>2, MadeReady
<1>4. /\ t \notin {Clockd, Sensor, Idle}
      /\ \A j \in created + 1 .. Len(Services) : Services[j] # t
  BY <1>1, Waiting
<1>5. Others'
  BY <1>1, <1>3 DEF Inv, Others
<1>6. Sched'
  <2>1. \A i \in created + 1 .. Len(Services) : ~IsReady(Services[i])'
    BY <1>3, <1>4, Later DEF Inv, Sched
  <2> QED BY <1>1, <1>3, <1>4, <2>1, Facts DEF Inv, Sched
<1> QED BY <1>3, <1>5, <1>6 DEF Inv

LEMMA EnterCriticalInv == Inv /\ EnterCritical => Inv'
<1> SUFFICES ASSUME Inv, EnterCritical PROVE Inv'
  OBVIOUS
<1>1. /\ running = Clockd /\ masked' = TRUE
      /\ UNCHANGED <<lists, running, pendsv, systick, delay, created, deleted>>
  BY DEF EnterCritical, Runs
<1>2. Listed' /\ \A u \in Tasks : IsReady(u)' <=> IsReady(u)
  BY <1>1, Unaltered DEF Inv
<1>3. Others'
  BY <1>1 DEF Inv, Others
<1>4. Sched'
  BY <1>1, <1>2, Same
<1> QED BY <1>2, <1>3, <1>4 DEF Inv

LEMMA ExitCriticalInv == Inv /\ ExitCritical => Inv'
<1> SUFFICES ASSUME Inv, ExitCritical PROVE Inv'
  OBVIOUS
<1>1. /\ masked' = FALSE
      /\ UNCHANGED <<lists, running, pendsv, systick, delay, created, deleted>>
  BY DEF ExitCritical
<1>2. Listed' /\ \A u \in Tasks : IsReady(u)' <=> IsReady(u)
  BY <1>1, Unaltered DEF Inv
<1>3. Others'
  BY <1>1 DEF Inv, Others
<1>4. Sched'
  BY <1>1, <1>2, Same
<1> QED BY <1>2, <1>3, <1>4 DEF Inv

LEMMA DelayInv == Inv /\ Delay => Inv'
<1> SUFFICES ASSUME Inv, Delay PROVE Inv'
  OBVIOUS
<1>1. Runs(Sensor) /\ Leave(Sensor) /\ delay' = DelayTicks
      /\ UNCHANGED <<running, systick, masked, created, deleted>>
  BY DEF Delay
<1>2. running = Sensor /\ ~masked /\ IsReady(Sensor)
  BY <1>1, Running, Facts
<1>3. /\ Listed' /\ pendsv' = TRUE
      /\ \A u \in Tasks : IsReady(u)' <=> IsReady(u) /\ u # Sensor
  BY <1>1, <1>2, Left, Facts
<1>4. delay' \in 0 .. DelayTicks /\ delay' # 0
  BY <1>1, Facts
<1>5. Others'
  BY <1>1, <1>3, <1>4 DEF Inv, Others
<1>6. Sched'
  <2>1. \A i \in created + 1 .. Len(Services) : ~IsReady(Services[i])'
    BY <1>3, Later DEF Inv, Sched
  <2> QED BY <1>1, <1>2, <1>3, <1>4, <2>1, Facts DEF Inv, Sched
<1> QED BY <1>3, <1>5, <1>6 DEF Inv

LEMMA BlockInv ==
  ASSUME Inv, NEW t \in Tasks, Block(t) PROVE Inv'
<1>1. Runs(t) /\ Waits(t) /\ Leave(t)
      /\ UNCHANGED <<running, systick, masked, delay, created, deleted>>
  BY DEF Block
<1>2. t \notin {Clockd, Sensor, Idle}
  BY <1>1, Waiting
<1>3. running = t /\ ~masked /\ IsReady(t)
  BY <1>1, <1>2, Running
<1>4. /\ Listed' /\ pendsv' = TRUE
      /\ \A u \in Tasks : IsReady(u)' <=> IsReady(u) /\ u # t
  BY <1>1, <1>3, Left
<1>5. Others'
  BY <1>1, <1>4 DEF Inv, Others
<1>6. Sched'
  <2>1. \A i \in created + 1 .. Len(Services) : ~IsReady(Services[i])'
    BY <1>4, Later DEF Inv, Sched
  <2> QED BY <1>1, <1>2, <1>3, <1>4, <2>1, Facts DEF Inv, Sched
<1> QED BY <1>4, <1>5, <1>6 DEF Inv

LEMMA CreateInv == Inv /\ Create => Inv'
<1> SUFFICES ASSUME Inv, Create PROVE Inv'
  OBVIOUS
<1>1. PICK t : t = Services[created + 1]
  OBVIOUS
<1>2. /\ Runs(Startup) /\ created < Len(Services) /\ created' = created + 1
      /\ MakeReady(t, Priority[t] > Priority[running])
      /\ UNCHANGED <<running, systick, masked, delay, deleted>>
  BY <1>1 DEF Create
<1>3. /\ created \in 0 .. Len(Services) /\ Len(Services) \in Nat
      /\ created + 1 \in 1 .. Len(Services) /\ created + 1 \in created + 1 .. Len(Services)
  <2>1. created \in 0 .. Len(Services) /\ Len(Services) \in Nat
    BY Facts DEF Inv, Others
  <2> QED BY ONLY <1>2, <2>1
<1>4. t \in Tasks \ {Startup, Clockd, Sensor, Idle} /\ ~IsReady(t)
  BY <1>1, <1>3, Facts DEF Inv, Sched
<1>5. PICK preempts \in BOOLEAN :
        MakeReady(t, preempts) /\ (Priority[t] > Priority[running] => preempts)
  <2>1. (Priority[t] > Priority[running]) \in BOOLEAN
    BY <1>4, Facts DEF Inv, Others
  <2> QED BY ONLY <1>2, <2>1
<1>6. /\ Listed' /\ pendsv' \in BOOLEAN
      /\ \A u \in Tasks : IsReady(u)' <=> IsReady(u) \/ u = t
      /\ ~pendsv' => Chosen'
  BY <1>2, <1>4, <1>5, MadeReady
<1>7. Others'
  BY <1>2, <1>3, <1>6 DEF Inv, Others
<1>8. Sched'
  <2>1. ASSUME NEW i \in created + 2 .. Len(Services) PROVE ~IsReady(Services[i])'
    <3>1. i \in 1 .. Len(Services) /\ i \in created + 1 .. Len(Services) /\ i # created + 1
      BY ONLY <1>3
    <3>2. Services[i] \in Tasks /\ Services[i] # t
      BY <1>1, <1>3, <3>1, Facts
    <3>3. ~IsReady(Services[i])
      BY <3>1 DEF Inv, Sched
    <3> QED BY <1>6, <3>2, <3>3
  <2>2. \A i \in created' + 1 .. Len(Services) : ~IsReady(Services[i])'
    <3>1. created' + 1 = created + 2
      BY <1>2, <1>3
    <3> QED BY <2>1, <3>1
  <2> QED BY <1>2, <1>4, <1>6, <2>2, Facts DEF Inv, Sched
<1> QED BY <1>6, <1>7, <1>8 DEF Inv

LEMMA TerminateInv == Inv /\ Terminate => Inv'
<1> SUFFICES ASSUME Inv, Terminate PROVE Inv'
  OBVIOUS
<1>1. Runs(Startup) /\ Leave(Startup) /\ deleted' = TRUE
      /\ UNCHANGED <<running, systick, masked, delay, created>>
  BY DEF Terminate
<1>2. running = Startup /\ ~masked /\ IsReady(Startup)
  BY <1>1, Running, Facts
<1>3. /\ Listed' /\ pendsv' = TRUE
      /\ \A u \in Tasks : IsReady(u)' <=> IsReady(u) /\ u # Startup
  BY <1>1, <1>2, Left, Facts
<1>4. Others'
  BY <1>1, <1>3 DEF Inv, Others
<1>5. Sched'
  <2>1. \A i \in created + 1 .. Len(Services) : ~IsReady(Services[i])'
    BY <1>3, Later DEF Inv, Sched
  <2> QED BY <1>1, <1>2, <1>3, <2>1, Facts DEF Inv, Sched
<1> QED BY <1>3, <1>4, <1>5 DEF Inv

-----------------------------------------------------------------------------
(* Turns *)

Counts == [Tasks -> [Tasks -> 0 .. 2]]

\* What d, the counts of the task at position k, may be while the index is i.
\* The index has still to go round past the marker to reach a task at or before
\* it: no task after the index has passed this one then, and each other at most
\* once.  One after the index is reached before the marker: a task between them
\* has passed it at most once, and passes it once more at most.
Turn(s, i, k, d) ==
  IF k <= i
  THEN /\ \A t \in Tasks : d[t] <= 1
       /\ \A j \in 1 .. Len(s) : i < j => d[s[j]] = 0
  ELSE \A j \in 1 .. Len(s) : i < j /\ j < k => d[s[j]] <= 1

Turns(s, i, c) == \A k \in 1 .. Len(s) : Turn(s, i, k, c[s[k]])

TurnInv == passed \in Counts /\ \A p \in Priorities : Turns(ready[p], index[p], passed)

\* A task that was not passed over keeps its turn.
LEMMA NoTurnLost ==
  ASSUME NEW s \in Seq(Tasks), NEW i, NEW k, NEW d, d = NotPassed
  PROVE  Turn(s, i, k, d)
<1>1. \A t \in Tasks : d[t] = 0
  BY DEF NotPassed
<1>2. \A j \in 1 .. Len(s) : s[j] \in Tasks
  OBVIOUS
<1> QED BY <1>1, <1>2 DEF Turn

\* vListInsertEnd: a task that enters the list does so behind the index, so
\* before no task that the index still has to reach this round.
LEMMA TurnsInserted ==
  ASSUME NEW s \in Seq(Tasks), NEW i \in 0 .. Len(s), NEW t \in Tasks, ~Has(s, t),
         NEW new, Inserted(new, s, i, t), NEW n, n = (IF i = 0 THEN 0 ELSE i + 1),
         NEW c \in Counts, NEW c2, c2 = [c EXCEPT ![t] = NotPassed], Turns(s, i, c)
  PROVE  Turns(new, n, c2)
<1>1. PICK p \in 1 .. Len(s) + 1 : p = IF i = 0 THEN Len(s) + 1 ELSE i
  OBVIOUS
<1>2. /\ new \in Seq(Tasks) /\ Len(new) = Len(s) + 1
      /\ \A j \in 1 .. Len(s) + 1 :
           new[j] = IF j < p THEN s[j] ELSE IF j = p THEN t ELSE s[j - 1]
  BY <1>1, InsertedAt
<1>3. \A j \in 1 .. Len(s) : s[j] # t /\ s[j] \in Tasks
  BY DEF Has
<1> SUFFICES ASSUME NEW k \in 1 .. Len(s) + 1 PROVE Turn(new, n, k, c2[new[k]])
  BY <1>2 DEF Turns
<1>4. CASE k = p
  <2>1. c2[new[k]] = NotPassed
    <3>1. new[k] = t
      BY <1>1, <1>2, <1>4
    <3> QED BY <3>1 DEF Counts
  <2> QED BY <1>2, <2>1, NoTurnLost
<1>5. CASE k # p
  <2>1. PICK m \in 1 .. Len(s) : m = IF k < p THEN k ELSE k - 1
    <3>1. (IF k < p THEN k ELSE k - 1) \in 1 .. Len(s)
      BY <1>1, <1>5
    <3> QED BY <3>1
  <2>2. new[k] = s[m]
    BY <1>2, <1>5, <2>1
  <2>3. PICK d : d = c[s[m]]
    OBVIOUS
  <2>4. c2[new[k]] = d
    BY <1>3, <2>2, <2>3 DEF Counts
  <2>5. Turn(s, i, m, d)
    BY <2>3 DEF Turns
  <2>6. Len(s) \in Nat
    OBVIOUS
  <2>7. k <= n <=> m <= i
    BY ONLY <1>1, <1>5, <2>1, <2>6, i \in 0 .. Len(s), k \in 1 .. Len(s) + 1,
            n = (IF i = 0 THEN 0 ELSE i + 1)
  <2>8. ASSUME NEW j \in 1 .. Len(s) + 1, n < j, m <= i \/ j < k
        PROVE  \E l \in 1 .. Len(s) : new[j] = s[l] /\ i < l /\ (j < k => l < m)
    <3>1. CASE i = 0
      <4>1. p = Len(s) + 1 /\ m = k /\ j < k
        BY ONLY <1>1, <1>5, <2>1, <2>6, <2>8, <3>1, k \in 1 .. Len(s) + 1
      <4>2. j \in 1 .. Len(s) /\ j < p
        BY ONLY <2>6, <2>8, <4>1, k \in 1 .. Len(s) + 1
      <4>3. new[j] = s[j]
        BY <1>2, <4>2
      <4> QED BY <3>1, <4>1, <4>2, <4>3
    <3>2. CASE i # 0
      <4>1. n = i + 1 /\ p = i
        BY <1>1, <3>2
      <4>2. PICK l \in 1 .. Len(s) : l = j - 1
        <5>1. j - 1 \in 1 .. Len(s)
          BY ONLY <2>6, <2>8, <4>1, <3>2, i \in 0 .. Len(s)
        <5> QED BY <5>1
      <4>3. ~(j < p) /\ j # p /\ i < l /\ (j < k => l < m)
        BY ONLY <2>1, <2>6, <2>8, <3>2, <4>1, <4>2, i \in 0 .. Len(s), k \in 1 .. Len(s) + 1
      <4>4. new[j] = s[l]
        BY <1>2, <4>2, <4>3
      <4> QED BY <4>3, <4>4
    <3> QED BY <3>1, <3>2
  <2>9. Turn(new, n, k, d)
    <3>1. CASE m <= i
      <4>1. ASSUME NEW j \in 1 .. Len(s) + 1, n < j PROVE d[new[j]] = 0
        <5>1. PICK l \in 1 .. Len(s) : new[j] = s[l] /\ i < l
          BY <2>8, <3>1, <4>1
        <5> QED BY <2>5, <3>1, <5>1 DEF Turn
      <4> QED BY <1>2, <2>5, <2>7, <3>1, <4>1 DEF Turn
    <3>2. CASE ~(m <= i)
      <4>1. ASSUME NEW j \in 1 .. Len(s) + 1, n < j, j < k PROVE d[new[j]] <= 1
        <5>1. PICK l \in 1 .. Len(s) : new[j] = s[l] /\ i < l /\ l < m
          BY <2>8, <4>1
        <5> QED BY <2>5, <3>2, <5>1 DEF Turn
      <4> QED BY <1>2, <2>7, <3>2, <4>1 DEF Turn
    <3> QED BY <3>1, <3>2
  <2> QED BY <2>4, <2>9
<1> QED BY <1>4, <1>5

\* uxListRemove moves the index back with the tasks behind it, and past none.
LEMMA TurnsRemoved ==
  ASSUME NEW s \in Seq(Tasks), NEW i \in 0 .. Len(s), NEW x \in 1 .. Len(s),
         NEW new, new = RemoveAt(s, x), NEW n, n = (IF x <= i THEN i - 1 ELSE i),
         NEW c \in Counts, Turns(s, i, c)
  PROVE  Turns(new, n, c)
<1>1. /\ new \in Seq(Tasks) /\ Len(new) = Len(s) - 1
      /\ \A j \in 1 .. Len(s) - 1 : new[j] = IF j < x THEN s[j] ELSE s[j + 1]
  BY RemovedAt
<1>2. Len(s) \in Nat
  OBVIOUS
<1> SUFFICES ASSUME NEW k \in 1 .. Len(s) - 1 PROVE Turn(new, n, k, c[new[k]])
  BY <1>1 DEF Turns
<1>3. PICK m \in 1 .. Len(s) : m = IF k < x THEN k ELSE k + 1
  <2>1. (IF k < x THEN k ELSE k + 1) \in 1 .. Len(s)
    BY <1>2
  <2> QED BY <2>1
<1>4. new[k] = s[m]
  BY <1>1, <1>3
<1>5. PICK d : d = c[s[m]]
  OBVIOUS
<1>6. Turn(s, i, m, d)
  BY <1>5 DEF Turns
<1>7. k <= n <=> m <= i
  BY ONLY <1>2, <1>3, i \in 0 .. Len(s), k \in 1 .. Len(s) - 1, x \in 1 .. Len(s),
          n = (IF x <= i THEN i - 1 ELSE i)
<1>8. ASSUME NEW j \in 1 .. Len(s) - 1, n < j
      PROVE  \E l \in 1 .. Len(s) : new[j] = s[l] /\ i < l /\ (j < k => l < m)
  <2>1. PICK l \in 1 .. Len(s) : l = IF j < x THEN j ELSE j + 1
    <3>1. (IF j < x THEN j ELSE j + 1) \in 1 .. Len(s)
      BY <1>2
    <3> QED BY <3>1
  <2>2. i < l /\ (j < k => l < m)
    BY ONLY <1>2, <1>3, <1>8, <2>1, i \in 0 .. Len(s), k \in 1 .. Len(s) - 1, x \in 1 .. Len(s),
            n = (IF x <= i THEN i - 1 ELSE i)
  <2>3. new[j] = s[l]
    BY <1>1, <2>1
  <2> QED BY <2>2, <2>3
<1>9. Turn(new, n, k, d)
  <2>1. CASE m <= i
    <3>1. ASSUME NEW j \in 1 .. Len(s) - 1, n < j PROVE d[new[j]] = 0
      <4>1. PICK l \in 1 .. Len(s) : new[j] = s[l] /\ i < l
        BY <1>8, <3>1
      <4> QED BY <1>6, <2>1, <4>1 DEF Turn
    <3> QED BY <1>1, <1>6, <1>7, <2>1, <3>1 DEF Turn
  <2>2. CASE ~(m <= i)
    <3>1. ASSUME NEW j \in 1 .. Len(s) - 1, n < j, j < k PROVE d[new[j]] <= 1
      <4>1. PICK l \in 1 .. Len(s) : new[j] = s[l] /\ i < l /\ l < m
        BY <1>8, <3>1
      <4> QED BY <1>6, <2>2, <4>1 DEF Turn
    <3> QED BY <1>1, <1>7, <2>2, <3>1 DEF Turn
  <2> QED BY <2>1, <2>2
<1> QED BY <1>4, <1>5, <1>9

\* One more turn of t among the counts of a task that did not get it.
PassedBy(d2, d, t) == d2 = [d EXCEPT ![t] = IF d[t] = 3 THEN 3 ELSE d[t] + 1]

\* listGET_OWNER_OF_NEXT_ENTRY: the task at n is chosen, and passes the others.
LEMMA TurnTaken ==
  ASSUME NEW s \in Seq(Tasks), IsInjective(s), NEW i \in 0 .. Len(s),
         NEW n \in 1 .. Len(s), n = (IF i < Len(s) THEN i + 1 ELSE 1),
         NEW k \in 1 .. Len(s), k # n,
         NEW d \in [Tasks -> 0 .. 2], Turn(s, i, k, d),
         NEW d2, PassedBy(d2, d, s[n])
  PROVE  d2 \in [Tasks -> 0 .. 2] /\ Turn(s, n, k, d2)
<1>1. /\ Len(s) \in Nat /\ \A j \in 1 .. Len(s) : s[j] \in Tasks
      /\ \A j, l \in 1 .. Len(s) : s[j] = s[l] => j = l
  BY DEF IsInjective
<1>2. PICK t \in Tasks : t = s[n]
  BY <1>1
<1>3. d[t] \in 0 .. 2 /\ \A j \in 1 .. Len(s) : j # n => s[j] # t
  BY <1>1, <1>2
<1>4. d[t] <= 1 /\ (k <= i /\ i < Len(s) => d[t] = 0)
  <2>1. CASE k <= i /\ i < Len(s)
    <3>1. i < n
      BY <2>1
    <3>2. d[s[n]] = 0
      BY <2>1, <3>1 DEF Turn
    <3> QED BY <1>2, <3>2
  <2>2. CASE k <= i /\ ~(i < Len(s))
    BY <2>2 DEF Turn
  <2>3. CASE ~(k <= i)
    <3>1. i < n /\ n < k
      BY <1>1, <2>3
    <3>2. d[s[n]] <= 1
      BY <2>3, <3>1 DEF Turn
    <3> QED BY <1>2, <2>3, <3>2
  <2> QED BY <2>1, <2>2, <2>3
<1>5. PICK e \in 0 .. 2 : e = d[t] + 1
  BY <1>3, <1>4
<1>6. /\ d2 = [d EXCEPT ![t] = e]
      /\ d2 \in [Tasks -> 0 .. 2]
      /\ d2[t] = e /\ \A u \in Tasks : u # t => d2[u] = d[u]
  <2>1. d[t] # 3
    BY <1>3
  <2>2. d2 = [d EXCEPT ![t] = e]
    BY <1>2, <1>5, <2>1 DEF PassedBy
  <2>3. d2[t] = e /\ \A u \in Tasks : u # t => d2[u] = d[u]
    BY <2>2
  <2>4. d2 \in [Tasks -> 0 .. 2]
    BY ONLY <2>2, d \in [Tasks -> 0 .. 2], e \in 0 .. 2
  <2> QED BY <2>2, <2>3, <2>4
<1>7. \A j \in 1 .. Len(s) : j # n => d2[s[j]] = d[s[j]]
  BY <1>1, <1>3, <1>6
<1>8. Turn(s, n, k, d2)
  <2>1. CASE k <= i /\ i < Len(s)
    <3>1. n = i + 1 /\ k <= n /\ e = 1
      BY <1>3, <1>4, <1>5, <2>1
    <3>2. \A u \in Tasks : d2[u] <= 1
      BY <1>6, <2>1, <3>1 DEF Turn
    <3>3. ASSUME NEW j \in 1 .. Len(s), n < j PROVE d2[s[j]] = 0
      <4>1. i < j /\ j # n
        BY <3>1, <3>3
      <4>2. d[s[j]] = 0
        BY <2>1, <4>1 DEF Turn
      <4> QED BY <1>7, <4>1, <4>2
    <3> QED BY <3>1, <3>2, <3>3 DEF Turn
  <2>2. CASE k <= i /\ ~(i < Len(s))
    <3>1. n = 1 /\ ~(k <= n)
      BY <2>2
    <3>2. ASSUME NEW j \in 1 .. Len(s), n < j, j < k PROVE d2[s[j]] <= 1
      <4>1. j # n /\ s[j] \in Tasks
        BY <1>1, <3>2
      <4>2. d[s[j]] <= 1
        BY <2>2, <4>1 DEF Turn
      <4> QED BY <1>7, <4>1, <4>2
    <3> QED BY <3>1, <3>2 DEF Turn
  <2>3. CASE ~(k <= i)
    <3>1. n = i + 1 /\ ~(k <= n)
      BY <1>1, <2>3
    <3>2. ASSUME NEW j \in 1 .. Len(s), n < j, j < k PROVE d2[s[j]] <= 1
      <4>1. i < j /\ j # n
        BY <3>1, <3>2
      <4>2. d[s[j]] <= 1
        BY <2>3, <3>2, <4>1 DEF Turn
      <4> QED BY <1>7, <4>1, <4>2
    <3> QED BY <3>1, <3>2 DEF Turn
  <2> QED BY <2>1, <2>2, <2>3
<1> QED BY <1>6, <1>8

\* What does not change the lists changes no turn.
LEMMA TurnsSame ==
  ASSUME TurnInv, UNCHANGED <<lists, passed>> PROVE TurnInv'
<1>1. ready' = ready /\ index' = index /\ passed' = passed
  BY DEF lists
<1> QED BY <1>1 DEF TurnInv, Turns, Turn

LEMMA TurnsEntered ==
  ASSUME Inv, TurnInv, NEW t \in Tasks, ~IsReady(t), NEW b, MakeReady(t, b)
  PROVE  TurnInv'
<1>1. PICK p \in Priorities : p = Priority[t]
  BY Facts
<1>2. PICK n : n = IF index[p] = 0 THEN 0 ELSE index[p] + 1
  OBVIOUS
<1>3. /\ ready' = [ready EXCEPT ![p] = ready'[p]]
      /\ Inserted(ready'[p], ready[p], index[p], t)
      /\ index' = [index EXCEPT ![p] = n]
      /\ passed' = [passed EXCEPT ![t] = NotPassed]
  BY <1>1, <1>2 DEF MakeReady, vListInsertEnd, Inserted, Inv, Listed
<1>4. /\ ready[p] \in Seq(Tasks) /\ index[p] \in 0 .. Len(ready[p])
      /\ ~Has(ready[p], t) /\ passed \in Counts
  BY <1>1, ReadyHas DEF Inv, Listed, TurnInv
<1>5. passed' \in Counts
  <2>1. NotPassed \in [Tasks -> 0 .. 2]
    BY DEF NotPassed
  <2> QED BY <1>3, <1>4, <2>1 DEF Counts
<1>6. ASSUME NEW q \in Priorities PROVE Turns(ready'[q], index'[q], passed')
  <2>1. Turns(ready[q], index[q], passed)
    BY DEF TurnInv
  <2>2. CASE q = p
    <3>1. index'[p] = n
      BY <1>3 DEF Inv, Listed
    <3>2. Turns(ready'[p], n, passed')
      <4>1. PICK s, new, i, c, c2 :
              /\ s = ready[p] /\ new = ready'[p] /\ i = index[p] /\ c = passed /\ c2 = passed'
        OBVIOUS
      <4>2. /\ s \in Seq(Tasks) /\ i \in 0 .. Len(s) /\ t \in Tasks /\ ~Has(s, t)
            /\ Inserted(new, s, i, t) /\ n = (IF i = 0 THEN 0 ELSE i + 1)
            /\ c \in Counts /\ c2 = [c EXCEPT ![t] = NotPassed] /\ Turns(s, i, c)
        BY ONLY <1>2, <1>3, <1>4, <2>1, <2>2, <4>1, t \in Tasks
      <4>3. Turns(new, n, c2)
        BY ONLY <4>2, TurnsInserted
      <4> QED BY ONLY <4>1, <4>3
    <3> QED BY <2>2, <3>1, <3>2
  <2>3. CASE q # p
    <3>1. ready'[q] = ready[q] /\ index'[q] = index[q]
      BY <1>3, <2>3 DEF Inv, Listed
    <3>2. \A k \in 1 .. Len(ready[q]) : passed'[ready[q][k]] = passed[ready[q][k]]
      <4>1. ready[q] \in Seq(Level(q))
        BY DEF Inv, Listed
      <4>2. ASSUME NEW k \in 1 .. Len(ready[q])
            PROVE  ready[q][k] \in Tasks /\ ready[q][k] # t
        <5>1. ready[q][k] \in Level(q)
          BY <4>1
        <5> QED BY <1>1, <2>3, <5>1 DEF Level
      <4> QED BY <1>3, <1>4, <4>2 DEF Counts
    <3> QED BY <2>1, <3>1, <3>2 DEF Turns
  <2> QED BY <2>2, <2>3
<1> QED BY <1>5, <1>6 DEF TurnInv

LEMMA TurnsLeft ==
  ASSUME Inv, TurnInv, NEW t \in Tasks, IsReady(t), Leave(t), passed' = passed
  PROVE  TurnInv'
<1>1. PICK p \in Priorities : p = Priority[t]
  BY Facts
<1>2. PICK i \in DOMAIN ready[p] :
        /\ ready' = [ready EXCEPT ![p] = RemoveAt(ready[p], i)]
        /\ index' = [index EXCEPT ![p] = IF i <= index[p] THEN index[p] - 1 ELSE index[p]]
  BY <1>1 DEF Leave, uxListRemove, IsReady
<1>3. /\ ready[p] \in Seq(Tasks) /\ index[p] \in 0 .. Len(ready[p])
      /\ i \in 1 .. Len(ready[p]) /\ passed \in Counts
  <2>1. ready[p] \in Seq(Tasks) /\ index[p] \in 0 .. Len(ready[p])
    BY DEF Inv, Listed
  <2>2. DOMAIN ready[p] = 1 .. Len(ready[p])
    BY <2>1
  <2> QED BY <2>1, <2>2 DEF TurnInv
<1>4. /\ ready'[p] = RemoveAt(ready[p], i)
      /\ index'[p] = IF i <= index[p] THEN index[p] - 1 ELSE index[p]
      /\ \A q \in Priorities : q # p => ready'[q] = ready[q] /\ index'[q] = index[q]
  BY <1>2 DEF Inv, Listed
<1>5. \A q \in Priorities : Turns(ready[q], index[q], passed)
  BY DEF TurnInv
<1>6. Turns(ready'[p], index'[p], passed)
  BY <1>3, <1>4, <1>5, TurnsRemoved
<1> QED BY <1>3, <1>4, <1>5, <1>6 DEF TurnInv

LEMMA TurnsSwitched ==
  ASSUME Inv, TurnInv, SwitchContext PROVE TurnInv'
<1>1. PICK p : p = TopReadyPriority
  OBVIOUS
<1>2. p \in Priorities /\ ready[p] # <<>>
  BY <1>1, TopReady, Facts DEF Inv, Sched
<1>3. /\ ready[p] \in Seq(Level(p)) /\ ready[p] \in Seq(Tasks) /\ IsInjective(ready[p])
      /\ index[p] \in 0 .. Len(ready[p]) /\ index \in [Priorities -> Nat]
      /\ DOMAIN ready[p] = 1 .. Len(ready[p]) /\ passed \in Counts
  <2>1. /\ ready[p] \in Seq(Level(p)) /\ ready[p] \in Seq(Tasks) /\ IsInjective(ready[p])
        /\ index[p] \in 0 .. Len(ready[p]) /\ index \in [Priorities -> Nat]
    BY <1>2 DEF Inv, Listed
  <2> QED BY <2>1 DEF TurnInv
<1>4. PICK n : n = NextEntry(p)
  OBVIOUS
<1>5. n \in 1 .. Len(ready[p]) /\ n = IF index[p] < Len(ready[p]) THEN index[p] + 1 ELSE 1
  <2>1. Len(ready[p]) \in Nat /\ Len(ready[p]) # 0
    BY <1>2, <1>3
  <2> QED BY <1>3, <1>4, <2>1 DEF NextEntry
<1>6. PICK t : t = ready[p][n]
  OBVIOUS
<1>7. /\ ready' = ready /\ index' = [index EXCEPT ![p] = n]
      /\ passed' = [u \in Tasks |->
           IF u = t THEN NotPassed
           ELSE IF Priority[u] = p /\ IsReady(u)
                THEN [passed[u] EXCEPT ![t] = IF passed[u][t] = 3 THEN 3 ELSE passed[u][t] + 1]
                ELSE passed[u]]
  BY <1>1, <1>4, <1>6 DEF SwitchContext
<1>8. ASSUME NEW k \in 1 .. Len(ready[p]), k # n
      PROVE  /\ passed'[ready[p][k]] \in [Tasks -> 0 .. 2]
             /\ Turn(ready[p], n, k, passed'[ready[p][k]])
  <2>1. PICK u : u = ready[p][k]
    OBVIOUS
  <2>2. u \in Tasks /\ Priority[u] = p /\ IsReady(u) /\ u # t
    <3>1. u \in Level(p)
      BY <1>3, <2>1
    <3>2. u # t
      BY <1>3, <1>5, <1>6, <1>8, <2>1 DEF IsInjective
    <3>3. u \in Tasks /\ Priority[u] = p
      BY <3>1 DEF Level
    <3>4. IsReady(u)
      BY <1>3, <2>1, <3>3 DEF IsReady
    <3> QED BY <3>2, <3>3, <3>4
  <2>3. passed'[u] = [passed[u] EXCEPT ![t] = IF passed[u][t] = 3 THEN 3 ELSE passed[u][t] + 1]
    BY <1>7, <2>2
  <2>4. passed[u] \in [Tasks -> 0 .. 2]
    BY <1>3, <2>2 DEF Counts
  <2>5. Turn(ready[p], index[p], k, passed[u])
    BY <1>2, <2>1 DEF TurnInv, Turns
  <2>6. passed'[u] \in [Tasks -> 0 .. 2] /\ Turn(ready[p], n, k, passed'[u])
    <3>1. PICK s, i, d, d2 : s = ready[p] /\ i = index[p] /\ d = passed[u] /\ d2 = passed'[u]
      OBVIOUS
    <3>2. /\ s \in Seq(Tasks) /\ IsInjective(s) /\ i \in 0 .. Len(s)
          /\ n \in 1 .. Len(s) /\ n = (IF i < Len(s) THEN i + 1 ELSE 1)
          /\ k \in 1 .. Len(s) /\ k # n
          /\ d \in [Tasks -> 0 .. 2] /\ Turn(s, i, k, d)
      BY <1>3, <1>5, <1>8, <2>4, <2>5, <3>1
    <3>3. PassedBy(d2, d, s[n])
      BY <1>6, <2>3, <3>1 DEF PassedBy
    <3>4. d2 \in [Tasks -> 0 .. 2] /\ Turn(s, n, k, d2)
      BY ONLY <3>2, <3>3, TurnTaken
    <3> QED BY ONLY <3>1, <3>4
  <2> QED BY <2>1, <2>6
<1>9. t \in Tasks /\ Priority[t] = p /\ passed'[t] = NotPassed
  <2>1. t \in Level(p)
    BY <1>3, <1>5, <1>6
  <2> QED BY <1>7, <2>1 DEF Level
<1>10. ASSUME NEW u \in Tasks PROVE passed'[u] \in [Tasks -> 0 .. 2]
  <2>1. CASE u = t
    BY <1>9, <2>1 DEF NotPassed
  <2>2. CASE u # t /\ Priority[u] = p /\ IsReady(u)
    <3>1. PICK k \in 1 .. Len(ready[p]) : ready[p][k] = u
      BY <1>3, <2>2 DEF IsReady
    <3> QED BY <1>6, <1>8, <2>2, <3>1
  <2>3. CASE u # t /\ ~(Priority[u] = p /\ IsReady(u))
    <3>1. passed'[u] = passed[u]
      BY <1>7, <2>3
    <3> QED BY <1>3, <3>1 DEF Counts
  <2> QED BY <2>1, <2>2, <2>3
<1>11. passed' \in Counts
  <2>1. \E g : passed' = [u \in Tasks |-> g[u]]
    <3>1. passed' = [u \in Tasks |-> passed'[u]]
      BY <1>7
    <3> QED BY <3>1
  <2> QED BY <1>10, <2>1 DEF Counts
<1>12. ASSUME NEW q \in Priorities PROVE Turns(ready'[q], index'[q], passed')
  <2>1. CASE q = p
    <3>1. index'[p] = n
      BY <1>2, <1>3, <1>7
    <3>2. Turn(ready[p], n, n, passed'[ready[p][n]])
      BY <1>3, <1>6, <1>9, NoTurnLost
    <3> QED BY <1>7, <1>8, <2>1, <3>1, <3>2 DEF Turns
  <2>2. CASE q # p
    <3>1. index'[q] = index[q]
      BY <1>3, <1>7, <2>2
    <3>2. ASSUME NEW k \in 1 .. Len(ready[q]) PROVE passed'[ready[q][k]] = passed[ready[q][k]]
      <4>1. ready[q][k] \in Level(q)
        BY DEF Inv, Listed
      <4>2. ready[q][k] \in Tasks /\ Priority[ready[q][k]] = q
        BY <4>1 DEF Level
      <4> QED BY <1>7, <1>9, <2>2, <4>2
    <3>3. Turns(ready[q], index[q], passed)
      BY DEF TurnInv
    <3> QED BY <1>7, <3>1, <3>2, <3>3 DEF Turns
  <2> QED BY <2>1, <2>2
<1> QED BY <1>11, <1>12 DEF TurnInv

-----------------------------------------------------------------------------
(* Theorems *)

LEMMA Invariance == Spec => []Inv
<1>1. Inv /\ [Next]_vars => Inv'
  <2> SUFFICES ASSUME Inv, [Next]_vars PROVE Inv'
    OBVIOUS
  <2>1. CASE SwitchContext  BY <2>1, SwitchContextInv
  <2>2. CASE SysTick  BY <2>2, SysTickInv
  <2>3. CASE IncrementTick  BY <2>3, IncrementTickInv
  <2>4. CASE EnterCritical  BY <2>4, EnterCriticalInv
  <2>5. CASE ExitCritical  BY <2>5, ExitCriticalInv
  <2>6. CASE Delay  BY <2>6, DelayInv
  <2>7. CASE Create  BY <2>7, CreateInv
  <2>8. CASE Terminate  BY <2>8, TerminateInv
  <2>9. ASSUME NEW t \in Tasks, Block(t) PROVE Inv'
    BY <2>9, BlockInv
  <2>10. ASSUME NEW t \in Tasks, Wake(t) PROVE Inv'
    BY <2>10, WakeInv
  <2>11. CASE UNCHANGED vars
    <3>1. UNCHANGED <<lists, running, pendsv, systick, masked, delay, created, deleted>>
      BY <2>11 DEF vars
    <3>2. Listed' /\ \A u \in Tasks : IsReady(u)' <=> IsReady(u)
      BY <3>1, Unaltered DEF Inv
    <3>3. Others'
      BY <3>1 DEF Inv, Others
    <3>4. Sched'
      <4>1. masked => running = Clockd
        BY DEF Inv, Sched
      <4> QED BY <3>1, <3>2, <4>1, Same
    <3> QED BY <3>2, <3>3, <3>4 DEF Inv
  <2> QED
    BY <2>1, <2>2, <2>3, <2>4, <2>5, <2>6, <2>7, <2>8, <2>9, <2>10, <2>11 DEF Next, Step
<1> QED BY <1>1, InitInv, PTL DEF Spec

\* Every list holds ready tasks of its priority, each once, and its index stays
\* on it, whatever tasks leave and enter it (vListInsertEnd, uxListRemove).
THEOREM TypeCorrect == Spec => []TypeOK
<1>1. Inv => TypeOK
  BY DEF Inv, Listed, Others, TypeOK, Level
<1> QED BY <1>1, Invariance, PTL

\* Unless a switch is pending, the task that runs is ready and no ready task has
\* a higher priority (vTaskSwitchContext and every way to become ready).
THEOREM HighestRunning == Spec => []HighestRuns
<1>1. Inv => HighestRuns
  <2> SUFFICES ASSUME Inv, ~pendsv
               PROVE  /\ IsReady(running)
                      /\ \A p \in Priorities : p > Priority[running] => ready[p] = <<>>
    BY DEF HighestRuns
  <2>1. Chosen /\ Listed
    BY DEF Inv, Sched
  <2>2. running \in Tasks /\ Priority[running] \in Nat
    BY Facts DEF Inv, Others
  <2>3. ASSUME NEW p \in Priorities, p > Priority[running] PROVE ready[p] = <<>>
    <3>1. ASSUME NEW t \in Tasks, IsReady(t) PROVE Priority[t] # p
      <4>1. Priority[t] <= Priority[running] /\ Priority[t] \in Nat /\ p \in Nat
        BY <2>1, <3>1, Facts DEF Chosen
      <4> QED BY ONLY <2>2, <2>3, <4>1
    <3> QED BY <2>1, <3>1, EmptyList
  <2> QED BY <2>1, <2>3 DEF Chosen
<1> QED BY <1>1, Invariance, PTL

\* Neither the running task nor the scheduler's next choice is the idle task.
IdleNeverChosen == running # Idle /\ TopReadyPriority # Priority[Idle]

\* CLOCK_thread (main.c:355) is always ready above it, so the idle task never
\* runs: the memory of startup_task, which deletes itself, is never freed.
THEOREM IdleNeverRuns == Spec => []IdleNeverChosen
<1>1. Inv => IdleNeverChosen
  <2> SUFFICES ASSUME Inv PROVE running # Idle /\ TopReadyPriority # Priority[Idle]
    BY DEF IdleNeverChosen
  <2>1. TopReadyPriority \in Priorities /\ Priority[Clockd] <= TopReadyPriority
    BY TopReady, Facts DEF Inv, Sched
  <2>2. /\ Priority[Clockd] > Priority[Idle] /\ Priority[Clockd] \in Nat
        /\ Priority[Idle] \in Nat /\ TopReadyPriority \in Nat
    BY <2>1, Facts
  <2>3. TopReadyPriority # Priority[Idle]
    BY ONLY <2>1, <2>2
  <2> QED BY <2>3 DEF Inv, Sched
<1> QED BY <1>1, Invariance, PTL

\* vTaskSwitchContext gives the tasks of one priority their turns, whatever tasks
\* leave the list and enter it: none is passed over more than twice for another.
THEOREM EveryoneInTurn == Spec => []TakesTurns
<1>1. Init => TurnInv
  <2> SUFFICES ASSUME Init PROVE TurnInv
    OBVIOUS
  <2>1. passed = [t \in Tasks |-> NotPassed] /\ NotPassed \in [Tasks -> 0 .. 2]
    BY DEF Init, NotPassed
  <2>2. ASSUME NEW p \in Priorities PROVE Turns(ready[p], index[p], passed)
    <3>1. ready[p] \in Seq(Tasks)
      BY InitInv DEF Inv, Listed
    <3>2. \A k \in 1 .. Len(ready[p]) : passed[ready[p][k]] = NotPassed
      BY <2>1, <3>1
    <3> QED BY <3>1, <3>2, NoTurnLost DEF Turns
  <2> QED BY <2>1, <2>2 DEF TurnInv, Counts
<1>2. Inv /\ TurnInv /\ [Next]_vars => TurnInv'
  <2> SUFFICES ASSUME Inv, TurnInv, [Next]_vars PROVE TurnInv'
    OBVIOUS
  <2>1. CASE SwitchContext  BY <2>1, TurnsSwitched
  <2>2. CASE SysTick  BY <2>2, TurnsSame DEF SysTick
  <2>3. CASE IncrementTick
    <3>1. CASE delay = 1
      <4>1. ~IsReady(Sensor) /\ Sensor \in Tasks
        BY <3>1, Facts DEF Inv, Sched
      <4>2. \E b : MakeReady(Sensor, b)
        BY <2>3, <3>1 DEF IncrementTick
      <4> QED BY <4>1, <4>2, TurnsEntered
    <3>2. CASE delay # 1
      BY <2>3, <3>2, TurnsSame DEF IncrementTick
    <3> QED BY <3>1, <3>2
  <2>4. CASE EnterCritical  BY <2>4, TurnsSame DEF EnterCritical
  <2>5. CASE ExitCritical  BY <2>5, TurnsSame DEF ExitCritical
  <2>6. CASE Delay
    <3>1. Sensor \in Tasks /\ IsReady(Sensor)
      BY <2>6, Running, Facts DEF Delay
    <3> QED BY <2>6, <3>1, TurnsLeft DEF Delay
  <2>7. CASE Create
    <3>1. PICK t : t = Services[created + 1]
      OBVIOUS
    <3>2. created + 1 \in created + 1 .. Len(Services)
      <4>1. created \in 0 .. Len(Services) /\ Len(Services) \in Nat /\ created < Len(Services)
        BY <2>7, Facts DEF Inv, Others, Create
      <4> QED BY ONLY <4>1
    <3>3. t \in Tasks /\ ~IsReady(t)
      BY <3>1, <3>2, Later DEF Inv, Sched
    <3>4. \E b : MakeReady(t, b)
      BY <2>7, <3>1 DEF Create
    <3> QED BY <3>3, <3>4, TurnsEntered
  <2>8. CASE Terminate
    <3>1. Startup \in Tasks /\ IsReady(Startup)
      BY <2>8, Running, Facts DEF Terminate
    <3> QED BY <2>8, <3>1, TurnsLeft DEF Terminate
  <2>9. ASSUME NEW t \in Tasks, Block(t) PROVE TurnInv'
    <3>1. IsReady(t)
      BY <2>9, Waiting, Running DEF Block
    <3> QED BY <2>9, <3>1, TurnsLeft DEF Block
  <2>10. ASSUME NEW t \in Tasks, Wake(t) PROVE TurnInv'
    <3>1. \E b : MakeReady(t, b)
      BY <2>10 DEF Wake
    <3> QED BY <2>10, <3>1, TurnsEntered DEF Wake
  <2>11. CASE UNCHANGED vars  BY <2>11, TurnsSame DEF vars
  <2> QED
    BY <2>1, <2>2, <2>3, <2>4, <2>5, <2>6, <2>7, <2>8, <2>9, <2>10, <2>11 DEF Next, Step
<1>3. TurnInv => TakesTurns
  BY DEF TurnInv, TakesTurns, Counts
<1>4. Spec => []TurnInv
  BY <1>1, <1>2, Invariance, PTL DEF Spec
<1> QED BY <1>3, <1>4, PTL

=============================================================================
