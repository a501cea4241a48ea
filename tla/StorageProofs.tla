--------------------------- MODULE StorageProofs ---------------------------
(***************************************************************************)
(* Proofs about the persistence of the world.                              *)
(***************************************************************************)
EXTENDS Storage, FiniteSetTheorems, SequenceTheorems, WellFoundedInduction, NaturalsInduction, TLAPS

\* Every set of numbers has a least one.
LEMMA LeastNumber ==
    ASSUME NEW T, T \subseteq Nat, T # {}
    PROVE  \E x \in T : \A y \in T : x <= y
<1>1. IsWellFoundedOn(OpToRel(<, Nat), Nat)
  BY NatLessThanWellFounded
<1>2. PICK x \in T : \A y \in T : ~ (<<y, x>> \in OpToRel(<, Nat))
  BY <1>1, WFMin, Zenon
<1>3. \A y \in T : ~ (y < x)
  BY <1>2 DEF OpToRel
<1>4. x \in Nat /\ \A y \in T : y \in Nat
  BY <1>2
<1>5. \A y \in T : x <= y
  BY <1>3, <1>4
<1> QED
  BY <1>2, <1>5

\* f joins the first k sequences of seqs, for every k up to n.
Joins(f, seqs, n) ==
    f = [i \in 1 .. n |-> IF i = 1 THEN seqs[i] ELSE f[i - 1] \o seqs[i]]

LEMMA JoinsExists ==
    ASSUME NEW seqs, NEW n \in Nat PROVE \E f : Joins(f, seqs, n)
<1> DEFINE Bad == {k \in Nat : ~ \E f : Joins(f, seqs, k)}
<1> SUFFICES ASSUME Bad # {} PROVE FALSE
  OBVIOUS
<1>1. PICK k \in Bad : \A j \in Bad : k <= j
  <2>1. Bad \subseteq Nat
    OBVIOUS
  <2> HIDE DEF Bad
  <2> QED
    BY <2>1, LeastNumber
<1>2. k \in Nat /\ ~ \E f : Joins(f, seqs, k)
  BY <1>1
<1>3. k # 0
  <2>1. PICK g : g = [i \in 1 .. 0 |-> seqs]
    OBVIOUS
  <2>2. g = [i \in 1 .. 0 |-> IF i = 1 THEN seqs[i] ELSE g[i - 1] \o seqs[i]]
    BY <2>1
  <2>3. Joins(g, seqs, 0)
    BY <2>2 DEF Joins
  <2> QED
    BY <1>2, <2>3
<1>4. PICK j \in Nat : k = j + 1
  BY <1>2, <1>3
<1>5. PICK f : Joins(f, seqs, j)
  BY <1>1, <1>2, <1>4
<1>6. PICK g : g = [i \in 1 .. (j + 1) |-> IF i = 1 THEN seqs[i] ELSE f[i - 1] \o seqs[i]]
  OBVIOUS
<1>7. ASSUME NEW i \in 1 .. j PROVE g[i] = f[i]
  <2>1. f[i] = IF i = 1 THEN seqs[i] ELSE f[i - 1] \o seqs[i]
    BY <1>5 DEF Joins
  <2>2. i \in 1 .. (j + 1)
    BY <1>4
  <2> QED
    BY <1>6, <2>1, <2>2
<1>8. g = [i \in 1 .. (j + 1) |-> IF i = 1 THEN seqs[i] ELSE g[i - 1] \o seqs[i]]
  <2>1. ASSUME NEW i \in 1 .. (j + 1), i # 1 PROVE g[i - 1] = f[i - 1]
    <3>1. i - 1 \in 1 .. j
      BY <1>4, <2>1
    <3> QED
      BY <1>7, <3>1
  <2> QED
    BY <1>6, <2>1
<1> QED
  BY <1>2, <1>4, <1>8 DEF Joins

LEMMA FlattenJoins ==
    ASSUME NEW seqs, Len(seqs) \in Nat, Len(seqs) # 0
    PROVE  \E f : Joins(f, seqs, Len(seqs)) /\ FlattenSeq(seqs) = f[Len(seqs)]
<1>1. PICK g : g = CHOOSE f : f = [i \in 1 .. Len(seqs) |-> IF i = 1 THEN seqs[i] ELSE f[i - 1] \o seqs[i]]
  OBVIOUS
<1>2. Joins(g, seqs, Len(seqs))
  BY <1>1, JoinsExists DEF Joins
<1>3. FlattenSeq(seqs) = g[Len(seqs)]
  BY <1>1 DEF FlattenSeq
<1> QED
  BY <1>2, <1>3

\* Induction on the number of sequences that are joined.
LEMMA FlattenType ==
    ASSUME NEW C, NEW seqs \in Seq(Seq(C)) PROVE FlattenSeq(seqs) \in Seq(C)
<1>1. PICK n \in Nat : n = Len(seqs) /\ \A i \in 1 .. n : seqs[i] \in Seq(C)
  OBVIOUS
<1>2. CASE n = 0
  <2>1. seqs = <<>>
    BY <1>1, <1>2, EmptySeq
  <2> QED
    BY <2>1 DEF FlattenSeq
<1>3. CASE n # 0
  <2>1. PICK f : Joins(f, seqs, n) /\ FlattenSeq(seqs) = f[n]
    BY <1>1, <1>3, FlattenJoins
  <2> DEFINE Bad == {k \in Nat : k \in 1 .. n /\ f[k] \notin Seq(C)}
  <2>2. Bad = {}
    <3> SUFFICES ASSUME Bad # {} PROVE FALSE
      OBVIOUS
    <3>1. PICK k \in Bad : \A j \in Bad : k <= j
      <4>1. Bad \subseteq Nat
        OBVIOUS
      <4> HIDE DEF Bad
      <4> QED
        BY <4>1, LeastNumber
    <3>2. k \in Nat /\ k \in 1 .. n /\ f[k] \notin Seq(C)
      BY <3>1
    <3>3. f[k] = IF k = 1 THEN seqs[k] ELSE f[k - 1] \o seqs[k]
      BY <2>1, <3>2 DEF Joins
    <3>4. k # 1
      BY <1>1, <3>2, <3>3
    <3>5. PICK j \in 1 .. n : j = k - 1 /\ j < k /\ j \in Nat
      BY <1>1, <3>2, <3>4
    <3>6. f[j] \in Seq(C)
      BY <3>1, <3>2, <3>5
    <3>7. f[k] = f[j] \o seqs[k] /\ seqs[k] \in Seq(C)
      BY <1>1, <3>2, <3>3, <3>4, <3>5
    <3> QED
      BY <3>2, <3>6, <3>7
  <2> QED
    BY <1>1, <1>3, <2>1, <2>2
<1> QED
  BY <1>2, <1>3

\* r stands in s, between elements of E.
Around(s, r, E) == \E a \in Seq(E), b \in Seq(E) : s = (a \o r) \o b

LEMMA AroundGrows ==
    ASSUME NEW C, NEW E, E \subseteq C, NEW r \in Seq(C), NEW t \in Seq(E), NEW s, Around(s, r, E)
    PROVE  Around(s \o t, r, E)
<1>1. PICK a \in Seq(E), b \in Seq(E) : s = (a \o r) \o b
  BY DEF Around
<1>2. a \in Seq(C) /\ b \in Seq(C) /\ t \in Seq(C)
  OBVIOUS
<1>3. PICK d : d = a \o r /\ d \in Seq(C)
  <2>1. a \o r \in Seq(C)
    BY <1>2, ConcatProperties
  <2> QED
    BY <2>1
<1>4. (d \o b) \o t = d \o (b \o t)
  BY <1>2, <1>3, ConcatAssociative, SMTT(20)
<1>5. b \o t \in Seq(E)
  OBVIOUS
<1> QED
  BY <1>1, <1>3, <1>4, <1>5 DEF Around

\* One of the sequences stands in the result, between what the others hold.
LEMMA FlattenAround ==
    ASSUME NEW C, NEW seqs \in Seq(Seq(C)), NEW E, E \subseteq C, NEW k \in 1 .. Len(seqs),
           \A i \in 1 .. Len(seqs) : i # k => seqs[i] \in Seq(E)
    PROVE  Around(FlattenSeq(seqs), seqs[k], E)
<1>1. PICK n \in Nat : n = Len(seqs) /\ n # 0 /\ k \in 1 .. n /\ \A i \in 1 .. n : seqs[i] \in Seq(C)
  OBVIOUS
<1>2. PICK f : Joins(f, seqs, n) /\ FlattenSeq(seqs) = f[n]
  BY <1>1, FlattenJoins
<1> DEFINE Good(i) == (i < k => f[i] \in Seq(E)) /\ (~ (i < k) => Around(f[i], seqs[k], E))
           Bad == {i \in Nat : i \in 1 .. n /\ ~ Good(i)}
<1>3. Bad = {}
  <2> SUFFICES ASSUME Bad # {} PROVE FALSE
    OBVIOUS
  <2>1. PICK m \in Bad : \A j \in Bad : m <= j
    <3>1. Bad \subseteq Nat
      OBVIOUS
    <3> HIDE DEF Bad
    <3> QED
      BY <3>1, LeastNumber
  <2>2. m \in Nat /\ m \in 1 .. n /\ ~ Good(m)
    BY <2>1
  <2>3. f[m] = IF m = 1 THEN seqs[m] ELSE f[m - 1] \o seqs[m]
    BY <1>2, <2>2 DEF Joins
  <2>4. <<>> \in Seq(E) /\ seqs[k] \in Seq(C)
    BY <1>1
  <2>5. \A s \in Seq(C) : s = (<<>> \o s) \o <<>> /\ \A r \in Seq(E) : r \o s = (r \o s) \o <<>>
    <3> SUFFICES ASSUME NEW s \in Seq(C) PROVE s = (<<>> \o s) \o <<>> /\ \A r \in Seq(E) : r \o s = (r \o s) \o <<>>
      OBVIOUS
    <3>1. <<>> \o s = s /\ s \o <<>> = s
      OBVIOUS
    <3>2. ASSUME NEW r \in Seq(E) PROVE r \o s = (r \o s) \o <<>>
      <4>1. r \in Seq(C)
        OBVIOUS
      <4>2. r \o s \in Seq(C)
        BY <4>1
      <4> QED
        BY <4>2, ConcatEmptySeq
    <3> QED
      BY <3>1, <3>2
  <2>6. CASE m = 1
    <3>1. CASE k = 1
      <4>1. f[m] = (<<>> \o seqs[k]) \o <<>>
        BY <2>3, <2>4, <2>5, <2>6, <3>1
      <4>2. Around(f[m], seqs[k], E)
        BY <2>4, <4>1 DEF Around
      <4>3. ~ (m < k)
        BY <2>6, <3>1
      <4> QED
        BY <2>2, <4>2, <4>3
    <3>2. CASE k # 1
      <4>1. m < k /\ m # k
        BY <1>1, <2>6, <3>2
      <4> QED
        BY <1>1, <2>2, <2>3, <2>6, <4>1
    <3> QED
      BY <3>1, <3>2
  <2>7. CASE m # 1
    <3>1. PICK j \in 1 .. n : j = m - 1 /\ j < m /\ j \in Nat
      BY <1>1, <2>2, <2>7
    <3>2. Good(j)
      BY <2>1, <2>2, <3>1
    <3>3. f[m] = f[j] \o seqs[m] /\ seqs[m] \in Seq(C)
      BY <1>1, <2>2, <2>3, <2>7, <3>1
    <3>4. CASE m < k
      <4>1. j < k /\ m # k
        BY <1>1, <2>2, <3>1, <3>4
      <4>2. f[j] \in Seq(E) /\ seqs[m] \in Seq(E)
        BY <1>1, <2>2, <3>2, <4>1
      <4>3. f[m] \in Seq(E)
        BY <3>3, <4>2
      <4> QED
        BY <2>2, <3>4, <4>3
    <3>5. CASE m = k
      <4>1. j < k
        BY <3>1, <3>5
      <4>2. f[j] \in Seq(E)
        BY <3>2, <4>1
      <4>3. f[m] = (f[j] \o seqs[k]) \o <<>>
        BY <2>4, <2>5, <3>3, <3>5, <4>2
      <4>4. ~ (m < k)
        BY <2>2, <3>5
      <4>5. Around(f[m], seqs[k], E)
        BY <2>4, <4>2, <4>3 DEF Around
      <4> QED
        BY <2>2, <4>4, <4>5
    <3>6. CASE m > k
      <4>1. ~ (j < k) /\ m # k /\ ~ (m < k)
        BY <1>1, <2>2, <3>1, <3>6
      <4>2. Around(f[j], seqs[k], E)
        BY <3>2, <4>1
      <4>3. seqs[m] \in Seq(E)
        BY <1>1, <2>2, <4>1
      <4>7. Around(f[m], seqs[k], E)
        BY <2>4, <3>3, <4>2, <4>3, AroundGrows
      <4> QED
        BY <2>2, <4>1, <4>7
    <3> QED
      BY <1>1, <2>2, <3>4, <3>5, <3>6
  <2> QED
    BY <2>6, <2>7
<1>4. Good(n)
  BY <1>1, <1>3
<1>5. ~ (n < k)
  BY <1>1
<1> QED
  BY <1>2, <1>4, <1>5

-----------------------------------------------------------------------------
(* What a sequence of commands makes of the tables *)

\* f[i] are the tables after the first i of the commands q.
Runs(f, db, q, n) ==
    f = [i \in 0 .. n |-> IF i = 0 THEN db ELSE Executed(f[i - 1], q[i])]

LEMMA RunsExists ==
    ASSUME NEW db, NEW q, NEW n \in Nat PROVE \E f : Runs(f, db, q, n)
<1> DEFINE Bad == {k \in Nat : ~ \E f : Runs(f, db, q, k)}
<1> SUFFICES ASSUME Bad # {} PROVE FALSE
  OBVIOUS
<1>1. PICK k \in Bad : \A j \in Bad : k <= j
  <2>1. Bad \subseteq Nat
    OBVIOUS
  <2> HIDE DEF Bad
  <2> QED
    BY <2>1, LeastNumber
<1>2. k \in Nat /\ ~ \E f : Runs(f, db, q, k)
  BY <1>1
<1>3. k # 0
  <2>1. PICK g : g = [i \in 0 .. 0 |-> db]
    OBVIOUS
  <2>2. g = [i \in 0 .. 0 |-> IF i = 0 THEN db ELSE Executed(g[i - 1], q[i])]
    BY <2>1
  <2>3. Runs(g, db, q, 0)
    BY <2>2 DEF Runs
  <2> QED
    BY <1>2, <2>3
<1>4. PICK j \in Nat : k = j + 1
  BY <1>2, <1>3
<1>5. PICK f : Runs(f, db, q, j)
  BY <1>1, <1>2, <1>4
<1>6. PICK g : g = [i \in 0 .. (j + 1) |-> IF i = 0 THEN db ELSE Executed(f[i - 1], q[i])]
  OBVIOUS
<1>7. ASSUME NEW i \in 0 .. j PROVE g[i] = f[i]
  <2>1. f[i] = IF i = 0 THEN db ELSE Executed(f[i - 1], q[i])
    BY <1>5 DEF Runs
  <2>2. i \in 0 .. (j + 1)
    BY <1>4
  <2> QED
    BY <1>6, <2>1, <2>2
<1>8. g = [i \in 0 .. (j + 1) |-> IF i = 0 THEN db ELSE Executed(g[i - 1], q[i])]
  <2>1. ASSUME NEW i \in 0 .. (j + 1), i # 0 PROVE g[i - 1] = f[i - 1]
    <3>1. i - 1 \in 0 .. j
      BY <1>4, <2>1
    <3> QED
      BY <1>7, <3>1
  <2> QED
    BY <1>6, <2>1
<1> QED
  BY <1>2, <1>4, <1>8 DEF Runs

LEMMA AfterRuns ==
    ASSUME NEW db, NEW q, Len(q) \in Nat
    PROVE  \E f : Runs(f, db, q, Len(q)) /\ After(db, q) = f[Len(q)]
<1>1. PICK g : g = CHOOSE f : f = [i \in 0 .. Len(q) |-> IF i = 0 THEN db ELSE Executed(f[i - 1], q[i])]
  OBVIOUS
<1>2. Runs(g, db, q, Len(q))
  BY <1>1, RunsExists DEF Runs
<1>3. After(db, q) = g[Len(q)]
  BY <1>1 DEF After
<1> QED
  BY <1>2, <1>3

\* From the k-th on, g holds the tables after each of the n commands q.
StepsFrom(g, q, k, n) == \A i \in 1 .. n : g[k + i] = Executed(g[k + (i - 1)], q[i])

LEMMA RunsAgree ==
    ASSUME NEW f, NEW g, NEW q, NEW k \in Nat, NEW l \in Nat, NEW n \in Nat,
           StepsFrom(f, q, k, n), StepsFrom(g, q, l, n), f[k] = g[l]
    PROVE  f[k + n] = g[l + n]
<1> DEFINE Bad == {i \in Nat : i \in 0 .. n /\ f[k + i] # g[l + i]}
<1> SUFFICES ASSUME Bad # {} PROVE FALSE
  OBVIOUS
<1>1. PICK i \in Bad : \A j \in Bad : i <= j
  <2>1. Bad \subseteq Nat
    OBVIOUS
  <2> HIDE DEF Bad
  <2> QED
    BY <2>1, LeastNumber
<1>2. i \in Nat /\ i \in 0 .. n /\ f[k + i] # g[l + i]
  BY <1>1
<1>3. i # 0
  BY <1>2
<1>4. PICK j \in Nat : j = i - 1 /\ j \in 0 .. n /\ j < i /\ i \in 1 .. n
  BY <1>2, <1>3
<1>5. f[k + j] = g[l + j]
  BY <1>1, <1>2, <1>4
<1>6. f[k + i] = Executed(f[k + j], q[i]) /\ g[l + i] = Executed(g[l + j], q[i])
  BY <1>4 DEF StepsFrom
<1> QED
  BY <1>2, <1>5, <1>6

LEMMA RunsSteps ==
    ASSUME NEW f, NEW db, NEW q, NEW m \in Nat, Runs(f, db, q, m), NEW k \in Nat, NEW n \in Nat, k + n <= m,
           NEW r, \A i \in 1 .. n : r[i] = q[k + i]
    PROVE  StepsFrom(f, r, k, n) /\ f[0] = db
<1>1. ASSUME NEW i \in 1 .. n PROVE f[k + i] = Executed(f[k + (i - 1)], r[i])
  <2>1. k + i \in 0 .. m /\ k + i # 0 /\ (k + i) - 1 = k + (i - 1)
    OBVIOUS
  <2>2. f[k + i] = Executed(f[(k + i) - 1], q[k + i])
    BY <2>1 DEF Runs
  <2> QED
    BY <2>1, <2>2
<1>2. f[0] = db
  BY DEF Runs
<1> QED
  BY <1>1, <1>2 DEF StepsFrom

LEMMA AfterConcat ==
    ASSUME NEW db, NEW C, NEW q \in Seq(C), NEW r \in Seq(C)
    PROVE  After(db, q \o r) = After(After(db, q), r)
<1>1. PICK s, k, n : s = q \o r /\ k = Len(q) /\ n = Len(r)
  OBVIOUS
<1>2. /\ k \in Nat /\ n \in Nat /\ Len(s) = k + n /\ \A i \in 1 .. k : s[i] = q[i]
      /\ \A i \in 1 .. n : s[k + i] = r[i]
  <2>1. /\ k \in Nat /\ n \in Nat /\ Len(s) = k + n
        /\ \A i \in 1 .. (k + n) : s[i] = IF i <= k THEN q[i] ELSE r[i - k]
    BY <1>1, ConcatProperties
  <2>2. ASSUME NEW i \in 1 .. k PROVE s[i] = q[i]
    BY <2>1
  <2>3. ASSUME NEW i \in 1 .. n PROVE s[k + i] = r[i]
    <3>1. k + i \in 1 .. (k + n) /\ ~ (k + i <= k) /\ (k + i) - k = i
      BY <2>1
    <3> QED
      BY <2>1, <3>1
  <2> QED
    BY <2>1, <2>2, <2>3
<1>3. PICK m, z : m = k + n /\ m \in Nat /\ m = Len(s) /\ z = 0 /\ z \in Nat
  BY <1>2
<1>4. PICK g : Runs(g, db, s, Len(s)) /\ After(db, s) = g[Len(s)]
  BY <1>3, AfterRuns
<1>5. PICK f : Runs(f, db, q, Len(q)) /\ After(db, q) = f[Len(q)]
  BY <1>1, <1>2, AfterRuns
<1>6. PICK d : d = f[k]
  OBVIOUS
<1>7. PICK h : Runs(h, d, r, Len(r)) /\ After(d, r) = h[Len(r)]
  BY <1>1, <1>2, AfterRuns
<1>8. StepsFrom(f, q, z, k) /\ f[z] = db /\ StepsFrom(h, r, z, n) /\ h[z] = d
  <2>1. StepsFrom(f, q, 0, k) /\ f[0] = db
    <3>1. 0 + k <= k /\ \A i \in 1 .. k : q[i] = q[0 + i]
      BY <1>2
    <3> QED
      BY <1>1, <1>2, <1>5, <3>1, RunsSteps
  <2>2. StepsFrom(h, r, 0, n) /\ h[0] = d
    <3>1. 0 + n <= n /\ \A i \in 1 .. n : r[i] = r[0 + i]
      BY <1>2
    <3> QED
      BY <1>1, <1>2, <1>7, <3>1, RunsSteps
  <2> QED
    BY <1>3, <2>1, <2>2
<1>9. StepsFrom(g, q, z, k) /\ StepsFrom(g, r, k, n) /\ g[z] = db
  <2>1. StepsFrom(g, q, 0, k) /\ g[0] = db
    <3>1. 0 + k <= m /\ \A i \in 1 .. k : q[i] = s[0 + i]
      BY <1>2, <1>3
    <3> QED
      BY <1>2, <1>3, <1>4, <3>1, RunsSteps
  <2>2. StepsFrom(g, r, k, n)
    <3>1. k + n <= m /\ \A i \in 1 .. n : r[i] = s[k + i]
      BY <1>2, <1>3
    <3> QED
      BY <1>2, <1>3, <1>4, <3>1, RunsSteps
  <2> QED
    BY <1>3, <2>1, <2>2
<1>10. g[k] = d
  <2>1. f[z + k] = g[z + k]
    BY <1>2, <1>3, <1>8, <1>9, RunsAgree
  <2> QED
    BY <1>2, <1>3, <1>6, <2>1
<1>11. h[n] = g[m]
  <2>1. h[z + n] = g[k + n]
    BY <1>2, <1>3, <1>8, <1>9, <1>10, RunsAgree
  <2> QED
    BY <1>2, <1>3, <2>1
<1> QED
  BY <1>1, <1>3, <1>4, <1>5, <1>6, <1>7, <1>11

\* The first command was run, and the others remain.
LEMMA AfterTail ==
    ASSUME NEW db, NEW C, NEW q \in Seq(C), q # <<>>
    PROVE  After(db, q) = After(Executed(db, Head(q)), Tail(q))
<1>1. PICK t, n : t = Tail(q) /\ n = Len(t)
  OBVIOUS
<1>2. /\ n \in Nat /\ Len(q) = 1 + n /\ Head(q) = q[1]
      /\ \A i \in 1 .. n : t[i] = q[1 + i]
  <2>1. t \in Seq(C) /\ Len(t) = Len(q) - 1 /\ \A i \in 1 .. Len(t) : t[i] = q[i + 1]
    BY <1>1, HeadTailProperties
  <2>2. Len(q) \in Nat
    OBVIOUS
  <2>3. n \in Nat /\ Len(q) = 1 + n
    BY <1>1, <2>1, <2>2
  <2>4. Head(q) = q[1]
    OBVIOUS
  <2>5. ASSUME NEW i \in 1 .. n PROVE t[i] = q[1 + i]
    BY <1>1, <2>1, <2>3
  <2> QED
    BY <2>3, <2>4, <2>5
<1>3. PICK m, z, k : m = 1 + n /\ m \in Nat /\ m = Len(q) /\ z = 0 /\ z \in Nat /\ k = 1 /\ k \in Nat
  BY <1>2
<1>4. PICK g : Runs(g, db, q, Len(q)) /\ After(db, q) = g[Len(q)]
  BY <1>3, AfterRuns
<1>5. PICK d : d = Executed(db, Head(q))
  OBVIOUS
<1>6. PICK h : Runs(h, d, t, Len(t)) /\ After(d, t) = h[Len(t)]
  BY <1>1, <1>2, AfterRuns
<1>7. g[k] = d
  <2>1. 0 \in 0 .. m /\ 1 \in 0 .. m
    BY <1>2, <1>3
  <2>2. g[0] = db /\ g[1] = Executed(g[0], q[1])
    BY <1>3, <1>4, <2>1 DEF Runs
  <2> QED
    BY <1>2, <1>3, <1>5, <2>2
<1>8. StepsFrom(h, t, z, n) /\ h[z] = d
  <2>1. 0 + n <= n /\ \A i \in 1 .. n : t[i] = t[0 + i]
    BY <1>2
  <2>2. StepsFrom(h, t, 0, n) /\ h[0] = d
    BY <1>1, <1>2, <1>6, <2>1, RunsSteps
  <2> QED
    BY <1>3, <2>2
<1>9. StepsFrom(g, t, k, n)
  <2>1. k + n <= m /\ \A i \in 1 .. n : t[i] = q[k + i]
    BY <1>2, <1>3
  <2> QED
    BY <1>2, <1>3, <1>4, <2>1, RunsSteps
<1>10. h[z + n] = g[k + n]
  BY <1>2, <1>3, <1>7, <1>8, <1>9, RunsAgree
<1>11. h[n] = g[m]
  BY <1>2, <1>3, <1>10
<1> QED
  BY <1>1, <1>3, <1>4, <1>5, <1>6, <1>11

LEMMA AfterNone ==
    ASSUME NEW db PROVE After(db, <<>>) = db
<1>1. Len(<<>>) = 0
  OBVIOUS
<1>2. PICK f : Runs(f, db, <<>>, 0) /\ After(db, <<>>) = f[0]
  BY <1>1, AfterRuns
<1> QED
  BY <1>2 DEF Runs

LEMMA AfterOne ==
    ASSUME NEW db, NEW c PROVE After(db, <<c>>) = Executed(db, c)
<1>1. <<c>> \in Seq({c}) /\ <<c>> # <<>> /\ Head(<<c>>) = c /\ Tail(<<c>>) = <<>>
  OBVIOUS
<1> QED
  BY <1>1, AfterTail, AfterNone

\* What every command of a set keeps, a sequence of them keeps.
LEMMA AfterKeeps ==
    ASSUME NEW S, NEW C, \A d \in S, c \in C : Executed(d, c) \in S, NEW db \in S, NEW q \in Seq(C)
    PROVE  After(db, q) \in S
<1>1. PICK n \in Nat : n = Len(q) /\ \A i \in 1 .. n : q[i] \in C
  OBVIOUS
<1>2. PICK f : Runs(f, db, q, n) /\ After(db, q) = f[n]
  BY <1>1, AfterRuns
<1> DEFINE Bad == {i \in Nat : i \in 0 .. n /\ f[i] \notin S}
<1> SUFFICES ASSUME Bad # {} PROVE FALSE
  BY <1>1, <1>2
<1>3. PICK i \in Bad : \A j \in Bad : i <= j
  <2>1. Bad \subseteq Nat
    OBVIOUS
  <2> HIDE DEF Bad
  <2> QED
    BY <2>1, LeastNumber
<1>4. i \in Nat /\ i \in 0 .. n /\ f[i] \notin S
  BY <1>3
<1>5. f[i] = IF i = 0 THEN db ELSE Executed(f[i - 1], q[i])
  BY <1>2, <1>4 DEF Runs
<1>6. i # 0
  BY <1>4, <1>5
<1>7. PICK j \in Nat : j = i - 1 /\ j \in 0 .. n /\ j < i /\ i \in 1 .. n
  BY <1>1, <1>4, <1>6
<1>8. f[j] \in S
  BY <1>3, <1>4, <1>7
<1> QED
  BY <1>1, <1>4, <1>5, <1>6, <1>7, <1>8

-----------------------------------------------------------------------------
(* Sequences without repetitions *)

NoDup(s) == \A i, j \in 1 .. Len(s) : s[i] = s[j] => i = j

LEMMA ConcatRange ==
    ASSUME NEW S, NEW s \in Seq(S), NEW t \in Seq(S)
    PROVE  /\ s \o t \in Seq(S)
           /\ Range(s \o t) = Range(s) \cup Range(t)
           /\ NoDup(s) /\ NoDup(t) /\ Range(s) \cap Range(t) = {} => NoDup(s \o t)
<1>1. PICK r, m, n : r = s \o t /\ m = Len(s) /\ n = Len(t)
  OBVIOUS
<1>2. /\ m \in Nat /\ n \in Nat /\ DOMAIN s = 1 .. m /\ DOMAIN t = 1 .. n
      /\ r \in Seq(S) /\ Len(r) = m + n /\ DOMAIN r = 1 .. (m + n)
      /\ \A i \in 1 .. (m + n) : r[i] = IF i <= m THEN s[i] ELSE t[i - m]
  BY <1>1, ConcatProperties
<1>3. ASSUME NEW i \in 1 .. (m + n)
      PROVE  \/ i \in 1 .. m /\ r[i] = s[i] /\ r[i] \in Range(s)
             \/ i - m \in 1 .. n /\ r[i] = t[i - m] /\ r[i] \in Range(t)
  <2>1. CASE i <= m
    <3>1. i \in 1 .. m /\ r[i] = s[i]
      BY <1>2, <2>1
    <3> QED
      BY <1>2, <3>1 DEF Range
  <2>2. CASE ~ (i <= m)
    <3>1. i - m \in 1 .. n /\ r[i] = t[i - m]
      BY <1>2, <2>2
    <3> QED
      BY <1>2, <3>1 DEF Range
  <2> QED
    BY <2>1, <2>2
<1>4. Range(r) \subseteq Range(s) \cup Range(t)
  BY <1>2, <1>3 DEF Range
<1>5. Range(s) \subseteq Range(r)
  <2>1. \A i \in 1 .. m : i \in 1 .. (m + n) /\ r[i] = s[i]
    BY <1>2
  <2> QED
    BY <1>2, <2>1 DEF Range
<1>6. Range(t) \subseteq Range(r)
  <2>1. ASSUME NEW i \in 1 .. n PROVE m + i \in 1 .. (m + n) /\ r[m + i] = t[i]
    <3>1. m + i \in 1 .. (m + n) /\ ~ (m + i <= m) /\ (m + i) - m = i
      BY <1>2
    <3> QED
      BY <1>2, <3>1
  <2> QED
    BY <1>2, <2>1 DEF Range
<1>7. ASSUME NoDup(s), NoDup(t), Range(s) \cap Range(t) = {} PROVE NoDup(r)
  <2> SUFFICES ASSUME NEW i \in 1 .. (m + n), NEW j \in 1 .. (m + n), r[i] = r[j] PROVE i = j
    BY <1>2 DEF NoDup
  <2>1. CASE r[i] \in Range(s)
    <3>1. i \in 1 .. m /\ j \in 1 .. m /\ s[i] = s[j]
      BY <1>3, <1>7, <2>1
    <3> QED
      BY <1>1, <1>7, <3>1 DEF NoDup
  <2>2. CASE r[i] \notin Range(s)
    <3>1. i - m \in 1 .. n /\ j - m \in 1 .. n /\ t[i - m] = t[j - m]
      BY <1>3, <1>7, <2>2
    <3>2. i - m = j - m
      BY <1>1, <1>7, <3>1 DEF NoDup
    <3> QED
      BY <1>2, <3>2
  <2> QED
    BY <2>1, <2>2
<1> QED
  BY <1>1, <1>2, <1>4, <1>5, <1>6, <1>7

LEMMA OneRange ==
    ASSUME NEW x PROVE <<x>> \in Seq({x}) /\ Range(<<x>>) = {x} /\ NoDup(<<x>>) /\ Len(<<x>>) = 1
<1>1. <<x>> \in Seq({x}) /\ Len(<<x>>) = 1 /\ DOMAIN <<x>> = {1} /\ <<x>>[1] = x
  OBVIOUS
<1> QED
  BY <1>1 DEF Range, NoDup

LEMMA AppendRange ==
    ASSUME NEW S, NEW s \in Seq(S), NEW x \in S
    PROVE  /\ Append(s, x) \in Seq(S) /\ Range(Append(s, x)) = Range(s) \cup {x}
           /\ NoDup(s) /\ x \notin Range(s) => NoDup(Append(s, x))
<1>1. PICK t : t = <<x>>
  OBVIOUS
<1>2. t \in Seq(S) /\ Range(t) = {x} /\ NoDup(t)
  BY <1>1, OneRange
<1>3. Append(s, x) = s \o t
  BY <1>1
<1> QED
  BY <1>2, <1>3, ConcatRange

LEMMA NoneRange ==
    <<>> \in Seq({}) /\ Range(<<>>) = {} /\ NoDup(<<>>)
<1>1. <<>> \in Seq({}) /\ Len(<<>>) = 0 /\ DOMAIN <<>> = {}
  OBVIOUS
<1> QED
  BY <1>1 DEF Range, NoDup

\* Those of ids that are in T, in their order.
Selects(seqs, ids, T) == seqs = [i \in DOMAIN ids |-> IF ids[i] \in T THEN <<ids[i]>> ELSE <<>>]

LEMMA FlattenSelect ==
    ASSUME NEW S, NEW ids \in Seq(S), NoDup(ids), NEW T, NEW seqs, Selects(seqs, ids, T)
    PROVE  /\ FlattenSeq(seqs) \in Seq(S) /\ NoDup(FlattenSeq(seqs))
           /\ Range(FlattenSeq(seqs)) = Range(ids) \cap T
<1>1. PICK n \in Nat : n = Len(ids) /\ DOMAIN ids = 1 .. n /\ \A i \in 1 .. n : ids[i] \in S
  OBVIOUS
<1>2. ASSUME NEW i \in 1 .. n
      PROVE  /\ seqs[i] = IF ids[i] \in T THEN <<ids[i]>> ELSE <<>>
             /\ seqs[i] \in Seq(S) /\ NoDup(seqs[i]) /\ Range(seqs[i]) = {ids[i]} \cap T
  <2>1. seqs[i] = IF ids[i] \in T THEN <<ids[i]>> ELSE <<>>
    BY <1>1 DEF Selects
  <2>2. CASE ids[i] \in T
    <3>1. seqs[i] = <<ids[i]>> /\ ids[i] \in S
      BY <1>1, <2>1, <2>2
    <3>2. <<ids[i]>> \in Seq(S)
      BY <3>1
    <3>3. Range(<<ids[i]>>) = {ids[i]} /\ NoDup(<<ids[i]>>)
      BY OneRange
    <3>4. {ids[i]} \cap T = {ids[i]}
      BY <2>2
    <3> QED
      BY <2>1, <3>1, <3>2, <3>3, <3>4
  <2>3. CASE ids[i] \notin T
    <3>1. seqs[i] = <<>>
      BY <2>1, <2>3
    <3>2. <<>> \in Seq(S)
      OBVIOUS
    <3> QED
      BY <2>1, <2>3, <3>1, <3>2, NoneRange
  <2> QED
    BY <2>2, <2>3
<1>3. seqs \in Seq(Seq(S)) /\ Len(seqs) = n
  BY <1>1, <1>2 DEF Selects
<1>4. CASE n = 0
  <2>1. seqs = <<>> /\ ids = <<>>
    BY <1>1, <1>3, <1>4, EmptySeq
  <2>2. FlattenSeq(seqs) = <<>>
    BY <1>3, <1>4, <2>1 DEF FlattenSeq
  <2>3. <<>> \in Seq(S)
    OBVIOUS
  <2> QED
    BY <2>1, <2>2, <2>3, NoneRange
<1>5. CASE n # 0
  <2>1. PICK f : Joins(f, seqs, n) /\ FlattenSeq(seqs) = f[n]
    BY <1>1, <1>3, <1>5, FlattenJoins
  <2> DEFINE Good(i) == f[i] \in Seq(S) /\ NoDup(f[i]) /\ Range(f[i]) = {ids[j] : j \in 1 .. i} \cap T
             Bad == {i \in Nat : i \in 1 .. n /\ ~ Good(i)}
  <2>2. Bad = {}
    <3> SUFFICES ASSUME Bad # {} PROVE FALSE
      OBVIOUS
    <3>1. PICK k \in Bad : \A j \in Bad : k <= j
      <4>1. Bad \subseteq Nat
        OBVIOUS
      <4> HIDE DEF Bad
      <4> QED
        BY <4>1, LeastNumber
    <3>2. k \in Nat /\ k \in 1 .. n /\ ~ Good(k)
      BY <3>1
    <3>3. f[k] = IF k = 1 THEN seqs[k] ELSE f[k - 1] \o seqs[k]
      BY <2>1, <3>2 DEF Joins
    <3>4. k # 1
      <4>1. ASSUME k = 1 PROVE Good(k)
        <5>1. f[k] = seqs[k] /\ {ids[j] : j \in 1 .. k} = {ids[k]}
          BY <3>3, <4>1
        <5> QED
          BY <1>2, <3>2, <5>1
      <4> QED
        BY <3>2, <4>1
    <3>5. PICK j \in Nat : j = k - 1 /\ j \in 1 .. n /\ j < k
      BY <1>1, <3>2, <3>4
    <3>6. Good(j)
      <4> HIDE DEF Good
      <4> QED
        BY <3>1, <3>2, <3>5
    <3>7. PICK a, b : a = f[j] /\ b = seqs[k]
      OBVIOUS
    <3>8. f[k] = a \o b /\ a \in Seq(S) /\ NoDup(a) /\ b \in Seq(S) /\ NoDup(b) /\ Range(b) = {ids[k]} \cap T
      BY <1>2, <3>2, <3>3, <3>4, <3>5, <3>6, <3>7
    <3>9. Range(a) = {ids[i] : i \in 1 .. j} \cap T
      BY <3>6, <3>7
    <3>10. Range(a) \cap Range(b) = {}
      <4>1. \A i \in 1 .. j : i \in 1 .. n /\ i # k /\ ids[i] # ids[k]
        BY <1>1, <3>2, <3>5 DEF NoDup
      <4> QED
        BY <3>8, <3>9, <4>1
    <3>11. f[k] \in Seq(S) /\ NoDup(f[k]) /\ Range(f[k]) = Range(a) \cup Range(b)
      BY <3>8, <3>10, ConcatRange
    <3>12. {ids[i] : i \in 1 .. k} = {ids[i] : i \in 1 .. j} \cup {ids[k]}
      <4>1. 1 .. k = (1 .. j) \cup {k}
        BY <3>2, <3>5
      <4> QED
        BY <4>1
    <3>13. Range(f[k]) = {ids[i] : i \in 1 .. k} \cap T
      BY <3>8, <3>9, <3>11, <3>12
    <3> QED
      BY <3>2, <3>11, <3>13
  <2>3. Good(n)
    <3> HIDE DEF Good
    <3> QED
      BY <1>1, <1>5, <2>2
  <2>4. {ids[j] : j \in 1 .. n} = Range(ids)
    BY <1>1 DEF Range
  <2> QED
    BY <2>1, <2>3, <2>4
<1> QED
  BY <1>4, <1>5

-----------------------------------------------------------------------------
(* Commands *)

GoodCommand ==
    {c \in CommandType :
        /\ c.cmd \in {"insert entity", "update entity"} => c.arg \in 0 .. MaxId
        /\ c.cmd \in {"insert properties", "update property"} => c.arg \in 1 .. MaxValue}

Databases == [rows : [Ids -> NoRow .. MaxId], props : [Ids -> Seq(1 .. MaxValue)]]

\* x is d but for the entity id, with row and property rows as given.
Changed(x, d, id, row, values) ==
    /\ x \in Databases /\ x.rows[id] = row /\ x.props[id] = values
    /\ \A e \in Ids : e # id => x.rows[e] = d.rows[e] /\ x.props[e] = d.props[e]

LEMMA ChangedIs ==
    ASSUME NEW d \in Databases, NEW id \in Ids, NEW row \in NoRow .. MaxId, NEW values \in Seq(1 .. MaxValue),
           NEW x, x = [rows |-> [d.rows EXCEPT ![id] = row], props |-> [d.props EXCEPT ![id] = values]]
    PROVE  Changed(x, d, id, row, values)
<1>1. PICK r, p, r1, p1 : /\ r = d.rows /\ p = d.props /\ r1 = [r EXCEPT ![id] = row] /\ p1 = [p EXCEPT ![id] = values]
                          /\ r \in [Ids -> NoRow .. MaxId] /\ p \in [Ids -> Seq(1 .. MaxValue)]
  BY DEF Databases
<1>2. x.rows = r1 /\ x.props = p1 /\ x = [rows |-> r1, props |-> p1]
  BY <1>1
<1>3. /\ r1 \in [Ids -> NoRow .. MaxId] /\ r1[id] = row /\ \A e \in Ids : e # id => r1[e] = r[e]
  BY <1>1
<1>4. /\ p1 \in [Ids -> Seq(1 .. MaxValue)] /\ p1[id] = values /\ \A e \in Ids : e # id => p1[e] = p[e]
  BY <1>1
<1>5. x \in Databases
  BY <1>2, <1>3, <1>4 DEF Databases
<1> QED
  BY <1>1, <1>2, <1>3, <1>4, <1>5 DEF Changed

LEMMA SameIs ==
    ASSUME NEW d \in Databases, NEW id \in Ids
    PROVE  /\ d = [rows |-> d.rows, props |-> d.props]
           /\ d.rows[id] \in NoRow .. MaxId /\ d.props[id] \in Seq(1 .. MaxValue)
           /\ [d.rows EXCEPT ![id] = d.rows[id]] = d.rows /\ [d.props EXCEPT ![id] = d.props[id]] = d.props
  BY DEF Databases

\* The row and the property rows of c's entity after c.
RowAfter(d, c) ==
    IF c.cmd = "insert entity" /\ d.rows[c.id] = NoRow THEN c.arg
    ELSE IF c.cmd = "update entity" /\ d.rows[c.id] # NoRow THEN c.arg
         ELSE IF c.cmd = "delete entity" THEN NoRow ELSE d.rows[c.id]
ValuesAfter(d, c) ==
    IF c.cmd = "insert properties" THEN Append(d.props[c.id], c.arg)
    ELSE IF c.cmd = "update property" THEN [i \in DOMAIN d.props[c.id] |-> c.arg]
         ELSE IF c.cmd = "delete properties" THEN <<>> ELSE d.props[c.id]

LEMMA ExecutedIs ==
    ASSUME NEW d \in Databases, NEW c \in GoodCommand
    PROVE  Changed(Executed(d, c), d, c.id, RowAfter(d, c), ValuesAfter(d, c))
<1>1. PICK id, row, values, x : id = c.id /\ row = RowAfter(d, c) /\ values = ValuesAfter(d, c) /\ x = Executed(d, c)
  OBVIOUS
<1>2. /\ id \in Ids
      /\ c.cmd \in {"insert entity", "update entity", "delete entity", "insert properties",
                    "update property", "delete properties"}
      /\ c.cmd \in {"insert entity", "update entity"} => c.arg \in 0 .. MaxId
      /\ c.cmd \in {"insert properties", "update property"} => c.arg \in 1 .. MaxValue
  BY <1>1 DEF GoodCommand, CommandType
<1>3. /\ d = [rows |-> d.rows, props |-> d.props]
      /\ d.rows[id] \in NoRow .. MaxId /\ d.props[id] \in Seq(1 .. MaxValue)
      /\ [d.rows EXCEPT ![id] = d.rows[id]] = d.rows /\ [d.props EXCEPT ![id] = d.props[id]] = d.props
  BY <1>2, SameIs
<1>4. row \in NoRow .. MaxId
  <2>1. 0 .. MaxId \subseteq NoRow .. MaxId /\ NoRow \in NoRow .. MaxId
    BY StorageAssumption DEF NoRow
  <2> QED
    BY <1>1, <1>2, <1>3, <2>1 DEF RowAfter
<1>5. values \in Seq(1 .. MaxValue)
  <2>1. CASE c.cmd = "insert properties"
    <3>1. PICK arg \in 1 .. MaxValue : arg = c.arg
      BY <1>2, <2>1
    <3>2. PICK s \in Seq(1 .. MaxValue) : s = d.props[id]
      BY <1>3
    <3>3. values = Append(s, arg)
      BY <1>1, <2>1, <3>1, <3>2 DEF ValuesAfter
    <3> QED
      BY <3>3
  <2>2. CASE c.cmd = "update property"
    <3>1. PICK n \in Nat : DOMAIN d.props[id] = 1 .. n
      BY <1>3
    <3>2. PICK arg \in 1 .. MaxValue : arg = c.arg
      BY <1>2, <2>2
    <3>3. values = [i \in 1 .. n |-> arg]
      BY <1>1, <2>2, <3>1, <3>2 DEF ValuesAfter
    <3> QED
      BY <3>3
  <2>3. CASE c.cmd = "delete properties"
    <3>1. values = <<>>
      BY <1>1, <2>3 DEF ValuesAfter
    <3> QED
      BY <3>1
  <2>4. CASE c.cmd \in {"insert entity", "update entity", "delete entity"}
    BY <1>1, <1>3, <2>4 DEF ValuesAfter
  <2> QED
    BY <1>2, <2>1, <2>2, <2>3, <2>4
<1>6. x = [rows |-> [d.rows EXCEPT ![id] = row], props |-> [d.props EXCEPT ![id] = values]]
  <2>1. CASE c.cmd = "insert entity"
    <3>1. values = d.props[id] /\ (d.rows[id] = NoRow => row = c.arg) /\ (d.rows[id] # NoRow => row = d.rows[id])
      BY <1>1, <2>1 DEF RowAfter, ValuesAfter
    <3>2. x = IF d.rows[id] = NoRow THEN [d EXCEPT !.rows[id] = c.arg] ELSE d
      BY <1>1, <2>1 DEF Executed
    <3>3. CASE d.rows[id] = NoRow
      <4>1. x = [d EXCEPT !.rows[id] = row]
        BY <3>1, <3>2, <3>3
      <4>2. x = [rows |-> [d.rows EXCEPT ![id] = row], props |-> d.props]
        BY <1>3, <4>1
      <4> QED
        BY <1>3, <3>1, <4>2
    <3>4. CASE d.rows[id] # NoRow
      BY <1>3, <3>1, <3>2, <3>4
    <3> QED
      BY <3>3, <3>4
  <2>2. CASE c.cmd = "update entity"
    <3>1. values = d.props[id] /\ (d.rows[id] # NoRow => row = c.arg) /\ (d.rows[id] = NoRow => row = d.rows[id])
      BY <1>1, <2>2 DEF RowAfter, ValuesAfter
    <3>2. x = IF d.rows[id] = NoRow THEN d ELSE [d EXCEPT !.rows[id] = c.arg]
      BY <1>1, <2>2 DEF Executed
    <3>3. CASE d.rows[id] # NoRow
      <4>1. x = [d EXCEPT !.rows[id] = row]
        BY <3>1, <3>2, <3>3
      <4>2. x = [rows |-> [d.rows EXCEPT ![id] = row], props |-> d.props]
        BY <1>3, <4>1
      <4> QED
        BY <1>3, <3>1, <4>2
    <3>4. CASE d.rows[id] = NoRow
      BY <1>3, <3>1, <3>2, <3>4
    <3> QED
      BY <3>3, <3>4
  <2>3. CASE c.cmd = "delete entity"
    <3>1. values = d.props[id] /\ row = NoRow
      BY <1>1, <2>3 DEF RowAfter, ValuesAfter
    <3>2. x = [d EXCEPT !.rows[id] = row]
      BY <1>1, <2>3, <3>1 DEF Executed
    <3>3. x = [rows |-> [d.rows EXCEPT ![id] = row], props |-> d.props]
      BY <1>3, <3>2
    <3> QED
      BY <1>3, <3>1, <3>3
  <2>4. CASE c.cmd = "insert properties"
    <3>1. values = Append(d.props[id], c.arg) /\ row = d.rows[id]
      BY <1>1, <2>4 DEF RowAfter, ValuesAfter
    <3>2. x = [d EXCEPT !.props[id] = values]
      BY <1>1, <2>4, <3>1 DEF Executed
    <3>3. x = [rows |-> d.rows, props |-> [d.props EXCEPT ![id] = values]]
      BY <1>3, <3>2
    <3> QED
      BY <1>3, <3>1, <3>3
  <2>5. CASE c.cmd = "update property"
    <3>1. values = [i \in DOMAIN d.props[id] |-> c.arg] /\ row = d.rows[id]
      BY <1>1, <2>5 DEF RowAfter, ValuesAfter
    <3>2. x = [d EXCEPT !.props[id] = values]
      BY <1>1, <2>5, <3>1 DEF Executed
    <3>3. x = [rows |-> d.rows, props |-> [d.props EXCEPT ![id] = values]]
      BY <1>3, <3>2
    <3> QED
      BY <1>3, <3>1, <3>3
  <2>6. CASE c.cmd = "delete properties"
    <3>1. values = <<>> /\ row = d.rows[id]
      BY <1>1, <2>6 DEF RowAfter, ValuesAfter
    <3>2. x = [d EXCEPT !.props[id] = values]
      BY <1>1, <2>6, <3>1 DEF Executed
    <3>3. x = [rows |-> d.rows, props |-> [d.props EXCEPT ![id] = values]]
      BY <1>3, <3>2
    <3> QED
      BY <1>3, <3>1, <3>3
  <2> QED
    BY <1>2, <2>1, <2>2, <2>3, <2>4, <2>5, <2>6
<1>7. Changed(x, d, id, row, values)
  BY <1>2, <1>4, <1>5, <1>6, ChangedIs
<1> QED
  BY <1>1, <1>7

\* Commands about others leave the rows of e.
OthersThan(e) == {c \in GoodCommand : c.id # e}

LEMMA AfterOthers ==
    ASSUME NEW db \in Databases, NEW e \in Ids, NEW q \in Seq(OthersThan(e))
    PROVE  /\ After(db, q) \in Databases
           /\ After(db, q).rows[e] = db.rows[e] /\ After(db, q).props[e] = db.props[e]
<1>1. PICK S : S = {d \in Databases : d.rows[e] = db.rows[e] /\ d.props[e] = db.props[e]}
  OBVIOUS
<1>2. ASSUME NEW d \in S, NEW c \in OthersThan(e) PROVE Executed(d, c) \in S
  <2>1. d \in Databases /\ c \in GoodCommand /\ e # c.id /\ d.rows[e] = db.rows[e] /\ d.props[e] = db.props[e]
    BY <1>1, <1>2 DEF OthersThan
  <2>2. PICK x : x = Executed(d, c)
    OBVIOUS
  <2>3. x \in Databases /\ x.rows[e] = d.rows[e] /\ x.props[e] = d.props[e]
    BY <2>1, <2>2, ExecutedIs DEF Changed
  <2> QED
    BY <1>1, <2>1, <2>2, <2>3
<1>3. db \in S
  BY <1>1
<1>4. After(db, q) \in S
  BY <1>2, <1>3, AfterKeeps
<1> QED
  BY <1>1, <1>4

\* Without an INSERT for e no row of e appears.
NoInsertOf(e) == {c \in GoodCommand : c.cmd = "insert entity" => c.id # e}

LEMMA AfterNoInsert ==
    ASSUME NEW db \in Databases, NEW e \in Ids, NEW q \in Seq(NoInsertOf(e)), db.rows[e] = NoRow
    PROVE  After(db, q) \in Databases /\ After(db, q).rows[e] = NoRow
<1>1. PICK S : S = {d \in Databases : d.rows[e] = NoRow}
  OBVIOUS
<1>2. ASSUME NEW d \in S, NEW c \in NoInsertOf(e) PROVE Executed(d, c) \in S
  <2>1. d \in Databases /\ c \in GoodCommand /\ d.rows[e] = NoRow /\ (c.cmd = "insert entity" => c.id # e)
    BY <1>1, <1>2 DEF NoInsertOf
  <2>2. PICK x : x = Executed(d, c)
    OBVIOUS
  <2>3. Changed(x, d, c.id, RowAfter(d, c), ValuesAfter(d, c))
    BY <2>1, <2>2, ExecutedIs
  <2>4. CASE c.id # e
    <3>1. x \in Databases /\ x.rows[e] = d.rows[e]
      BY <2>3, <2>4 DEF Changed
    <3> QED
      BY <1>1, <2>1, <2>2, <3>1
  <2>5. CASE c.id = e
    <3>1. RowAfter(d, c) = NoRow
      BY <2>1, <2>5 DEF RowAfter
    <3>2. x \in Databases /\ x.rows[e] = NoRow
      BY <2>3, <2>5, <3>1 DEF Changed
    <3> QED
      BY <1>1, <2>2, <3>2
  <2> QED
    BY <2>4, <2>5
<1>3. db \in S
  BY <1>1
<1>4. After(db, q) \in S
  BY <1>2, <1>3, AfterKeeps
<1> QED
  BY <1>1, <1>4

LEMMA AfterGood ==
    ASSUME NEW db \in Databases, NEW q \in Seq(GoodCommand) PROVE After(db, q) \in Databases
<1>1. ASSUME NEW d \in Databases, NEW c \in GoodCommand PROVE Executed(d, c) \in Databases
  <2>1. PICK x : x = Executed(d, c)
    OBVIOUS
  <2> QED
    BY ExecutedIs DEF Changed
<1> QED
  BY <1>1, AfterKeeps

-----------------------------------------------------------------------------
(* Types *)

StoreTypes == TypeOK /\ pendingQueries \in Seq(GoodCommand)

LEMMA GoodCommands == ASSUME NEW q \in Seq(GoodCommand) PROVE q \in Seq(CommandType)
<1>1. GoodCommand \subseteq CommandType
  BY DEF GoodCommand
<1> QED
  BY <1>1

LEMMA EntityTypes ==
    ASSUME NEW r \in Entity, NEW b \in BOOLEAN
    PROVE  /\ [r EXCEPT !.queued = b] \in Entity
           /\ AfterInsert(r) \in Entity /\ AfterUpdate(r) \in Entity /\ Written(r) \in Entity
           /\ None \in Entity
<1>1. r.value \in 0 .. MaxValue /\ (r.value # 0) \in BOOLEAN /\ (r.pclean \/ r.value # 0) \in BOOLEAN /\ (r.seen \/ r.value # 0) \in BOOLEAN
  BY DEF Entity
<1>2. Written(r) \in Entity
  BY <1>1 DEF Written, Entity
<1>3. AfterInsert(r) \in Entity
  BY <1>2 DEF AfterInsert, Entity
<1>4. AfterUpdate(r) \in Entity
  BY <1>2 DEF AfterUpdate, Entity
<1>5. [r EXCEPT !.queued = b] \in Entity
  BY DEF Entity
<1>6. None \in Entity
  BY StorageAssumption DEF None, Entity, World
<1> QED
  BY <1>2, <1>3, <1>4, <1>5, <1>6

\* What can hold an entity.
Holders == 0 .. MaxId

LEMMA HoldersAre == Ids \subseteq Holders /\ World \in Holders /\ \A p \in Holders : p \in Ids \/ p = World
  BY StorageAssumption DEF Ids, Holders, World

LEMMA QueuedType ==
    ASSUME NEW ents, NEW ids \in Seq(Holders) PROVE Queued(ents, ids) \in Seq(Ids)
<1>1. PICK n \in Nat : n = Len(ids) /\ DOMAIN ids = 1 .. n /\ \A i \in 1 .. n : ids[i] \in Holders
  OBVIOUS
<1>2. PICK seqs : seqs = [i \in DOMAIN ids |-> IF IsQueued(ents, ids[i]) THEN <<ids[i]>> ELSE <<>>]
  OBVIOUS
<1>3. ASSUME NEW i \in 1 .. n PROVE seqs[i] \in Seq(Ids)
  <2>1. PICK x \in Holders : x = ids[i]
    BY <1>1
  <2>2. seqs[i] = IF IsQueued(ents, x) THEN <<x>> ELSE <<>>
    BY <1>1, <1>2, <2>1
  <2>3. CASE IsQueued(ents, x)
    <3>1. x \in Ids
      BY <2>3, HoldersAre DEF IsQueued
    <3> QED
      BY <2>2, <2>3, <3>1
  <2>4. CASE ~ IsQueued(ents, x)
    BY <2>2, <2>4
  <2> QED
    BY <2>3, <2>4
<1>4. seqs = [i \in 1 .. n |-> seqs[i]]
  BY <1>1, <1>2
<1>5. seqs \in Seq(Seq(Ids))
  BY <1>1, <1>3, <1>4
<1>6. FlattenSeq(seqs) \in Seq(Ids)
  BY <1>5, FlattenType
<1> QED
  BY <1>2, <1>6 DEF Queued

LEMMA SignalsDo ==
    ASSUME m_dirtyEntities \in Seq(Ids), NEW ents \in [Ids -> Entity], NEW ids \in Seq(Holders), Signals(ents, ids)
    PROVE  /\ entity' \in [Ids -> Entity] /\ m_dirtyEntities' \in Seq(Ids)
           /\ \A e \in Ids : entity'[e] = [ents[e] EXCEPT !.queued = ents[e].queued \/ e \in Range(Queued(ents, ids))]
<1>1. PICK q \in Seq(Ids) : q = Queued(ents, ids)
  BY QueuedType
<1>2. m_dirtyEntities' = m_dirtyEntities \o q
  BY <1>1 DEF Signals
<1>3. m_dirtyEntities' \in Seq(Ids)
  BY <1>2
<1>4. entity' = [e \in Ids |-> [ents[e] EXCEPT !.queued = ents[e].queued \/ e \in Range(q)]]
  BY <1>1 DEF Signals, Flagged
<1>5. ASSUME NEW e \in Ids PROVE entity'[e] \in Entity
  <2>1. ents[e] \in Entity /\ (ents[e].queued \/ e \in Range(q)) \in BOOLEAN
    OBVIOUS
  <2> QED
    BY <1>4, <2>1, EntityTypes
<1> QED
  BY <1>1, <1>3, <1>4, <1>5

GoodArg(cmd, arg) ==
    \/ cmd \in {"insert entity", "update entity"} /\ arg \in Holders
    \/ cmd \in {"insert properties", "update property"} /\ arg \in 1 .. MaxValue
    \/ cmd \in {"delete entity", "delete properties"} /\ arg = 0

\* c is a command of its kind about e.
Commanded(c, cmd, e, arg) == c \in GoodCommand /\ c.id = e /\ c.cmd = cmd /\ c.arg = arg

LEMMA CommandTypes ==
    ASSUME NEW cmd, NEW e \in Ids, NEW arg, GoodArg(cmd, arg), NEW c, c = Command(cmd, e, arg)
    PROVE  Commanded(c, cmd, e, arg)
<1>2. c.id = e /\ c.cmd = cmd /\ c.arg = arg /\ c = [cmd |-> cmd, id |-> e, arg |-> arg]
  BY DEF Command
<1>3. arg \in 0 .. MaxId + MaxValue
  <2>1. CASE arg \in 0 .. MaxId
    BY <2>1, StorageAssumption
  <2>2. CASE arg \in 1 .. MaxValue
    BY <2>2, StorageAssumption
  <2>3. CASE arg = 0
    BY <2>3, StorageAssumption
  <2> QED
    BY <2>1, <2>2, <2>3 DEF GoodArg, Holders
<1>4. c \in CommandType
  BY <1>2, <1>3 DEF CommandType, GoodArg
<1>5. /\ c.cmd \in {"insert entity", "update entity"} => c.arg \in 0 .. MaxId
      /\ c.cmd \in {"insert properties", "update property"} => c.arg \in 1 .. MaxValue
  BY <1>2 DEF GoodArg, Holders
<1> QED
  BY <1>2, <1>4, <1>5 DEF GoodCommand, Commanded

\* The commands about e, and those of them that insert no row.
Of(e) == {c \in GoodCommand : c.id = e}
NotInserting(e) == {c \in Of(e) : c.cmd # "insert entity"}

LEMMA CommandsOf ==
    ASSUME entity \in [Ids -> Entity], NEW e \in Ids
    PROVE  /\ DropCommands(e) \in Seq(NotInserting(e))
           /\ UpdateCommands(e) \in Seq(NotInserting(e))
           /\ InsertCommands(e) \in Seq(Of(e))
<1>1. PICK p, v : p = entity[e].parent /\ v = entity[e].value /\ p \in Holders /\ v \in 0 .. MaxValue
  BY DEF Entity, Holders
<1>2. PICK zero : zero = 0
  OBVIOUS
<1>3. PICK iE, uE, iP, uP, dP, dE :
          /\ iE = "insert entity" /\ uE = "update entity" /\ iP = "insert properties"
          /\ uP = "update property" /\ dP = "delete properties" /\ dE = "delete entity"
  OBVIOUS
<1>4. /\ GoodArg(dP, zero) /\ GoodArg(dE, zero) /\ GoodArg(iE, p) /\ GoodArg(uE, p)
      /\ (v # 0 => GoodArg(iP, v)) /\ (v # 0 => GoodArg(uP, v))
  <2>1. v # 0 => v \in 1 .. MaxValue
    BY <1>1, StorageAssumption
  <2> QED
    BY <1>1, <1>2, <1>3, <2>1 DEF GoodArg
<1>5. PICK a, b, c, d, f, g :
          /\ a = Command(dP, e, zero) /\ b = Command(dE, e, zero) /\ c = Command(iE, e, p)
          /\ d = Command(uE, e, p) /\ f = Command(iP, e, v) /\ g = Command(uP, e, v)
  OBVIOUS
<1>6. /\ Commanded(a, dP, e, zero) /\ Commanded(b, dE, e, zero) /\ Commanded(c, iE, e, p) /\ Commanded(d, uE, e, p)
      /\ v # 0 => Commanded(f, iP, e, v) /\ Commanded(g, uP, e, v)
  BY <1>4, <1>5, CommandTypes
<1>7. /\ a \in NotInserting(e) /\ b \in NotInserting(e) /\ c \in Of(e) /\ d \in NotInserting(e)
      /\ v # 0 => f \in NotInserting(e) /\ f \in Of(e) /\ g \in NotInserting(e)
  BY <1>3, <1>6 DEF NotInserting, Of, Commanded
<1>8. DropCommands(e) \in Seq(NotInserting(e))
  <2>1. DropCommands(e) = <<a, b>>
    BY <1>2, <1>3, <1>5 DEF DropCommands
  <2> QED
    BY <1>7, <2>1
<1>9. InsertCommands(e) \in Seq(Of(e))
  <2>1. InsertCommands(e) = IF ~ Alive(e) THEN <<>> ELSE <<c>> \o (IF v = 0 THEN <<>> ELSE <<f>>)
    BY <1>1, <1>3, <1>5 DEF InsertCommands
  <2> QED
    BY <1>7, <2>1
<1>10. UpdateCommands(e) \in Seq(NotInserting(e))
  <2>1. PICK h : h = IF entity[e].seen THEN g ELSE f
    OBVIOUS
  <2>2. h = Command(IF entity[e].seen THEN "update property" ELSE "insert properties", e, v)
    BY <1>3, <1>5, <2>1
  <2>3. v # 0 => h \in NotInserting(e)
    BY <1>7, <2>1
  <2>4. UpdateCommands(e) = IF entity[e].clean THEN <<>>
                            ELSE (IF entity[e].status = "destroyed" THEN <<>> ELSE <<d>>)
                                 \o (IF v = 0 \/ entity[e].pclean THEN <<>> ELSE <<h>>)
    BY <1>1, <1>3, <1>5, <2>2 DEF UpdateCommands
  <2>5. PICK x, y : /\ x = IF entity[e].status = "destroyed" THEN <<>> ELSE <<d>>
                    /\ y = IF v = 0 \/ entity[e].pclean THEN <<>> ELSE <<h>>
    OBVIOUS
  <2>6. x \in Seq(NotInserting(e)) /\ y \in Seq(NotInserting(e))
    BY <1>7, <2>3, <2>5
  <2>7. UpdateCommands(e) = IF entity[e].clean THEN <<>> ELSE x \o y
    BY <2>4, <2>5
  <2> QED
    BY <2>6, <2>7
<1> QED
  BY <1>8, <1>9, <1>10

\* What the commands of each entity consist of, a tick's commands consist of.
LEMMA DropsIn ==
    ASSUME TypeOK, NEW C, \A i \in DOMAIN m_destroyedEntities : DropCommands(m_destroyedEntities[i]) \in Seq(C)
    PROVE  Drops \in Seq(C)
<1>1. PICK k \in Nat : DOMAIN m_destroyedEntities = 1 .. k
  BY DEF TypeOK
<1>2. PICK seqs : seqs = [i \in 1 .. k |-> DropCommands(m_destroyedEntities[i])]
  OBVIOUS
<1>3. seqs \in Seq(Seq(C))
  BY <1>1, <1>2
<1>4. FlattenSeq(seqs) \in Seq(C)
  BY <1>3, FlattenType
<1> QED
  BY <1>1, <1>2, <1>4 DEF Drops

LEMMA InsertsIn ==
    ASSUME TypeOK, NEW C, \A i \in DOMAIN m_unstoredEntities : InsertCommands(m_unstoredEntities[i]) \in Seq(C)
    PROVE  Inserts \in Seq(C)
<1>1. PICK k \in Nat : DOMAIN m_unstoredEntities = 1 .. k
  BY DEF TypeOK
<1>2. PICK seqs : seqs = [i \in 1 .. k |-> InsertCommands(m_unstoredEntities[i])]
  OBVIOUS
<1>3. seqs \in Seq(Seq(C))
  BY <1>1, <1>2
<1>4. FlattenSeq(seqs) \in Seq(C)
  BY <1>3, FlattenType
<1> QED
  BY <1>1, <1>2, <1>4 DEF Inserts

LEMMA UpdatesIn ==
    ASSUME TypeOK, NEW n \in 0 .. Len(m_dirtyEntities), NEW C,
           \A i \in 1 .. n : UpdateCommands(m_dirtyEntities[i]) \in Seq(C)
    PROVE  Updates(n) \in Seq(C)
<1>1. n \in Nat
  BY DEF TypeOK
<1>2. PICK seqs : seqs = [i \in 1 .. n |-> UpdateCommands(m_dirtyEntities[i])]
  OBVIOUS
<1>3. seqs \in Seq(Seq(C))
  BY <1>1, <1>2
<1>4. FlattenSeq(seqs) \in Seq(C)
  BY <1>3, FlattenType
<1> QED
  BY <1>2, <1>4 DEF Updates

LEMMA TickCommandsIn ==
    ASSUME TypeOK, NEW n \in 0 .. Len(m_dirtyEntities), NEW C,
           \A i \in DOMAIN m_destroyedEntities : DropCommands(m_destroyedEntities[i]) \in Seq(C),
           \A i \in DOMAIN m_unstoredEntities : InsertCommands(m_unstoredEntities[i]) \in Seq(C),
           \A i \in 1 .. n : UpdateCommands(m_dirtyEntities[i]) \in Seq(C)
    PROVE  Drops \in Seq(C) /\ Inserts \in Seq(C) /\ Updates(n) \in Seq(C) /\ TickCommands(n) \in Seq(C)
<1>1. Drops \in Seq(C) /\ Inserts \in Seq(C) /\ Updates(n) \in Seq(C)
  BY DropsIn, InsertsIn, UpdatesIn
<1>2. Drops \o Inserts \o Updates(n) \in Seq(C)
  BY <1>1
<1> QED
  BY <1>1, <1>2 DEF TickCommands

\* The commands of a tick, and what each of them is about.
LEMMA TickCommandsGood ==
    ASSUME TypeOK, NEW n \in 0 .. Len(m_dirtyEntities)
    PROVE  /\ TickCommands(n) \in Seq(GoodCommand)
           /\ \A e \in Ids : e \notin Range(m_unstoredEntities) => TickCommands(n) \in Seq(NoInsertOf(e))
<1>1. /\ \A i \in DOMAIN m_destroyedEntities : m_destroyedEntities[i] \in Ids
      /\ \A i \in DOMAIN m_unstoredEntities : m_unstoredEntities[i] \in Ids
      /\ \A i \in 1 .. n : m_dirtyEntities[i] \in Ids
      /\ entity \in [Ids -> Entity]
  BY DEF TypeOK
<1>2. TickCommands(n) \in Seq(GoodCommand)
  <2>1. ASSUME NEW x \in Ids
        PROVE  DropCommands(x) \in Seq(GoodCommand) /\ InsertCommands(x) \in Seq(GoodCommand) /\ UpdateCommands(x) \in Seq(GoodCommand)
    <3>1. NotInserting(x) \subseteq GoodCommand /\ Of(x) \subseteq GoodCommand
      BY DEF NotInserting, Of
    <3> QED
      BY <1>1, <3>1, CommandsOf
  <2> QED
    BY <1>1, <2>1, TickCommandsIn
<1>3. ASSUME NEW e \in Ids, e \notin Range(m_unstoredEntities) PROVE TickCommands(n) \in Seq(NoInsertOf(e))
  <2>1. ASSUME NEW x \in Ids
        PROVE  /\ DropCommands(x) \in Seq(NoInsertOf(e)) /\ UpdateCommands(x) \in Seq(NoInsertOf(e))
               /\ x # e => InsertCommands(x) \in Seq(NoInsertOf(e))
    <3>1. NotInserting(x) \subseteq NoInsertOf(e) /\ (x # e => Of(x) \subseteq NoInsertOf(e))
      BY DEF NotInserting, Of, NoInsertOf
    <3> QED
      BY <1>1, <3>1, CommandsOf
  <2>2. \A i \in DOMAIN m_unstoredEntities : m_unstoredEntities[i] # e
    BY <1>3 DEF Range
  <2> QED
    BY <1>1, <2>1, <2>2, TickCommandsIn
<1> QED
  BY <1>2, <1>3

LEMMA ContainersType ==
    ASSUME NEW p \in Holders, NEW c
    PROVE  /\ BecomesNonEmpty(p) \in Seq(Holders) /\ BecomesEmpty(p, c) \in Seq(Holders)
           /\ BecomesNonEmpty(p) = IF Children(p) = {} THEN <<p>> ELSE <<>>
           /\ BecomesEmpty(p, c) = IF Children(p) = {c} THEN <<p>> ELSE <<>>
  BY DEF BecomesNonEmpty, BecomesEmpty

\* The state in which Create, Update, Move and Delete emit their signals.
CreatedEntities(e, parent, value) ==
    [entity EXCEPT ![e] = [None EXCEPT !.status = "alive", !.parent = parent, !.queued = TRUE,
                                       !.value = value, !.unsent = value # 0]]
UpdatedEntities(e) ==
    [entity EXCEPT ![e].updating = FALSE, ![e].unsent = FALSE, ![e].clean = FALSE,
                   ![e].pclean = @ /\ ~entity[e].unsent]
MovedEntities(e, to) == [entity EXCEPT ![e].parent = to, ![e].clean = FALSE, ![e].updating = TRUE]
DeletedEntities(e) ==
    [i \in Ids |-> IF i = e THEN [entity[e] EXCEPT !.status = "destroyed"]
                   ELSE IF i \in Children(e)
                        THEN [entity[i] EXCEPT !.parent = entity[e].parent, !.clean = FALSE, !.updating = TRUE]
                        ELSE entity[i]]

\* ents differs from entity by the new entity e.
WithNew(ents, e, p, v) ==
    /\ ents \in [Ids -> Entity]
    /\ ents[e] = [None EXCEPT !.status = "alive", !.parent = p, !.queued = TRUE, !.value = v, !.unsent = v # 0]
    /\ \A x \in Ids : x # e => ents[x] = entity[x]

LEMMA CreatedAre ==
    ASSUME entity \in [Ids -> Entity], NEW e \in Ids, NEW p \in Holders, NEW v \in 0 .. MaxValue,
           NEW ents, ents = CreatedEntities(e, p, v)
    PROVE  WithNew(ents, e, p, v)
<1>1. PICK c : c = [None EXCEPT !.status = "alive", !.parent = p, !.queued = TRUE, !.value = v, !.unsent = v # 0]
  OBVIOUS
<1>2. None \in Entity
  <2>1. entity[e] \in Entity
    OBVIOUS
  <2> QED
    BY <2>1, EntityTypes
<1>3. c \in Entity
  BY <1>1, <1>2 DEF Entity, Holders
<1>4. ents = [entity EXCEPT ![e] = c]
  BY <1>1 DEF CreatedEntities
<1> QED
  BY <1>1, <1>3, <1>4 DEF WithNew

\* ents differs from entity by e, of which an Update operation was handled.
WithUpdated(ents, e) ==
    /\ ents \in [Ids -> Entity]
    /\ ents[e] = [entity[e] EXCEPT !.updating = FALSE, !.unsent = FALSE, !.clean = FALSE,
                                   !.pclean = entity[e].pclean /\ ~ entity[e].unsent]
    /\ \A x \in Ids : x # e => ents[x] = entity[x]

LEMMA UpdatedAre ==
    ASSUME entity \in [Ids -> Entity], NEW e \in Ids, NEW ents, ents = UpdatedEntities(e)
    PROVE  WithUpdated(ents, e)
<1>1. PICK r \in Entity : r = entity[e]
  OBVIOUS
<1>2. PICK u : u = [r EXCEPT !.updating = FALSE, !.unsent = FALSE, !.clean = FALSE, !.pclean = r.pclean /\ ~ r.unsent]
  OBVIOUS
<1>3. u \in Entity
  BY <1>1, <1>2 DEF Entity
<1>4. ents = [entity EXCEPT ![e] = u]
  BY <1>1, <1>2 DEF UpdatedEntities
<1> QED
  BY <1>1, <1>2, <1>3, <1>4 DEF WithUpdated

\* ... by e, which moved to p.
WithMoved(ents, e, p) ==
    /\ ents \in [Ids -> Entity]
    /\ ents[e] = [entity[e] EXCEPT !.parent = p, !.clean = FALSE, !.updating = TRUE]
    /\ \A x \in Ids : x # e => ents[x] = entity[x]

LEMMA MovedAre ==
    ASSUME entity \in [Ids -> Entity], NEW e \in Ids, NEW p \in Holders, NEW ents, ents = MovedEntities(e, p)
    PROVE  WithMoved(ents, e, p)
<1>1. PICK r \in Entity : r = entity[e]
  OBVIOUS
<1>2. PICK m : m = [r EXCEPT !.parent = p, !.clean = FALSE, !.updating = TRUE]
  OBVIOUS
<1>3. m \in Entity
  BY <1>1, <1>2 DEF Entity, Holders
<1>4. ents = [entity EXCEPT ![e] = m]
  BY <1>1, <1>2 DEF MovedEntities
<1> QED
  BY <1>1, <1>2, <1>3, <1>4 DEF WithMoved

\* ... by e, which was destroyed, and what it contained.
WithDeleted(ents, e) ==
    /\ ents \in [Ids -> Entity]
    /\ ents[e] = [entity[e] EXCEPT !.status = "destroyed"]
    /\ \A x \in Ids : x # e =>
           /\ x \notin Children(e) => ents[x] = entity[x]
           /\ x \in Children(e) =>
                  ents[x] = [entity[x] EXCEPT !.parent = entity[e].parent, !.clean = FALSE, !.updating = TRUE]

LEMMA DeletedAre ==
    ASSUME entity \in [Ids -> Entity], NEW e \in Ids, NEW ents, ents = DeletedEntities(e)
    PROVE  WithDeleted(ents, e)
<1>1. ents[e] = [entity[e] EXCEPT !.status = "destroyed"] /\ ents[e] \in Entity
  BY DEF DeletedEntities, Entity
<1>2. ASSUME NEW x \in Ids, x # e
      PROVE  /\ x \notin Children(e) => ents[x] = entity[x]
             /\ x \in Children(e) =>
                    ents[x] = [entity[x] EXCEPT !.parent = entity[e].parent, !.clean = FALSE, !.updating = TRUE]
             /\ ents[x] \in Entity
  <2>1. PICK p, r : p = entity[e].parent /\ r = entity[x] /\ p \in 0 .. MaxId /\ r \in Entity
    BY DEF Entity
  <2>2. ents[x] = IF x \in Children(e) THEN [r EXCEPT !.parent = p, !.clean = FALSE, !.updating = TRUE] ELSE r
    BY <1>2, <2>1 DEF DeletedEntities
  <2>3. [r EXCEPT !.parent = p, !.clean = FALSE, !.updating = TRUE] \in Entity
    BY <2>1 DEF Entity
  <2> QED
    BY <2>1, <2>2, <2>3
<1>3. ents = [x \in Ids |-> ents[x]]
  BY DEF DeletedEntities
<1>4. ents \in [Ids -> Entity]
  BY <1>1, <1>2, <1>3
<1> QED
  BY <1>1, <1>2, <1>4 DEF WithDeleted

LEMMA Unchanged ==
    ASSUME StoreTypes, UNCHANGED vars PROVE StoreTypes'
  BY DEF StoreTypes, TypeOK, vars, managerVars, tables

LEMMA CreateTypes ==
    ASSUME StoreTypes, NEW p \in Holders, NEW v \in {0, 1}, Create(p, v)
    PROVE  /\ StoreTypes'
           /\ idGenerator + 1 \in Ids
           /\ Signals(CreatedEntities(idGenerator + 1, p, v), BecomesNonEmpty(p))
<1>1. PICK e \in Ids : e = idGenerator + 1
  BY DEF Create
<1>2. v \in 0 .. MaxValue
  BY StorageAssumption
<1>3. CreatedEntities(e, p, v) \in [Ids -> Entity]
  BY <1>1, <1>2, CreatedAre DEF StoreTypes, TypeOK, WithNew
<1>4. Signals(CreatedEntities(e, p, v), BecomesNonEmpty(p))
  BY <1>1 DEF Create, CreatedEntities
<1>5. entity' \in [Ids -> Entity] /\ m_dirtyEntities' \in Seq(Ids)
  BY <1>3, <1>4, SignalsDo, ContainersType DEF StoreTypes, TypeOK
<1>6. m_unstoredEntities' \in Seq(Ids)
  <2>1. m_unstoredEntities' = Append(m_unstoredEntities, e)
    BY <1>1 DEF Create
  <2> QED
    BY <2>1 DEF StoreTypes, TypeOK
<1>7. idGenerator' \in 0 .. MaxId
  BY <1>1, StorageAssumption DEF Create, Ids
<1> QED
  BY <1>1, <1>4, <1>5, <1>6, <1>7 DEF StoreTypes, TypeOK, Create, tables

LEMMA SetTypes ==
    ASSUME StoreTypes, NEW e \in Ids, NEW v \in 1 .. MaxValue, SetProperty(e, v)
    PROVE  /\ StoreTypes'
           /\ entity'[e] = [entity[e] EXCEPT !.value = v, !.pclean = FALSE, !.clean = FALSE,
                                             !.unsent = TRUE, !.updating = TRUE]
           /\ \A i \in Ids : i # e => entity'[i] = entity[i]
<1>1. PICK r \in Entity : r = entity[e]
  BY DEF StoreTypes, TypeOK
<1>2. PICK x : x = [r EXCEPT !.value = v, !.pclean = FALSE, !.clean = FALSE, !.unsent = TRUE, !.updating = TRUE]
  OBVIOUS
<1>3. x \in Entity
  <2>1. v \in 0 .. MaxValue
    OBVIOUS
  <2> QED
    BY <1>1, <1>2, <2>1 DEF Entity
<1>4. entity' = [entity EXCEPT ![e] = x]
  BY <1>1, <1>2 DEF SetProperty, StoreTypes, TypeOK
<1>5. entity \in [Ids -> Entity]
  BY DEF StoreTypes, TypeOK
<1>6. entity' \in [Ids -> Entity] /\ entity'[e] = x /\ \A i \in Ids : i # e => entity'[i] = entity[i]
  BY <1>3, <1>4, <1>5
<1> QED
  BY <1>1, <1>2, <1>6 DEF StoreTypes, TypeOK, SetProperty, managerVars, tables

LEMMA UpdateTypes ==
    ASSUME StoreTypes, NEW e \in Ids, Update(e)
    PROVE  StoreTypes' /\ Signals(UpdatedEntities(e), <<e>>) /\ <<e>> \in Seq(Holders)
<1>1. UpdatedEntities(e) \in [Ids -> Entity]
  BY UpdatedAre DEF StoreTypes, TypeOK, WithUpdated
<1>2. Signals(UpdatedEntities(e), <<e>>)
  BY DEF Update, UpdatedEntities
<1>3. <<e>> \in Seq(Holders)
  BY HoldersAre
<1>4. entity' \in [Ids -> Entity] /\ m_dirtyEntities' \in Seq(Ids)
  BY <1>1, <1>2, <1>3, SignalsDo DEF StoreTypes, TypeOK
<1> QED
  BY <1>2, <1>3, <1>4 DEF StoreTypes, TypeOK, Update, tables

LEMMA MoveTypes ==
    ASSUME StoreTypes, NEW e \in Ids, NEW to \in Holders, Move(e, to), NEW ids,
           ids = BecomesEmpty(entity[e].parent, e) \o BecomesNonEmpty(to) \o <<e>>
    PROVE  StoreTypes' /\ Signals(MovedEntities(e, to), ids) /\ ids \in Seq(Holders)
<1>1. MovedEntities(e, to) \in [Ids -> Entity]
  BY MovedAre DEF StoreTypes, TypeOK, WithMoved
<1>2. Signals(MovedEntities(e, to), ids)
  BY DEF Move, MovedEntities
<1>3. ids \in Seq(Holders)
  <2>1. entity[e].parent \in Holders
    BY DEF StoreTypes, TypeOK, Entity, Holders
  <2>2. PICK a, b : a = BecomesEmpty(entity[e].parent, e) /\ b = BecomesNonEmpty(to)
    OBVIOUS
  <2>3. a \in Seq(Holders) /\ b \in Seq(Holders)
    BY <2>1, <2>2, ContainersType
  <2>4. <<e>> \in Seq(Holders)
    BY HoldersAre
  <2> QED
    BY <2>2, <2>3, <2>4
<1>4. entity' \in [Ids -> Entity] /\ m_dirtyEntities' \in Seq(Ids)
  BY <1>1, <1>2, <1>3, SignalsDo DEF StoreTypes, TypeOK
<1> QED
  BY <1>2, <1>3, <1>4 DEF StoreTypes, TypeOK, Move, tables

LEMMA SetToSeqsType ==
    ASSUME NEW S, IsFiniteSet(S), NEW s \in SetToSeqs(S)
    PROVE  s \in Seq(S) /\ NoDup(s) /\ Range(s) = S
<1>1. PICK n \in Nat : n = Cardinality(S)
  BY FS_CardinalityType
<1>2. s \in [1 .. n -> S] /\ \A i, j \in 1 .. n : i # j => s[i] # s[j]
  BY <1>1 DEF SetToSeqs
<1>3. s \in Seq(S) /\ NoDup(s) /\ DOMAIN s = 1 .. n
  BY <1>2 DEF NoDup
<1>4. s \in Injection(1 .. n, S)
  BY <1>2 DEF Injection, IsInjective
<1>5. Range(s) = S
  <2>1. IsFiniteSet(1 .. n) /\ Cardinality(1 .. n) = n
    BY <1>1, FS_Interval
  <2>2. s \in Surjection(1 .. n, S)
    BY <1>1, <1>4, <2>1, FS_Injection
  <2> QED
    BY <1>3, <2>2 DEF Surjection, Range
<1> QED
  BY <1>3, <1>5

LEMMA ChildrenAre ==
    ASSUME NEW e PROVE Children(e) \subseteq Ids /\ IsFiniteSet(Children(e)) /\ IsFiniteSet(Ids)
<1>1. Children(e) \subseteq Ids
  BY DEF Children
<1>2. IsFiniteSet(Ids)
  BY StorageAssumption, FS_Interval DEF Ids
<1> QED
  BY <1>1, <1>2, FS_Subset

LEMMA DeleteTypes ==
    ASSUME StoreTypes, NEW e \in Ids, NEW inside \in SetToSeqs(Children(e)), Delete(e, inside), NEW ids,
           ids = inside \o (IF inside = <<>> THEN BecomesEmpty(entity[e].parent, e) ELSE <<>>)
    PROVE  StoreTypes' /\ Signals(DeletedEntities(e), ids) /\ ids \in Seq(Holders)
<1>1. DeletedEntities(e) \in [Ids -> Entity]
  BY DeletedAre DEF StoreTypes, TypeOK, WithDeleted
<1>2. Signals(DeletedEntities(e), ids)
  BY DEF Delete, DeletedEntities
<1>3. ids \in Seq(Holders)
  <2>1. inside \in Seq(Children(e)) /\ Children(e) \subseteq Holders
    BY ChildrenAre, SetToSeqsType, HoldersAre
  <2>2. PICK b : b = IF inside = <<>> THEN BecomesEmpty(entity[e].parent, e) ELSE <<>>
    OBVIOUS
  <2>3. entity[e].parent \in Holders
    BY DEF StoreTypes, TypeOK, Entity, Holders
  <2>4. BecomesEmpty(entity[e].parent, e) \in Seq(Holders)
    BY <2>3, ContainersType
  <2>5. b \in Seq(Holders) /\ inside \in Seq(Holders)
    BY <2>1, <2>2, <2>4
  <2> QED
    BY <2>2, <2>5
<1>4. entity' \in [Ids -> Entity] /\ m_dirtyEntities' \in Seq(Ids)
  BY <1>1, <1>2, <1>3, SignalsDo DEF StoreTypes, TypeOK
<1>5. m_destroyedEntities' \in Seq(Ids)
  <2>1. PICK k \in Nat : k = DestroyedSignals(e)
    BY DEF DestroyedSignals
  <2>2. [i \in 1 .. k |-> e] \in Seq(Ids)
    OBVIOUS
  <2>3. m_destroyedEntities' = m_destroyedEntities \o [i \in 1 .. k |-> e]
    BY <2>1 DEF Delete
  <2> QED
    BY <2>2, <2>3 DEF StoreTypes, TypeOK
<1> QED
  BY <1>2, <1>3, <1>4, <1>5 DEF StoreTypes, TypeOK, Delete, tables

\* tick() goes through e.
Ticked(e, n) == \E i \in 1 .. n : m_dirtyEntities[i] = e

LEMMA TickTypes ==
    ASSUME StoreTypes, NEW n, TickBody(n)
    PROVE  /\ entity' \in [Ids -> Entity]
           /\ m_unstoredEntities' \in Seq(Ids) /\ m_dirtyEntities' \in Seq(Ids) /\ m_destroyedEntities' \in Seq(Ids)
           /\ pendingQueries' \in Seq(GoodCommand)
           /\ \A e \in Ids : entity'[e] = IF Alive(e) /\ e \in Range(m_unstoredEntities) THEN AfterInsert(entity[e])
                                          ELSE IF Ticked(e, n) THEN AfterUpdate(entity[e]) ELSE entity[e]
<1>1. n \in 0 .. Len(m_dirtyEntities) /\ TypeOK /\ pendingQueries \in Seq(GoodCommand)
  BY DEF TickBody, StoreTypes
<1>2. TickCommands(n) \in Seq(GoodCommand)
  BY <1>1, TickCommandsGood
<1>3. pendingQueries' \in Seq(GoodCommand)
  <2>1. pendingQueries' = pendingQueries \o TickCommands(n)
    BY DEF TickBody
  <2> QED
    BY <1>1, <1>2, <2>1
<1>4. \A e \in Ids : entity'[e] = IF Alive(e) /\ e \in Range(m_unstoredEntities) THEN AfterInsert(entity[e])
                                  ELSE IF Ticked(e, n) THEN AfterUpdate(entity[e]) ELSE entity[e]
  BY DEF TickBody, Ticked
<1>5. \A e \in Ids : AfterInsert(entity[e]) \in Entity /\ AfterUpdate(entity[e]) \in Entity /\ entity[e] \in Entity
  BY <1>1, EntityTypes DEF TypeOK
<1>6. entity' \in [Ids -> Entity]
  <2>1. entity' = [e \in Ids |-> entity'[e]]
    BY DEF TickBody
  <2> QED
    BY <1>4, <1>5, <2>1
<1>7. m_unstoredEntities' \in Seq(Ids) /\ m_destroyedEntities' \in Seq(Ids)
  BY DEF TickBody
<1>8. m_dirtyEntities' \in Seq(Ids)
  <2>1. PICK d \in Seq(Ids) : d = m_dirtyEntities
    BY <1>1 DEF TypeOK
  <2>2. PICK k \in Nat : k = Len(d) /\ n \in Nat /\ DOMAIN d = 1 .. k /\ \A i \in 1 .. k : d[i] \in Ids
    BY <1>1, <2>1
  <2>3. \A i \in (n + 1) .. k : d[i] \in Ids
    BY <2>2
  <2>4. SubSeq(d, n + 1, k) \in Seq(Ids)
    BY <2>1, <2>2, <2>3, SubSeqProperties
  <2> QED
    BY <2>1, <2>2, <2>4 DEF TickBody
<1> QED
  BY <1>3, <1>4, <1>6, <1>7, <1>8

LEMMA ExecuteTypes ==
    ASSUME StoreTypes, ExecuteCommand
    PROVE  /\ StoreTypes' /\ Database \in Databases /\ Database' = Executed(Database, Head(pendingQueries))
           /\ pendingQueries # <<>> /\ Head(pendingQueries) \in GoodCommand
<1>1. Database \in Databases
  BY DEF Database, Databases, StoreTypes, TypeOK
<1>2. pendingQueries \in Seq(GoodCommand) /\ pendingQueries # <<>>
  BY DEF StoreTypes, ExecuteCommand
<1>3. Head(pendingQueries) \in GoodCommand /\ Tail(pendingQueries) \in Seq(GoodCommand)
  BY <1>2
<1>4. PICK d : d = Executed(Database, Head(pendingQueries))
  OBVIOUS
<1>5. d \in Databases
  BY <1>1, <1>3, <1>4, ExecutedIs DEF Changed
<1>6. entitiesTable' = d.rows /\ propertiesTable' = d.props
  BY <1>4 DEF ExecuteCommand
<1>7. d = [rows |-> entitiesTable', props |-> propertiesTable']
  BY <1>5, <1>6 DEF Databases
<1>8. Database' = d
  BY <1>7 DEF Database
<1>9. entitiesTable' \in [Ids -> NoRow .. MaxId] /\ propertiesTable' \in [Ids -> Seq(1 .. MaxValue)]
  BY <1>5, <1>6 DEF Databases
<1>10. pendingQueries' \in Seq(GoodCommand)
  BY <1>3 DEF ExecuteCommand
<1>11. pendingQueries' \in Seq(CommandType)
  BY <1>10, GoodCommands
<1> QED
  BY <1>1, <1>2, <1>3, <1>4, <1>8, <1>9, <1>10, <1>11 DEF StoreTypes, TypeOK, ExecuteCommand, managerVars

LEMMA MaxOfIs ==
    ASSUME NEW S, S \subseteq Ids PROVE MaxOf(S) \in S \cup {World} /\ \A i \in S : i <= MaxOf(S)
<1>1. PICK T : T = {MaxId - i : i \in S \cup {World}}
  OBVIOUS
<1>2. \A i \in S \cup {World} : i \in Nat /\ i <= MaxId /\ MaxId - i \in Nat
  BY StorageAssumption DEF Ids, World
<1>3. T \subseteq Nat /\ T # {}
  BY <1>1, <1>2
<1>4. PICK x \in T : \A y \in T : x <= y
  BY <1>3, LeastNumber
<1>5. PICK m \in S \cup {World} : x = MaxId - m
  BY <1>1
<1>6. \A i \in S : i <= m
  <2> SUFFICES ASSUME NEW i \in S PROVE i <= m
    OBVIOUS
  <2>1. MaxId - i \in T
    BY <1>1
  <2>2. MaxId - m <= MaxId - i
    BY <1>4, <1>5, <2>1
  <2> QED
    BY <1>2, <2>2, StorageAssumption
<1> QED
  BY <1>6 DEF MaxOf

\* What is restored has a row.
LEMMA RestorableStored ==
    ASSUME StoreTypes, NEW e \in Restorable PROVE e \in Ids /\ entitiesTable[e] # NoRow /\ entitiesTable[e] \in Holders
<1>1. e \in Ids /\ \A S \in SUBSET Ids : HoldsContent(S) => e \in S
  BY DEF Restorable
<1>2. PICK S : S = {x \in Ids : entitiesTable[x] # NoRow}
  OBVIOUS
<1>3. NoRow \notin S \cup {World}
  BY <1>2 DEF NoRow, World, Ids
<1>4. HoldsContent(S)
  BY <1>2, <1>3 DEF HoldsContent
<1>5. S \in SUBSET Ids
  BY <1>2
<1>6. entitiesTable[e] # NoRow
  BY <1>1, <1>2, <1>4, <1>5
<1>7. entitiesTable[e] \in NoRow .. MaxId
  BY <1>1 DEF StoreTypes, TypeOK
<1>8. entitiesTable[e] \in Holders
  BY <1>6, <1>7 DEF NoRow, Holders
<1> QED
  BY <1>1, <1>6, <1>8

LEMMA RestoredType ==
    ASSUME StoreTypes, NEW e \in Restorable PROVE Restored(e) \in Entity
<1>1. PICK p, rows : p = entitiesTable[e] /\ rows = propertiesTable[e] /\ p \in Holders /\ rows \in Seq(1 .. MaxValue)
  BY RestorableStored DEF StoreTypes, TypeOK
<1>2. PICK v : v = IF rows = <<>> THEN 0 ELSE Last(rows)
  OBVIOUS
<1>3. v \in 0 .. MaxValue
  <2>1. CASE rows = <<>>
    BY <1>2, <2>1, StorageAssumption
  <2>2. CASE rows # <<>>
    <3>1. PICK k \in Nat : k = Len(rows) /\ k # 0 /\ DOMAIN rows = 1 .. k
      BY <1>1, <2>2, EmptySeq
    <3>2. rows[k] \in 1 .. MaxValue
      <4>1. PICK V : V = 1 .. MaxValue
        OBVIOUS
      <4>2. rows \in Seq(V)
        BY <1>1, <4>1
      <4>3. rows[k] \in V
        BY <3>1, <4>2
      <4> QED
        BY <4>1, <4>3
    <3> QED
      BY <1>2, <2>2, <3>1, <3>2 DEF Last
  <2> QED
    BY <2>1, <2>2
<1>4. None \in Entity
  <2>1. PICK r \in Entity : TRUE
    <3>1. e \in Ids /\ entity \in [Ids -> Entity]
      BY RestorableStored DEF StoreTypes, TypeOK
    <3> QED
      BY <3>1
  <2> QED
    BY <2>1, EntityTypes
<1>5. Restored(e) = [None EXCEPT !.status = "alive", !.parent = p, !.queued = TRUE, !.value = v,
                                 !.pclean = rows # <<>>, !.seen = rows # <<>>]
  BY <1>1, <1>2 DEF Restored
<1> QED
  BY <1>1, <1>3, <1>4, <1>5 DEF Entity, Holders

LEMMA RestartTypes ==
    ASSUME StoreTypes, NEW order \in SetToSeqs(Restorable), Restart(order)
    PROVE  StoreTypes' /\ Range(order) = Restorable /\ order \in Seq(Ids) /\ NoDup(order)
<1>1. Restorable \subseteq Ids
  BY RestorableStored
<1>2. IsFiniteSet(Restorable)
  BY <1>1, ChildrenAre, FS_Subset
<1>3. order \in Seq(Restorable) /\ Range(order) = Restorable /\ NoDup(order)
  BY <1>2, SetToSeqsType
<1>4. order \in Seq(Ids)
  BY <1>1, <1>3
<1>5. entity' \in [Ids -> Entity]
  <2>1. None \in Entity \/ Ids = {}
    BY EntityTypes DEF StoreTypes, TypeOK
  <2>2. \A e \in Restorable : Restored(e) \in Entity
    BY RestoredType
  <2>3. entity' = [e \in Ids |-> IF e \in Restorable THEN Restored(e) ELSE None]
    BY DEF Restart
  <2> QED
    BY <2>1, <2>2, <2>3
<1>6. idGenerator' \in 0 .. MaxId
  <2>1. PICK S : S = {e \in Ids : entitiesTable[e] # NoRow}
    OBVIOUS
  <2>2. LastStoredId \in S \cup {World}
    BY <2>1, MaxOfIs DEF LastStoredId
  <2> QED
    BY <2>1, <2>2, StorageAssumption DEF Restart, Ids, World
<1>7. m_unstoredEntities' \in Seq(Ids) /\ m_dirtyEntities' \in Seq(Ids) /\ m_destroyedEntities' \in Seq(Ids)
  BY <1>4 DEF Restart
<1> QED
  BY <1>3, <1>4, <1>5, <1>6, <1>7 DEF StoreTypes, TypeOK, Restart, tables

-----------------------------------------------------------------------------
(* Ids *)

\* An id that is not given out is known to no table, command or queue.
Fresh(e) ==
    /\ entitiesTable[e] = NoRow
    /\ pendingQueries \in Seq(NoInsertOf(e))
    /\ e \notin Range(m_unstoredEntities)

FreshInv ==
    /\ StoreTypes
    /\ phase \in {"running", "stopping"} => \A e \in Ids : e > idGenerator => Fresh(e)
    /\ phase \in {"stopped", "crashed"} => pendingQueries = <<>>

LEMMA TickFresh ==
    ASSUME FreshInv, phase = "running", NEW n, TickBody(n), UNCHANGED <<idGenerator, tables>>
    PROVE  \A e \in Ids : e > idGenerator' => Fresh(e)'
<1> SUFFICES ASSUME NEW e \in Ids, e > idGenerator PROVE Fresh(e)'
  OBVIOUS
<1>1. Fresh(e) /\ TypeOK
  BY DEF FreshInv, StoreTypes
<1>2. TickCommands(n) \in Seq(NoInsertOf(e))
  BY <1>1, TickCommandsGood DEF TickBody, Fresh
<1>3. pendingQueries' \in Seq(NoInsertOf(e))
  <2>1. pendingQueries' = pendingQueries \o TickCommands(n)
    BY DEF TickBody
  <2> QED
    BY <1>1, <1>2, <2>1 DEF Fresh
<1>4. e \notin Range(m_unstoredEntities')
  BY NoneRange DEF TickBody
<1> QED
  BY <1>1, <1>3, <1>4 DEF Fresh, tables

LEMMA FreshSteps == FreshInv /\ [Next]_vars => FreshInv'
<1> SUFFICES ASSUME FreshInv, [Next]_vars PROVE FreshInv'
  OBVIOUS
<1> USE DEF FreshInv
<1>1. CASE \E p \in 0 .. MaxId, v \in {0, 1} : Create(p, v)
  <2>1. PICK p \in Holders, v \in {0, 1} : Create(p, v)
    BY <1>1 DEF Holders
  <2>2. StoreTypes' /\ idGenerator + 1 \in Ids
    BY <2>1, CreateTypes
  <2>3. /\ phase = "running" /\ phase' = phase /\ idGenerator' = idGenerator + 1
        /\ m_unstoredEntities' = Append(m_unstoredEntities, idGenerator + 1)
        /\ UNCHANGED <<pendingQueries, entitiesTable>>
    BY <2>1 DEF Create, tables
  <2>4. ASSUME NEW e \in Ids, e > idGenerator' PROVE Fresh(e)'
    <3>1. e > idGenerator /\ e # idGenerator + 1
      BY <2>3, <2>4 DEF StoreTypes, TypeOK, Ids
    <3>2. e \notin Range(m_unstoredEntities')
      <4>1. m_unstoredEntities \in Seq(Ids)
        BY DEF StoreTypes, TypeOK
      <4>2. PICK x \in Ids : x = idGenerator + 1
        BY <2>2
      <4>3. Range(m_unstoredEntities') = Range(m_unstoredEntities) \cup {x}
        BY <2>3, <4>1, <4>2, AppendRange
      <4> QED
        BY <2>3, <3>1, <4>2, <4>3 DEF Fresh
    <3> QED
      BY <2>3, <3>1, <3>2 DEF Fresh
  <2> QED
    BY <2>2, <2>3, <2>4
<1>2. CASE \E e \in Ids, v \in 1 .. MaxValue : SetProperty(e, v)
  <2>1. PICK e \in Ids, v \in 1 .. MaxValue : SetProperty(e, v)
    BY <1>2
  <2>2. StoreTypes'
    BY <2>1, SetTypes
  <2>3. UNCHANGED <<phase, idGenerator, m_unstoredEntities, pendingQueries, entitiesTable>>
    BY <2>1 DEF SetProperty, managerVars, tables
  <2> QED
    BY <2>2, <2>3 DEF Fresh
<1>3. CASE \E e \in Ids : Update(e)
  <2>1. PICK e \in Ids : Update(e)
    BY <1>3
  <2>2. StoreTypes'
    BY <2>1, UpdateTypes
  <2>3. UNCHANGED <<phase, idGenerator, m_unstoredEntities, pendingQueries, entitiesTable>>
    BY <2>1 DEF Update, managerVars, tables
  <2> QED
    BY <2>2, <2>3 DEF Fresh
<1>4. CASE \E e \in Ids, to \in 0 .. MaxId : Move(e, to)
  <2>1. PICK e \in Ids, to \in Holders : Move(e, to)
    BY <1>4 DEF Holders
  <2>2. StoreTypes'
    BY <2>1, MoveTypes
  <2>3. UNCHANGED <<phase, idGenerator, m_unstoredEntities, pendingQueries, entitiesTable>>
    BY <2>1 DEF Move, managerVars, tables
  <2> QED
    BY <2>2, <2>3 DEF Fresh
<1>5. CASE \E e \in Ids : \E inside \in SetToSeqs(Children(e)) : Delete(e, inside)
  <2>1. PICK e \in Ids : \E inside \in SetToSeqs(Children(e)) : Delete(e, inside)
    BY <1>5
  <2>2. PICK inside \in SetToSeqs(Children(e)) : Delete(e, inside)
    BY <2>1
  <2>3. StoreTypes'
    BY <2>2, DeleteTypes
  <2>4. UNCHANGED <<phase, idGenerator, m_unstoredEntities, pendingQueries, entitiesTable>>
    BY <2>2 DEF Delete, managerVars, tables
  <2> QED
    BY <2>3, <2>4 DEF Fresh
<1>6. CASE \E n \in DirtyCounts : Tick(n)
  <2>1. PICK n \in DirtyCounts : Tick(n)
    BY <1>6
  <2>2. phase = "running" /\ phase' = phase /\ TickBody(n) /\ UNCHANGED <<idGenerator, tables>>
    BY <2>1 DEF Tick
  <2>3. \A e \in Ids : e > idGenerator' => Fresh(e)'
    BY <2>2, TickFresh
  <2>4. StoreTypes'
    BY <2>2, TickTypes, GoodCommands DEF StoreTypes, TypeOK, tables
  <2> QED
    BY <2>2, <2>3, <2>4
<1>7. CASE ExecuteCommand
  <2>1. /\ StoreTypes' /\ Database \in Databases /\ Database' = Executed(Database, Head(pendingQueries))
        /\ pendingQueries # <<>>
    BY <1>7, ExecuteTypes
  <2>2. /\ UNCHANGED <<phase, idGenerator, m_unstoredEntities>> /\ pendingQueries' = Tail(pendingQueries)
        /\ phase \in {"running", "stopping"}
    BY <1>7, <2>1 DEF ExecuteCommand, managerVars, StoreTypes, TypeOK
  <2>3. ASSUME NEW e \in Ids, e > idGenerator' PROVE Fresh(e)'
    <3>1. Fresh(e)
      BY <2>2, <2>3
    <3>2. PICK c \in NoInsertOf(e) : c = Head(pendingQueries)
      BY <2>1, <3>1 DEF Fresh
    <3>3. pendingQueries' \in Seq(NoInsertOf(e))
      BY <2>1, <2>2, <3>1 DEF Fresh
    <3>4. After(Database, <<c>>).rows[e] = NoRow
      <4>1. <<c>> \in Seq(NoInsertOf(e))
        OBVIOUS
      <4>2. Database.rows[e] = NoRow
        BY <3>1 DEF Fresh, Database
      <4> QED
        BY <2>1, <4>1, <4>2, AfterNoInsert
    <3>5. Database'.rows[e] = NoRow
      BY <2>1, <3>2, <3>4, AfterOne
    <3> QED
      BY <2>2, <3>1, <3>3, <3>5 DEF Fresh, Database
  <2> QED
    BY <2>1, <2>2, <2>3
<1>8. CASE \E n \in DirtyCounts : Shutdown(n)
  <2>1. PICK n \in DirtyCounts : Shutdown(n)
    BY <1>8
  <2>2. phase = "running" /\ phase' = "stopping" /\ TickBody(n) /\ UNCHANGED <<idGenerator, tables>>
    BY <2>1 DEF Shutdown
  <2>3. \A e \in Ids : e > idGenerator' => Fresh(e)'
    BY <2>2, TickFresh
  <2>4. StoreTypes'
    BY <2>2, TickTypes, GoodCommands DEF StoreTypes, TypeOK, tables
  <2> QED
    BY <2>2, <2>3, <2>4
<1>9. CASE ShutdownComplete
  BY <1>9 DEF ShutdownComplete, StoreTypes, TypeOK, managerVars, tables
<1>10. CASE Crash
  BY <1>10 DEF Crash, StoreTypes, TypeOK, managerVars, tables
<1>11. CASE \E order \in SetToSeqs(Restorable) : Restart(order)
  <2>1. PICK order \in SetToSeqs(Restorable) : Restart(order)
    BY <1>11
  <2>2. StoreTypes' /\ Range(order) = Restorable
    BY <2>1, RestartTypes
  <2>3. /\ phase \in {"crashed", "stopped"} /\ phase' = "running" /\ pendingQueries' = <<>>
        /\ entitiesTable' = entitiesTable /\ idGenerator' = LastStoredId /\ m_unstoredEntities' = order
    BY <2>1 DEF Restart, tables
  <2>4. PICK S : S = {e \in Ids : entitiesTable[e] # NoRow}
    OBVIOUS
  <2>5. \A i \in S : i <= idGenerator'
    BY <2>3, <2>4, MaxOfIs DEF LastStoredId
  <2>6. ASSUME NEW e \in Ids, e > idGenerator' PROVE Fresh(e)'
    <3>1. e \notin S
      BY <2>2, <2>5, <2>6 DEF StoreTypes, TypeOK, Ids
    <3>2. entitiesTable'[e] = NoRow /\ e \notin Restorable
      BY <2>3, <2>4, <3>1, RestorableStored
    <3>3. <<>> \in Seq(NoInsertOf(e))
      OBVIOUS
    <3> QED
      BY <2>2, <2>3, <3>2, <3>3 DEF Fresh
  <2> QED
    BY <2>2, <2>3, <2>6
<1>12. CASE Ended \/ UNCHANGED vars
  <2>1. UNCHANGED vars
    BY <1>12 DEF Ended
  <2> QED
    BY <2>1, Unchanged DEF vars, managerVars, tables, Fresh
<1> QED
  BY <1>1, <1>2, <1>3, <1>4, <1>5, <1>6, <1>7, <1>8, <1>9, <1>10, <1>11, <1>12 DEF Next

LEMMA FreshStarts == Init => FreshInv
<1> SUFFICES ASSUME Init PROVE FreshInv
  OBVIOUS
<1>1. \A e \in Ids : None \in Entity
  BY StorageAssumption DEF None, Entity, World
<1>2. <<>> \in Seq(Ids) /\ <<>> \in Seq(GoodCommand) /\ <<>> \in Seq(CommandType) /\ <<>> \in Seq(1 .. MaxValue)
      /\ \A e \in Ids : <<>> \in Seq(NoInsertOf(e))
  OBVIOUS
<1>3. NoRow \in NoRow .. MaxId /\ 0 \in 0 .. MaxId
  BY StorageAssumption DEF NoRow
<1>4. TypeOK
  BY <1>1, <1>2, <1>3 DEF Init, TypeOK
<1> QED
  BY <1>2, <1>4, NoneRange DEF FreshInv, StoreTypes, Fresh, Init

\* registerEntityIdGenerator() starts after the last id stored, and newId() counts on:
\* an id that is not given out has no row, after any number of crashes and restarts.
THEOREM IdsAlwaysFresh == Spec => []FreshIds
<1>1. FreshInv => FreshIds
  BY DEF FreshInv, FreshIds, Fresh
<1> QED
  BY <1>1, FreshStarts, FreshSteps, PTL DEF Spec

-----------------------------------------------------------------------------
(* The queues and the rows to be *)

\* Where e stands in the queues, as its flags in ents say.
InQueues(ents, unstored, dirty, e) ==
    /\ ents[e].status = "none" => e \notin Range(unstored) /\ e \notin Range(dirty)
    /\ ents[e].status = "alive" =>
           /\ e \in Range(unstored) <=> ~ ents[e].connected
           /\ e \in Range(dirty) <=> ents[e].connected /\ ents[e].queued
           /\ ~ ents[e].connected => ents[e].queued

\* Containers live, and no entity is inside of itself.
Contained(ents) ==
    /\ \A e \in Ids : ents[e].status = "alive" =>
           ents[e].parent = World \/ ents[ents[e].parent].status = "alive"
    /\ \A S \in SUBSET Ids : S # {} /\ (\A x \in S : ents[x].status = "alive") =>
           \E x \in S : ents[x].parent \notin S

QueueInv ==
    /\ NoDup(m_unstoredEntities) /\ NoDup(m_dirtyEntities)
    /\ \A e \in Ids : InQueues(entity, m_unstoredEntities, m_dirtyEntities, e)
    /\ \A e \in Ids : e > idGenerator => entity[e].status = "none"
    /\ Contained(entity)

\* What the flags of the entity r say of its row and of its property rows.
Stored(r, row, values) ==
    /\ r.status = "none" => row = NoRow /\ values = <<>>
    /\ r.status = "alive" /\ ~ r.connected =>
           row = NoRow /\ values = <<>> /\ ~ r.clean /\ ~ r.seen /\ ~ r.pclean
    /\ r.status = "alive" /\ r.connected =>
           /\ row # NoRow
           /\ r.seen <=> values # <<>>
           /\ r.clean => row = r.parent
           /\ r.pclean => r.value # 0 /\ values # <<>> /\ Last(values) = r.value
           /\ r.seen => r.value # 0
           /\ r.clean /\ r.value # 0 => r.pclean

\* A change is noted: the entity is queued, or an Update operation is on its way.
Noted(r) == r.status = "alive" /\ ~ r.clean => r.queued \/ r.updating

\* Destroyed entities, and no other, are dropped.
Dropped(r, row, waits) ==
    /\ r.status # "destroyed" => ~ waits
    /\ r.status = "destroyed" => row = NoRow \/ waits

\* Before the first restart, when nothing was lost in a crash.
StoreInv ==
    restarts = 0 /\ phase # "crashed" =>
        /\ \A e \in Ids :
               /\ Stored(entity[e], FutureDatabase.rows[e], FutureDatabase.props[e])
               /\ Noted(entity[e])
               /\ Dropped(entity[e], FutureDatabase.rows[e], e \in Range(m_destroyedEntities))
        /\ phase # "running" => m_unstoredEntities = <<>> /\ m_destroyedEntities = <<>>

PersistenceInv == FreshInv /\ QueueInv /\ StoreInv /\ restarts \in Nat

-----------------------------------------------------------------------------
(* Containers *)

LEMMA ContainedSame ==
    ASSUME NEW a, NEW b, Contained(a), \A x \in Ids : b[x].status = a[x].status /\ b[x].parent = a[x].parent,
           \A x \in Ids : a[x].parent \in Holders
    PROVE  Contained(b)
<1>1. ASSUME NEW e \in Ids, b[e].status = "alive" PROVE b[e].parent = World \/ b[b[e].parent].status = "alive"
  <2>1. a[e].parent = World \/ a[a[e].parent].status = "alive"
    BY <1>1 DEF Contained
  <2>2. a[e].parent \in Ids \/ a[e].parent = World
    BY HoldersAre
  <2> QED
    BY <2>1, <2>2
<1>2. ASSUME NEW S \in SUBSET Ids, S # {}, \A x \in S : b[x].status = "alive" PROVE \E x \in S : b[x].parent \notin S
  <2>1. \A x \in S : a[x].status = "alive"
    BY <1>2
  <2>2. \E x \in S : a[x].parent \notin S
    BY <1>2, <2>1 DEF Contained
  <2> QED
    BY <2>2
<1> QED
  BY <1>1, <1>2 DEF Contained

LEMMA ContainedCreate ==
    ASSUME NEW a, NEW b, Contained(a), NEW e \in Ids, a[e].status = "none", b[e].status = "alive",
           b[e].parent = World \/ (b[e].parent \in Ids /\ a[b[e].parent].status = "alive"),
           \A x \in Ids : x # e => b[x].status = a[x].status /\ b[x].parent = a[x].parent,
           \A x \in Ids : a[x].parent \in Holders
    PROVE  Contained(b)
<1>1. ASSUME NEW x \in Ids, b[x].status = "alive" PROVE b[x].parent = World \/ b[b[x].parent].status = "alive"
  <2>1. CASE x = e
    BY <2>1
  <2>2. CASE x # e
    <3>1. a[x].parent = World \/ a[a[x].parent].status = "alive"
      BY <1>1, <2>2 DEF Contained
    <3>2. a[x].parent \in Ids \/ a[x].parent = World
      BY HoldersAre
    <3> QED
      BY <2>2, <3>1, <3>2
  <2> QED
    BY <2>1, <2>2
<1>2. ASSUME NEW S \in SUBSET Ids, S # {}, \A x \in S : b[x].status = "alive" PROVE \E x \in S : b[x].parent \notin S
  <2>1. CASE S \subseteq {e}
    <3>1. World # e
      BY DEF Ids, World
    <3>2. e \in S /\ b[e].parent # e
      BY <1>2, <2>1, <3>1
    <3> QED
      BY <2>1, <3>2
  <2>2. CASE ~ (S \subseteq {e})
    <3>1. PICK R : R = S \ {e}
      OBVIOUS
    <3>2. R \in SUBSET Ids /\ R # {} /\ \A x \in R : a[x].status = "alive"
      BY <1>2, <2>2, <3>1
    <3>3. PICK x \in R : a[x].parent \notin R
      BY <3>2 DEF Contained
    <3>4. a[x].parent # e
      <4>1. a[x].parent = World \/ a[a[x].parent].status = "alive"
        BY <3>2, <3>3 DEF Contained
      <4>2. World # e
        BY DEF Ids, World
      <4> QED
        BY <4>1, <4>2
    <3> QED
      BY <3>1, <3>3, <3>4
  <2> QED
    BY <2>1, <2>2
<1> QED
  BY <1>1, <1>2 DEF Contained

LEMMA ContainedMove ==
    ASSUME entity \in [Ids -> Entity], NEW b, Contained(entity), NEW e \in Ids, Alive(e), NEW to \in Holders,
           to = World \/ (Alive(to) /\ ~ Inside(to, e)),
           b[e].status = "alive", b[e].parent = to,
           \A x \in Ids : x # e => b[x].status = entity[x].status /\ b[x].parent = entity[x].parent
    PROVE  Contained(b) /\ to # e
<1>1. \A x \in Ids : entity[x].parent \in Ids \/ entity[x].parent = World
  BY HoldersAre DEF Entity, Holders
<1>2. World \notin Ids
  BY DEF World, Ids
<1>3. to # e
  <2>1. Inside(e, e)
    BY DEF Inside
  <2> QED
    BY <1>2, <2>1
<1>4. ASSUME NEW x \in Ids, b[x].status = "alive" PROVE b[x].parent = World \/ b[b[x].parent].status = "alive"
  <2>1. CASE x = e
    <3>1. to = World \/ (to \in Ids /\ entity[to].status = "alive")
      BY HoldersAre DEF Alive
    <3> QED
      BY <1>3, <2>1, <3>1
  <2>2. CASE x # e
    <3>1. entity[x].parent = World \/ entity[entity[x].parent].status = "alive"
      BY <1>4, <2>2 DEF Contained
    <3> QED
      BY <1>1, <2>2, <3>1
  <2> QED
    BY <2>1, <2>2
<1>5. ASSUME NEW S \in SUBSET Ids, S # {}, \A x \in S : b[x].status = "alive", \A x \in S : b[x].parent \in S PROVE FALSE
  <2>1. \A x \in S : entity[x].status = "alive"
    BY <1>5 DEF Alive
  <2>2. e \in S
    <3> SUFFICES ASSUME e \notin S PROVE FALSE
      OBVIOUS
    <3>1. \A x \in S : entity[x].parent \in S
      BY <1>5
    <3> QED
      BY <1>5, <2>1, <3>1 DEF Contained
  <2>3. to \in S /\ to # World
    BY <1>2, <1>5, <2>2
  <2>4. PICK T \in SUBSET Ids : to \in T /\ (\A q \in T : entity[q].parent \in T \cup {World}) /\ e \notin T
    BY <2>3 DEF Inside
  <2>5. PICK R : R = S \cap T
    OBVIOUS
  <2>6. R \in SUBSET Ids /\ R # {} /\ \A x \in R : entity[x].status = "alive"
    BY <2>1, <2>3, <2>4, <2>5
  <2>7. \A x \in R : entity[x].parent \in R
    BY <1>2, <1>5, <2>4, <2>5
  <2> QED
    BY <2>6, <2>7 DEF Contained
<1> QED
  BY <1>3, <1>4, <1>5 DEF Contained

LEMMA ContainedDelete ==
    ASSUME entity \in [Ids -> Entity], NEW b, Contained(entity), NEW e \in Ids, Alive(e),
           b[e].status = "destroyed",
           \A x \in Ids : x # e =>
               /\ b[x].status = entity[x].status
               /\ b[x].parent = IF x \in Children(e) THEN entity[e].parent ELSE entity[x].parent
    PROVE  Contained(b)
<1>1. \A x \in Ids : entity[x].parent \in Ids \/ entity[x].parent = World
  BY HoldersAre DEF Entity, Holders
<1>2. World \notin Ids
  BY DEF World, Ids
<1>3. entity[e].parent # e
  <2>1. {e} \in SUBSET Ids /\ {e} # {} /\ \A x \in {e} : entity[x].status = "alive"
    BY DEF Alive
  <2> QED
    BY <2>1 DEF Contained
<1>4. \A x \in Ids : entity[x].status = "alive" /\ entity[x].parent = e => x \in Children(e)
  BY <1>2 DEF Children, Alive
<1>5. ASSUME NEW x \in Ids, b[x].status = "alive" PROVE b[x].parent = World \/ b[b[x].parent].status = "alive"
  <2>1. x # e /\ entity[x].status = "alive"
    BY <1>5
  <2>2. PICK p : p = b[x].parent
    OBVIOUS
  <2>3. (p = World \/ entity[p].status = "alive") /\ p # e /\ (p \in Ids \/ p = World)
    <3>1. CASE x \in Children(e)
      <4>1. entity[e].parent = World \/ entity[entity[e].parent].status = "alive"
        BY DEF Contained, Alive
      <4> QED
        BY <1>1, <1>3, <2>1, <2>2, <3>1, <4>1
    <3>2. CASE x \notin Children(e)
      <4>1. entity[x].parent = World \/ entity[entity[x].parent].status = "alive"
        BY <2>1 DEF Contained
      <4> QED
        BY <1>1, <1>4, <2>1, <2>2, <3>2, <4>1
    <3> QED
      BY <3>1, <3>2
  <2> QED
    BY <2>2, <2>3
<1>6. ASSUME NEW S \in SUBSET Ids, S # {}, \A x \in S : b[x].status = "alive", \A x \in S : b[x].parent \in S PROVE FALSE
  <2>1. e \notin S /\ \A x \in S : entity[x].status = "alive"
    BY <1>6
  <2>2. CASE S \cap Children(e) = {}
    <3>1. \A x \in S : entity[x].parent \in S
      BY <1>6, <2>1, <2>2
    <3> QED
      BY <1>6, <2>1, <3>1 DEF Contained
  <2>3. CASE S \cap Children(e) # {}
    <3>1. entity[e].parent \in S
      BY <1>6, <2>1, <2>3
    <3>2. PICK R : R = S \cup {e}
      OBVIOUS
    <3>3. R \in SUBSET Ids /\ R # {} /\ \A x \in R : entity[x].status = "alive"
      BY <2>1, <3>2 DEF Alive
    <3>4. \A x \in Children(e) : entity[x].parent = e
      BY DEF Children
    <3>5. \A x \in R : entity[x].parent \in R
      BY <1>6, <2>1, <3>1, <3>2, <3>4
    <3> QED
      BY <3>3, <3>5 DEF Contained
  <2> QED
    BY <2>2, <2>3
<1> QED
  BY <1>5, <1>6 DEF Contained

LEMMA ContainedRestart ==
    ASSUME StoreTypes, NEW b,
           \A x \in Ids : /\ x \in Restorable => b[x].status = "alive" /\ b[x].parent = entitiesTable[x]
                          /\ x \notin Restorable => b[x].status = "none"
    PROVE  Contained(b)
<1>1. Restorable \in SUBSET Ids /\ World \notin Ids
  BY DEF Restorable, World, Ids
<1>2. \A S \in SUBSET Ids : HoldsContent(S) => Restorable \subseteq S
  BY DEF Restorable
<1>3. HoldsContent(Restorable)
  <2> SUFFICES ASSUME NEW x \in Ids, entitiesTable[x] \in Restorable \cup {World}, NEW S \in SUBSET Ids, HoldsContent(S)
               PROVE  x \in S
    BY DEF HoldsContent, Restorable
  <2> QED
    BY <1>2 DEF HoldsContent
<1>4. ASSUME NEW x \in Restorable PROVE entitiesTable[x] \in Restorable \cup {World}
  <2> SUFFICES ASSUME entitiesTable[x] \notin Restorable \cup {World} PROVE FALSE
    OBVIOUS
  <2>1. PICK S : S = Restorable \ {x}
    OBVIOUS
  <2>2. HoldsContent(S) /\ S \in SUBSET Ids
    BY <1>1, <1>3, <2>1 DEF HoldsContent
  <2> QED
    BY <1>2, <2>1, <2>2
<1>5. ASSUME NEW x \in Ids, b[x].status = "alive" PROVE b[x].parent = World \/ b[b[x].parent].status = "alive"
  <2>1. x \in Restorable /\ b[x].parent = entitiesTable[x]
    BY <1>5
  <2>2. entitiesTable[x] = World \/ (entitiesTable[x] \in Restorable /\ entitiesTable[x] \in Ids)
    BY <1>1, <1>4, <2>1
  <2> QED
    BY <2>1, <2>2
<1>6. ASSUME NEW S \in SUBSET Ids, S # {}, \A x \in S : b[x].status = "alive", \A x \in S : b[x].parent \in S PROVE FALSE
  <2>1. S \subseteq Restorable /\ \A x \in S : entitiesTable[x] \in S
    BY <1>6
  <2>2. PICK T : T = Ids \ S
    OBVIOUS
  <2>3. HoldsContent(T) /\ T \in SUBSET Ids
    BY <1>1, <2>1, <2>2 DEF HoldsContent
  <2> QED
    BY <1>2, <1>6, <2>1, <2>2, <2>3
<1> QED
  BY <1>5, <1>6 DEF Contained

-----------------------------------------------------------------------------
(* Signals *)

LEMMA QueuedIs ==
    ASSUME NEW ents, NEW ids \in Seq(Holders), NoDup(ids)
    PROVE  /\ Queued(ents, ids) \in Seq(Ids) /\ NoDup(Queued(ents, ids))
           /\ \A x \in Ids : x \in Range(Queued(ents, ids)) <=> x \in Range(ids) /\ IsQueued(ents, x)
<1>1. PICK n \in Nat : n = Len(ids) /\ DOMAIN ids = 1 .. n /\ \A i \in 1 .. n : ids[i] \in Holders
  OBVIOUS
<1>2. PICK T : T = {x \in Holders : IsQueued(ents, x)}
  OBVIOUS
<1>3. PICK seqs : seqs = [i \in DOMAIN ids |-> IF ids[i] \in T THEN <<ids[i]>> ELSE <<>>]
  OBVIOUS
<1>4. \A i \in 1 .. n : ids[i] \in T <=> IsQueued(ents, ids[i])
  BY <1>1, <1>2
<1>5. Queued(ents, ids) = FlattenSeq(seqs)
  <2>1. seqs = [i \in DOMAIN ids |-> IF IsQueued(ents, ids[i]) THEN <<ids[i]>> ELSE <<>>]
    BY <1>1, <1>3, <1>4
  <2> QED
    BY <2>1 DEF Queued
<1>6. NoDup(FlattenSeq(seqs)) /\ Range(FlattenSeq(seqs)) = Range(ids) \cap T
  <2>1. Selects(seqs, ids, T)
    BY <1>3 DEF Selects
  <2> QED
    BY <2>1, FlattenSelect
<1>7. \A x \in Ids : x \in T <=> IsQueued(ents, x)
  BY <1>2, HoldersAre
<1> QED
  BY <1>5, <1>6, <1>7, QueuedType

\* What the signals of ids, each listed once, do to the queues and the flags.
LEMMA SignalsKeep ==
    ASSUME m_dirtyEntities \in Seq(Ids), NEW ents \in [Ids -> Entity], NEW ids \in Seq(Holders), NoDup(ids),
           Signals(ents, ids), NoDup(m_dirtyEntities), NEW unstored,
           \A x \in Ids : InQueues(ents, unstored, m_dirtyEntities, x)
    PROVE  /\ NoDup(m_dirtyEntities')
           /\ \A x \in Ids : InQueues(entity', unstored, m_dirtyEntities', x)
           /\ \A x \in Ids : /\ entity'[x] = [ents[x] EXCEPT !.queued = entity'[x].queued]
                             /\ ents[x].queued => entity'[x].queued
                             /\ x \in Range(ids) /\ ents[x].status = "alive" /\ ents[x].connected => entity'[x].queued
           /\ Contained(ents) => Contained(entity')
<1>1. PICK q : /\ q = Queued(ents, ids) /\ q \in Seq(Ids) /\ NoDup(q)
               /\ \A x \in Ids : x \in Range(q) <=> x \in Range(ids) /\ IsQueued(ents, x)
  BY QueuedIs
<1>2. /\ entity' \in [Ids -> Entity]
      /\ \A e \in Ids : entity'[e] = [ents[e] EXCEPT !.queued = ents[e].queued \/ e \in Range(q)]
  BY <1>1, SignalsDo
<1>3. m_dirtyEntities' = m_dirtyEntities \o q
  BY <1>1 DEF Signals
<1>4. \A x \in Ids : x # World
  BY DEF Ids, World
<1>5. \A x \in Ids : IsQueued(ents, x) <=> ents[x].status = "alive" /\ ents[x].connected /\ ~ ents[x].queued
  BY <1>4 DEF IsQueued
<1>6. Range(m_dirtyEntities) \cap Range(q) = {}
  <2> SUFFICES ASSUME NEW x \in Range(m_dirtyEntities), x \in Range(q) PROVE FALSE
    OBVIOUS
  <2>1. x \in Ids
    BY DEF Range
  <2>2. ents[x].status = "alive" /\ ents[x].connected /\ ~ ents[x].queued
    BY <1>1, <1>5, <2>1
  <2> QED
    BY <2>1, <2>2 DEF InQueues
<1>7. NoDup(m_dirtyEntities') /\ Range(m_dirtyEntities') = Range(m_dirtyEntities) \cup Range(q)
  BY <1>1, <1>3, <1>6, ConcatRange
<1>8. ASSUME NEW x \in Ids
      PROVE  /\ entity'[x] = [ents[x] EXCEPT !.queued = entity'[x].queued]
             /\ entity'[x].queued <=> ents[x].queued \/ x \in Range(q)
             /\ entity'[x].status = ents[x].status /\ entity'[x].connected = ents[x].connected
             /\ entity'[x].parent = ents[x].parent
  <2>1. PICK r \in Entity : r = ents[x]
    OBVIOUS
  <2>2. PICK b \in BOOLEAN : b = (r.queued \/ x \in Range(q))
    OBVIOUS
  <2>3. entity'[x] = [r EXCEPT !.queued = b]
    BY <1>2, <2>1, <2>2
  <2>4. entity'[x].queued = b /\ entity'[x].status = r.status /\ entity'[x].connected = r.connected /\ entity'[x].parent = r.parent
    BY <2>3 DEF Entity
  <2> QED
    BY <2>1, <2>2, <2>3, <2>4
<1>9. ASSUME NEW x \in Ids PROVE InQueues(entity', unstored, m_dirtyEntities', x)
  <2>1. InQueues(ents, unstored, m_dirtyEntities, x)
    OBVIOUS
  <2>2. x \in Range(m_dirtyEntities') <=> x \in Range(m_dirtyEntities) \/ x \in Range(q)
    BY <1>7
  <2>3. x \in Range(q) => ents[x].status = "alive" /\ ents[x].connected /\ ~ ents[x].queued
    BY <1>1, <1>5
  <2> QED
    BY <1>8, <2>1, <2>2, <2>3 DEF InQueues
<1>10. ASSUME NEW x \in Ids, x \in Range(ids), ents[x].status = "alive", ents[x].connected PROVE entity'[x].queued
  BY <1>1, <1>5, <1>8, <1>10
<1>11. Contained(ents) => Contained(entity')
  <2>1. \A x \in Ids : ents[x].parent \in Holders
    BY DEF Entity, Holders
  <2> QED
    BY <1>8, <2>1, ContainedSame
<1> QED
  BY <1>7, <1>8, <1>9, <1>10, <1>11

-----------------------------------------------------------------------------
(* Operations *)

LEMMA FutureSame ==
    ASSUME UNCHANGED <<tables, pendingQueries>> PROVE FutureDatabase' = FutureDatabase
<1>1. Database' = Database
  BY DEF tables, Database
<1> QED
  BY <1>1 DEF FutureDatabase

\* entity_queued says nothing of the rows.
LEMMA StoredFlag ==
    ASSUME NEW r \in Entity, NEW b \in BOOLEAN, NEW x, x = [r EXCEPT !.queued = b], NEW row, NEW values, NEW waits
    PROVE  /\ Stored(r, row, values) => Stored(x, row, values)
           /\ Dropped(r, row, waits) => Dropped(x, row, waits)
           /\ Noted(r) /\ (r.queued => b) => Noted(x)
<1>1. /\ x.status = r.status /\ x.parent = r.parent /\ x.clean = r.clean /\ x.queued = b /\ x.updating = r.updating
      /\ x.connected = r.connected /\ x.value = r.value /\ x.pclean = r.pclean /\ x.seen = r.seen
  BY DEF Entity
<1>2. Stored(r, row, values) => Stored(x, row, values)
  BY <1>1 DEF Stored
<1>3. Dropped(r, row, waits) => Dropped(x, row, waits)
  BY <1>1 DEF Dropped
<1>4. Noted(r) /\ (r.queued => b) => Noted(x)
  BY <1>1 DEF Noted
<1> QED
  BY <1>2, <1>3, <1>4

LEMMA CreateKeeps ==
    ASSUME PersistenceInv, NEW p \in Holders, NEW v \in {0, 1}, Create(p, v) PROVE QueueInv' /\ StoreInv'
<1>1. StoreTypes
  BY DEF PersistenceInv, FreshInv
<1>2. /\ StoreTypes' /\ idGenerator + 1 \in Ids
      /\ Signals(CreatedEntities(idGenerator + 1, p, v), BecomesNonEmpty(p))
  BY <1>1, CreateTypes
<1>3. PICK e \in Ids : e = idGenerator + 1
  BY <1>2
<1>4. /\ entity \in [Ids -> Entity] /\ m_dirtyEntities \in Seq(Ids) /\ m_unstoredEntities \in Seq(Ids)
      /\ idGenerator \in Nat /\ entity' \in [Ids -> Entity]
  <2>1. idGenerator \in 0 .. MaxId
    BY <1>1 DEF StoreTypes, TypeOK
  <2>2. idGenerator \in Nat
    BY <2>1
  <2> QED
    BY <1>1, <1>2, <2>2 DEF StoreTypes, TypeOK
<1>5. /\ phase = "running" /\ (p = World \/ Alive(p))
      /\ m_unstoredEntities' = Append(m_unstoredEntities, e) /\ idGenerator' = e
      /\ UNCHANGED <<m_destroyedEntities, pendingQueries, tables, phase, restarts>>
  BY <1>3 DEF Create
<1>6. entity[e].status = "none" /\ e \notin Range(m_unstoredEntities) /\ e \notin Range(m_dirtyEntities)
  <2>1. e > idGenerator
    BY <1>3, <1>4
  <2> QED
    BY <2>1 DEF PersistenceInv, QueueInv, InQueues
<1>7. PICK ents \in [Ids -> Entity] :
          /\ ents = CreatedEntities(e, p, v)
          /\ ents[e] = [None EXCEPT !.status = "alive", !.parent = p, !.queued = TRUE, !.value = v, !.unsent = v # 0]
          /\ \A x \in Ids : x # e => ents[x] = entity[x]
  <2>1. v \in 0 .. MaxValue
    BY StorageAssumption
  <2>2. PICK ents : ents = CreatedEntities(e, p, v)
    OBVIOUS
  <2>3. WithNew(ents, e, p, v)
    BY <1>4, <2>1, <2>2, CreatedAre
  <2> QED
    BY <2>2, <2>3 DEF WithNew
<1>8. /\ ents[e].status = "alive" /\ ~ ents[e].connected /\ ents[e].queued /\ ents[e].parent = p
      /\ ~ ents[e].clean /\ ~ ents[e].seen /\ ~ ents[e].pclean
  BY <1>7 DEF None
<1>9. /\ NoDup(m_unstoredEntities') /\ Range(m_unstoredEntities') = Range(m_unstoredEntities) \cup {e}
  BY <1>4, <1>5, <1>6, AppendRange DEF PersistenceInv, QueueInv
<1>10. ASSUME NEW x \in Ids PROVE InQueues(ents, m_unstoredEntities', m_dirtyEntities, x)
  <2>1. CASE x = e
    BY <1>6, <1>8, <1>9, <2>1 DEF InQueues
  <2>2. CASE x # e
    <3>1. InQueues(entity, m_unstoredEntities, m_dirtyEntities, x)
      BY DEF PersistenceInv, QueueInv
    <3> QED
      BY <1>7, <1>9, <2>2, <3>1 DEF InQueues
  <2> QED
    BY <2>1, <2>2
<1>11. Contained(ents)
  <2>1. p = World \/ (p \in Ids /\ entity[p].status = "alive")
    BY <1>5, HoldersAre DEF Alive
  <2>2. \A x \in Ids : entity[x].parent \in Holders
    BY <1>4 DEF Entity, Holders
  <2>3. Contained(entity)
    BY DEF PersistenceInv, QueueInv
  <2>4. \A x \in Ids : x # e => ents[x].status = entity[x].status /\ ents[x].parent = entity[x].parent
    BY <1>7
  <2>5. ents[e].parent = World \/ (ents[e].parent \in Ids /\ entity[ents[e].parent].status = "alive")
    BY <1>8, <2>1
  <2> QED
    BY <1>6, <1>8, <2>2, <2>3, <2>4, <2>5, ContainedCreate
<1>12. PICK ids \in Seq(Holders) : ids = BecomesNonEmpty(p) /\ NoDup(ids) /\ Signals(ents, ids)
  <2>1. BecomesNonEmpty(p) \in Seq(Holders) /\ NoDup(BecomesNonEmpty(p))
    BY ContainersType, OneRange, NoneRange
  <2> QED
    BY <1>2, <1>3, <1>7, <2>1
<1>13. /\ NoDup(m_dirtyEntities')
       /\ \A x \in Ids : InQueues(entity', m_unstoredEntities', m_dirtyEntities', x)
       /\ \A x \in Ids : /\ entity'[x] = [ents[x] EXCEPT !.queued = entity'[x].queued]
                         /\ ents[x].queued => entity'[x].queued
       /\ Contained(entity')
  BY <1>4, <1>10, <1>11, <1>12, SignalsKeep DEF PersistenceInv, QueueInv
<1>14. ASSUME NEW x \in Ids, x > idGenerator' PROVE entity'[x].status = "none"
  <2>1. x > idGenerator /\ x # e
    BY <1>3, <1>4, <1>5, <1>14 DEF Ids
  <2>2. ents[x].status = "none" /\ ents[x] \in Entity
    BY <1>7, <2>1 DEF PersistenceInv, QueueInv
  <2>3. entity'[x] = [ents[x] EXCEPT !.queued = entity'[x].queued]
    BY <1>13
  <2> QED
    BY <2>2, <2>3 DEF Entity
<1>15. QueueInv'
  BY <1>9, <1>13, <1>14 DEF QueueInv
<1>16. ASSUME restarts = 0, NEW x \in Ids
       PROVE  /\ Stored(entity'[x], FutureDatabase.rows[x], FutureDatabase.props[x])
              /\ Noted(entity'[x])
              /\ Dropped(entity'[x], FutureDatabase.rows[x], x \in Range(m_destroyedEntities))
  <2>1. /\ Stored(entity[x], FutureDatabase.rows[x], FutureDatabase.props[x])
        /\ Noted(entity[x])
        /\ Dropped(entity[x], FutureDatabase.rows[x], x \in Range(m_destroyedEntities))
    BY <1>5, <1>16 DEF PersistenceInv, StoreInv
  <2>2. /\ Stored(ents[x], FutureDatabase.rows[x], FutureDatabase.props[x])
        /\ Noted(ents[x])
        /\ Dropped(ents[x], FutureDatabase.rows[x], x \in Range(m_destroyedEntities))
    <3>1. CASE x = e
      BY <1>6, <1>8, <2>1, <3>1 DEF Stored, Noted, Dropped
    <3>2. CASE x # e
      BY <1>7, <2>1, <3>2
    <3> QED
      BY <3>1, <3>2
  <2>3. ents[x] \in Entity /\ entity'[x].queued \in BOOLEAN
    BY <1>4 DEF Entity
  <2> QED
    BY <1>13, <2>2, <2>3, StoredFlag
<1>17. StoreInv'
  BY <1>5, <1>16, FutureSame DEF StoreInv
<1> QED
  BY <1>15, <1>17

\* What is to be shown of the state ents in which an operation emits its signals:
\* r is what an entity is there, e whether it emits one.
SignalReady(ents, ids, destroyed, x) ==
    /\ entity[x].status = "none" => ents[x].status = "none"
    /\ InQueues(ents, m_unstoredEntities, m_dirtyEntities, x)
    /\ restarts = 0 =>
           /\ Stored(ents[x], FutureDatabase.rows[x], FutureDatabase.props[x])
           /\ Dropped(ents[x], FutureDatabase.rows[x], x \in Range(destroyed))
           /\ Noted(ents[x]) \/ x \in Range(ids)

LEMMA OperationKeeps ==
    ASSUME PersistenceInv, StoreTypes', phase = "running",
           UNCHANGED <<idGenerator, m_unstoredEntities, pendingQueries, tables, phase, restarts>>,
           NEW ents \in [Ids -> Entity], NEW ids \in Seq(Holders), NoDup(ids), Signals(ents, ids),
           Contained(ents), \A x \in Ids : SignalReady(ents, ids, m_destroyedEntities', x)
    PROVE  QueueInv' /\ StoreInv'
<1>1. m_dirtyEntities \in Seq(Ids) /\ NoDup(m_dirtyEntities) /\ NoDup(m_unstoredEntities) /\ entity' \in [Ids -> Entity]
  BY DEF PersistenceInv, FreshInv, StoreTypes, TypeOK, QueueInv
<1>2. \A x \in Ids : InQueues(ents, m_unstoredEntities, m_dirtyEntities, x)
  BY DEF SignalReady
<1>3. /\ NoDup(m_dirtyEntities')
      /\ \A x \in Ids : InQueues(entity', m_unstoredEntities, m_dirtyEntities', x)
      /\ \A x \in Ids : /\ entity'[x] = [ents[x] EXCEPT !.queued = entity'[x].queued]
                        /\ ents[x].queued => entity'[x].queued
                        /\ x \in Range(ids) /\ ents[x].status = "alive" /\ ents[x].connected => entity'[x].queued
      /\ Contained(entity')
  BY <1>1, <1>2, SignalsKeep
<1>4. ASSUME NEW x \in Ids
      PROVE  /\ entity'[x].status = ents[x].status /\ entity'[x].connected = ents[x].connected
             /\ ents[x] \in Entity /\ entity'[x].queued \in BOOLEAN
  <2>1. ents[x] \in Entity /\ entity'[x] \in Entity
    BY <1>1
  <2>2. entity'[x] = [ents[x] EXCEPT !.queued = entity'[x].queued]
    BY <1>3
  <2> QED
    BY <2>1, <2>2 DEF Entity
<1>5. ASSUME NEW x \in Ids, x > idGenerator' PROVE entity'[x].status = "none"
  <2>1. entity[x].status = "none"
    BY <1>5 DEF PersistenceInv, QueueInv
  <2> QED
    BY <1>4, <2>1 DEF SignalReady
<1>6. QueueInv'
  BY <1>1, <1>3, <1>5 DEF QueueInv
<1>7. ASSUME restarts = 0, NEW x \in Ids
      PROVE  /\ Stored(entity'[x], FutureDatabase.rows[x], FutureDatabase.props[x])
             /\ Noted(entity'[x])
             /\ Dropped(entity'[x], FutureDatabase.rows[x], x \in Range(m_destroyedEntities'))
  <2>1. /\ Stored(ents[x], FutureDatabase.rows[x], FutureDatabase.props[x])
        /\ Dropped(ents[x], FutureDatabase.rows[x], x \in Range(m_destroyedEntities'))
        /\ Noted(ents[x]) \/ x \in Range(ids)
    BY <1>7 DEF SignalReady
  <2>2. PICK b \in BOOLEAN : b = entity'[x].queued
    BY <1>4
  <2>3. entity'[x] = [ents[x] EXCEPT !.queued = b] /\ ents[x] \in Entity /\ (ents[x].queued => b)
    BY <1>3, <1>4, <2>2
  <2>4. /\ Stored(entity'[x], FutureDatabase.rows[x], FutureDatabase.props[x])
        /\ Dropped(entity'[x], FutureDatabase.rows[x], x \in Range(m_destroyedEntities'))
        /\ Noted(ents[x]) => Noted(entity'[x])
    BY <2>1, <2>3, StoredFlag
  <2>5. ASSUME x \in Range(ids) PROVE Noted(entity'[x])
    <3>1. InQueues(ents, m_unstoredEntities, m_dirtyEntities, x)
      BY <1>2
    <3>2. ents[x].status = "alive" => entity'[x].queued
      BY <1>3, <2>5, <3>1 DEF InQueues
    <3> QED
      BY <1>4, <3>2 DEF Noted
  <2> QED
    BY <2>1, <2>4, <2>5
<1>8. StoreInv'
  BY <1>7, FutureSame DEF StoreInv
<1> QED
  BY <1>6, <1>8

\* What every entity is before an operation.
LEMMA Before ==
    ASSUME PersistenceInv, phase = "running", NEW x \in Ids
    PROVE  SignalReady(entity, <<>>, m_destroyedEntities, x)
  BY DEF PersistenceInv, QueueInv, StoreInv, SignalReady

LEMMA UpdateKeeps ==
    ASSUME PersistenceInv, NEW e \in Ids, Update(e) PROVE QueueInv' /\ StoreInv'
<1>1. StoreTypes
  BY DEF PersistenceInv, FreshInv
<1>2. StoreTypes' /\ Signals(UpdatedEntities(e), <<e>>) /\ <<e>> \in Seq(Holders)
  BY <1>1, UpdateTypes
<1>3. /\ phase = "running" /\ entity[e].status = "alive" /\ m_destroyedEntities' = m_destroyedEntities
      /\ UNCHANGED <<idGenerator, m_unstoredEntities, pendingQueries, tables, phase, restarts>>
  BY DEF Update, Alive
<1>4. entity \in [Ids -> Entity]
  BY <1>1 DEF StoreTypes, TypeOK
<1>5. PICK ents : ents = UpdatedEntities(e)
  OBVIOUS
<1>6. /\ ents \in [Ids -> Entity]
      /\ ents[e] = [entity[e] EXCEPT !.updating = FALSE, !.unsent = FALSE, !.clean = FALSE,
                                     !.pclean = entity[e].pclean /\ ~ entity[e].unsent]
      /\ \A x \in Ids : x # e => ents[x] = entity[x]
  <2>1. WithUpdated(ents, e)
    BY <1>4, <1>5, UpdatedAre
  <2> QED
    BY <2>1 DEF WithUpdated
<1>7. PICK r \in Entity, s \in Entity : r = entity[e] /\ s = ents[e]
  BY <1>4, <1>6
<1>8. /\ s.status = r.status /\ s.parent = r.parent /\ s.connected = r.connected /\ s.queued = r.queued
      /\ s.value = r.value /\ s.seen = r.seen /\ ~ s.clean /\ (s.pclean => r.pclean)
  BY <1>6, <1>7 DEF Entity
<1>9. Range(<<e>>) = {e} /\ NoDup(<<e>>)
  BY OneRange
<1>10. ASSUME NEW x \in Ids PROVE SignalReady(ents, <<e>>, m_destroyedEntities', x)
  <2>1. SignalReady(entity, <<>>, m_destroyedEntities, x)
    BY <1>3, Before
  <2>2. CASE x # e
    <3>1. ents[x] = entity[x]
      BY <1>6, <2>2
    <3> QED
      BY <1>3, <2>1, <3>1, NoneRange DEF SignalReady, InQueues
  <2>3. CASE x = e
    <3>1. InQueues(ents, m_unstoredEntities, m_dirtyEntities, x)
      BY <1>7, <1>8, <2>1, <2>3 DEF SignalReady, InQueues
    <3>2. ASSUME NEW row, NEW values, Stored(r, row, values) PROVE Stored(s, row, values)
      BY <1>8, <3>2 DEF Stored
    <3>3. ASSUME NEW row, NEW waits, Dropped(r, row, waits) PROVE Dropped(s, row, waits)
      BY <1>8, <3>3 DEF Dropped
    <3> QED
      BY <1>3, <1>7, <1>9, <2>1, <2>3, <3>1, <3>2, <3>3 DEF SignalReady
  <2> QED
    BY <2>2, <2>3
<1>11. Contained(ents)
  <2>1. \A x \in Ids : ents[x].status = entity[x].status /\ ents[x].parent = entity[x].parent
    BY <1>6, <1>7, <1>8
  <2>2. \A x \in Ids : entity[x].parent \in Holders
    BY <1>4 DEF Entity, Holders
  <2>3. Contained(entity)
    BY DEF PersistenceInv, QueueInv
  <2> QED
    BY <2>1, <2>2, <2>3, ContainedSame
<1> QED
  BY <1>2, <1>3, <1>5, <1>6, <1>9, <1>10, <1>11, OperationKeeps

LEMMA SetKeeps ==
    ASSUME PersistenceInv, NEW e \in Ids, NEW v \in 1 .. MaxValue, SetProperty(e, v) PROVE QueueInv' /\ StoreInv'
<1>1. StoreTypes
  BY DEF PersistenceInv, FreshInv
<1>2. /\ StoreTypes'
      /\ entity'[e] = [entity[e] EXCEPT !.value = v, !.pclean = FALSE, !.clean = FALSE, !.unsent = TRUE, !.updating = TRUE]
      /\ \A i \in Ids : i # e => entity'[i] = entity[i]
  BY <1>1, SetTypes
<1>3. /\ phase = "running" /\ entity[e].status = "alive"
      /\ UNCHANGED <<idGenerator, managerVars, pendingQueries, tables, phase, restarts>>
  BY DEF SetProperty, Alive
<1>4. UNCHANGED <<m_unstoredEntities, m_dirtyEntities, m_destroyedEntities>>
  BY <1>3 DEF managerVars
<1>5. entity \in [Ids -> Entity] /\ entity' \in [Ids -> Entity]
  BY <1>1, <1>2 DEF StoreTypes, TypeOK
<1>6. PICK r \in Entity, s \in Entity : r = entity[e] /\ s = entity'[e]
  BY <1>5
<1>7. /\ s.status = r.status /\ s.parent = r.parent /\ s.connected = r.connected /\ s.queued = r.queued
      /\ s.value = v /\ s.seen = r.seen /\ ~ s.clean /\ ~ s.pclean /\ s.updating
  BY <1>2, <1>6 DEF Entity
<1>8. v # 0
  OBVIOUS
<1>9. ASSUME NEW x \in Ids PROVE SignalReady(entity', <<>>, m_destroyedEntities, x)
  <2>1. SignalReady(entity, <<>>, m_destroyedEntities, x)
    BY <1>3, Before
  <2>2. CASE x # e
    <3>1. entity'[x] = entity[x]
      BY <1>2, <2>2
    <3> QED
      BY <2>1, <3>1 DEF SignalReady, InQueues
  <2>3. CASE x = e
    <3>1. InQueues(entity', m_unstoredEntities, m_dirtyEntities, x)
      BY <1>6, <1>7, <2>1, <2>3 DEF SignalReady, InQueues
    <3>2. ASSUME NEW row, NEW values, Stored(r, row, values) PROVE Stored(s, row, values)
      BY <1>7, <1>8, <3>2 DEF Stored
    <3>3. ASSUME NEW row, NEW waits, Dropped(r, row, waits) PROVE Dropped(s, row, waits)
      BY <1>7, <3>3 DEF Dropped
    <3>4. Noted(s) /\ s.status # "none"
      BY <1>3, <1>6, <1>7 DEF Noted
    <3> QED
      BY <1>3, <1>6, <2>1, <2>3, <3>1, <3>2, <3>3, <3>4 DEF SignalReady
  <2> QED
    BY <2>2, <2>3
<1>10. Contained(entity')
  <2>1. \A x \in Ids : entity'[x].status = entity[x].status /\ entity'[x].parent = entity[x].parent
    BY <1>2, <1>6, <1>7
  <2>2. \A x \in Ids : entity[x].parent \in Holders
    BY <1>5 DEF Entity, Holders
  <2>3. Contained(entity)
    BY DEF PersistenceInv, QueueInv
  <2> QED
    BY <2>1, <2>2, <2>3, ContainedSame
<1>11. QueueInv'
  <2>1. \A x \in Ids : InQueues(entity', m_unstoredEntities, m_dirtyEntities, x) /\ (entity[x].status = "none" => entity'[x].status = "none")
    BY <1>9 DEF SignalReady
  <2> QED
    BY <1>3, <1>4, <1>10, <2>1 DEF PersistenceInv, QueueInv
<1>12. StoreInv'
  <2>1. ASSUME restarts = 0, NEW x \in Ids
        PROVE  /\ Stored(entity'[x], FutureDatabase.rows[x], FutureDatabase.props[x])
               /\ Noted(entity'[x])
               /\ Dropped(entity'[x], FutureDatabase.rows[x], x \in Range(m_destroyedEntities))
    BY <1>9, <2>1, NoneRange DEF SignalReady
  <2> QED
    BY <1>3, <1>4, <2>1, FutureSame DEF StoreInv
<1> QED
  BY <1>11, <1>12

LEMMA MoveKeeps ==
    ASSUME PersistenceInv, NEW e \in Ids, NEW to \in Holders, Move(e, to) PROVE QueueInv' /\ StoreInv'
<1>1. StoreTypes
  BY DEF PersistenceInv, FreshInv
<1>2. PICK from, ids : from = entity[e].parent /\ ids = BecomesEmpty(from, e) \o BecomesNonEmpty(to) \o <<e>>
  OBVIOUS
<1>3. StoreTypes' /\ Signals(MovedEntities(e, to), ids) /\ ids \in Seq(Holders)
  BY <1>1, <1>2, MoveTypes
<1>4. /\ phase = "running" /\ Alive(e) /\ entity[e].status = "alive" /\ m_destroyedEntities' = m_destroyedEntities
      /\ to # from /\ (to = World \/ (Alive(to) /\ ~ Inside(to, e)))
      /\ UNCHANGED <<idGenerator, m_unstoredEntities, pendingQueries, tables, phase, restarts>>
  BY <1>2 DEF Move, Alive
<1>5. entity \in [Ids -> Entity] /\ Contained(entity)
  BY <1>1 DEF StoreTypes, TypeOK, PersistenceInv, QueueInv
<1>6. PICK ents : ents = MovedEntities(e, to)
  OBVIOUS
<1>7. /\ ents \in [Ids -> Entity]
      /\ ents[e] = [entity[e] EXCEPT !.parent = to, !.clean = FALSE, !.updating = TRUE]
      /\ \A x \in Ids : x # e => ents[x] = entity[x]
  <2>1. WithMoved(ents, e, to)
    BY <1>5, <1>6, MovedAre
  <2> QED
    BY <2>1 DEF WithMoved
<1>8. PICK r \in Entity, s \in Entity : r = entity[e] /\ s = ents[e]
  BY <1>5, <1>7
<1>9. /\ s.status = r.status /\ s.parent = to /\ s.connected = r.connected /\ s.queued = r.queued
      /\ s.value = r.value /\ s.seen = r.seen /\ ~ s.clean /\ s.pclean = r.pclean /\ s.updating
  BY <1>7, <1>8 DEF Entity, Holders
<1>10. Contained(ents) /\ to # e
  <2>1. \A x \in Ids : x # e => ents[x].status = entity[x].status /\ ents[x].parent = entity[x].parent
    BY <1>7
  <2>2. ents[e].status = "alive" /\ ents[e].parent = to
    BY <1>4, <1>8, <1>9
  <2> QED
    BY <1>4, <1>5, <2>1, <2>2, ContainedMove
<1>11. from # e /\ from \in Holders
  <2>1. {e} \in SUBSET Ids /\ {e} # {} /\ \A x \in {e} : entity[x].status = "alive"
    BY <1>4
  <2>2. entity[e].parent # e
    BY <1>5, <2>1 DEF Contained
  <2> QED
    BY <1>2, <1>5, <2>2 DEF Entity, Holders
<1>12. NoDup(ids)
  <2>1. PICK a, b, c : a = BecomesEmpty(from, e) /\ b = BecomesNonEmpty(to) /\ c = <<e>>
    OBVIOUS
  <2>2. a \in Seq(Holders) /\ b \in Seq(Holders) /\ c \in Seq(Holders)
    BY <1>11, <2>1, ContainersType, HoldersAre
  <2>3. /\ NoDup(a) /\ Range(a) \subseteq {from} /\ NoDup(b) /\ Range(b) \subseteq {to}
        /\ NoDup(c) /\ Range(c) = {e}
    BY <1>11, <2>1, ContainersType, OneRange, NoneRange
  <2>4. a \o b \in Seq(Holders) /\ NoDup(a \o b) /\ Range(a \o b) \subseteq {from, to}
    <3>1. Range(a) \cap Range(b) = {}
      BY <1>4, <2>3
    <3> QED
      BY <2>2, <2>3, <3>1, ConcatRange
  <2>5. PICK d : d = a \o b
    OBVIOUS
  <2>6. Range(d) \cap Range(c) = {}
    BY <1>10, <1>11, <2>3, <2>4, <2>5
  <2>7. NoDup(d \o c)
    BY <2>2, <2>3, <2>4, <2>5, <2>6, ConcatRange
  <2> QED
    BY <1>2, <2>1, <2>5, <2>7
<1>13. ASSUME NEW x \in Ids PROVE SignalReady(ents, ids, m_destroyedEntities', x)
  <2>1. SignalReady(entity, <<>>, m_destroyedEntities, x)
    BY <1>4, Before
  <2>2. CASE x # e
    <3>1. ents[x] = entity[x]
      BY <1>7, <2>2
    <3> QED
      BY <1>4, <2>1, <3>1, NoneRange DEF SignalReady, InQueues
  <2>3. CASE x = e
    <3>1. InQueues(ents, m_unstoredEntities, m_dirtyEntities, x)
      BY <1>8, <1>9, <2>1, <2>3 DEF SignalReady, InQueues
    <3>2. ASSUME NEW row, NEW values, Stored(r, row, values) PROVE Stored(s, row, values)
      BY <1>9, <3>2 DEF Stored
    <3>3. ASSUME NEW row, NEW waits, Dropped(r, row, waits) PROVE Dropped(s, row, waits)
      BY <1>9, <3>3 DEF Dropped
    <3>4. Noted(s) /\ r.status # "none"
      BY <1>4, <1>8, <1>9 DEF Noted
    <3> QED
      BY <1>4, <1>8, <2>1, <2>3, <3>1, <3>2, <3>3, <3>4 DEF SignalReady
  <2> QED
    BY <2>2, <2>3
<1> QED
  BY <1>3, <1>4, <1>6, <1>7, <1>10, <1>12, <1>13, OperationKeeps

LEMMA DeleteKeeps ==
    ASSUME PersistenceInv, NEW e \in Ids, NEW inside \in SetToSeqs(Children(e)), Delete(e, inside)
    PROVE  QueueInv' /\ StoreInv'
<1>1. StoreTypes
  BY DEF PersistenceInv, FreshInv
<1>2. PICK from, ids : /\ from = entity[e].parent
                       /\ ids = inside \o (IF inside = <<>> THEN BecomesEmpty(from, e) ELSE <<>>)
  OBVIOUS
<1>3. StoreTypes' /\ Signals(DeletedEntities(e), ids) /\ ids \in Seq(Holders)
  BY <1>1, <1>2, DeleteTypes
<1>4. /\ phase = "running" /\ Alive(e) /\ entity[e].status = "alive"
      /\ m_destroyedEntities' = m_destroyedEntities \o [i \in 1 .. DestroyedSignals(e) |-> e]
      /\ UNCHANGED <<idGenerator, m_unstoredEntities, pendingQueries, tables, phase, restarts>>
  BY DEF Delete, Alive
<1>5. entity \in [Ids -> Entity] /\ Contained(entity) /\ m_destroyedEntities \in Seq(Ids)
  BY <1>1 DEF StoreTypes, TypeOK, PersistenceInv, QueueInv
<1>6. PICK ents : ents = DeletedEntities(e)
  OBVIOUS
<1>7. /\ ents \in [Ids -> Entity]
      /\ ents[e] = [entity[e] EXCEPT !.status = "destroyed"]
      /\ \A x \in Ids : x # e =>
             /\ x \notin Children(e) => ents[x] = entity[x]
             /\ x \in Children(e) =>
                    ents[x] = [entity[x] EXCEPT !.parent = from, !.clean = FALSE, !.updating = TRUE]
  <2>1. WithDeleted(ents, e)
    BY <1>5, <1>6, DeletedAre
  <2> QED
    BY <1>2, <2>1 DEF WithDeleted
<1>8. from \in Holders
  BY <1>2, <1>5 DEF Entity, Holders
<1>9. ents[e].status = "destroyed"
  BY <1>5, <1>7 DEF Entity
<1>10. ASSUME NEW x \in Ids, x # e, x \in Children(e), NEW r \in Entity, r = entity[x], NEW s \in Entity, s = ents[x]
       PROVE  /\ s.status = r.status /\ s.parent = from /\ s.connected = r.connected /\ s.queued = r.queued
              /\ s.value = r.value /\ s.seen = r.seen /\ ~ s.clean /\ s.pclean = r.pclean /\ s.updating
  <2>1. s = [r EXCEPT !.parent = from, !.clean = FALSE, !.updating = TRUE]
    BY <1>7, <1>10
  <2> QED
    BY <1>8, <2>1 DEF Entity, Holders
<1>11. Contained(ents)
  <2>1. ASSUME NEW x \in Ids, x # e
        PROVE  /\ ents[x].status = entity[x].status
               /\ ents[x].parent = IF x \in Children(e) THEN entity[e].parent ELSE entity[x].parent
    <3>1. CASE x \in Children(e)
      <4>1. PICK r \in Entity, s \in Entity : r = entity[x] /\ s = ents[x]
        BY <1>5, <1>7
      <4>2. s.status = r.status /\ s.parent = from
        BY <1>10, <2>1, <3>1, <4>1
      <4> QED
        BY <1>2, <3>1, <4>1, <4>2
    <3>2. CASE x \notin Children(e)
      BY <1>7, <2>1, <3>2
    <3> QED
      BY <3>1, <3>2
  <2> QED
    BY <1>4, <1>5, <1>9, <2>1, ContainedDelete
<1>12. NoDup(ids)
  <2>1. inside \in Seq(Children(e)) /\ Children(e) \subseteq Holders /\ NoDup(inside)
    BY ChildrenAre, SetToSeqsType, HoldersAre
  <2>2. PICK b : b = IF inside = <<>> THEN BecomesEmpty(from, e) ELSE <<>>
    OBVIOUS
  <2>3. b \in Seq(Holders) /\ NoDup(b) /\ inside \in Seq(Holders)
    BY <1>8, <2>1, <2>2, ContainersType, OneRange, NoneRange
  <2>4. Range(inside) \cap Range(b) = {}
    BY <2>2, NoneRange
  <2>5. NoDup(inside \o b)
    BY <2>1, <2>3, <2>4, ConcatRange
  <2> QED
    BY <1>2, <2>2, <2>5
<1>13. /\ \A x \in Ids : x # e => (x \in Range(m_destroyedEntities') <=> x \in Range(m_destroyedEntities))
       /\ entity[e].connected => e \in Range(m_destroyedEntities')
  <2>1. PICK k \in Nat : k = DestroyedSignals(e) /\ (entity[e].connected => k # 0)
    BY DEF DestroyedSignals
  <2>2. PICK t : t = [i \in 1 .. k |-> e]
    OBVIOUS
  <2>3. t \in Seq(Ids) /\ DOMAIN t = 1 .. k /\ \A i \in 1 .. k : t[i] = e
    BY <2>2
  <2>4. Range(t) \subseteq {e} /\ (k # 0 => e \in Range(t))
    BY <2>1, <2>3 DEF Range
  <2>5. Range(m_destroyedEntities') = Range(m_destroyedEntities) \cup Range(t)
    BY <1>4, <1>5, <2>1, <2>2, <2>3, ConcatRange
  <2> QED
    BY <2>1, <2>4, <2>5
<1>14. ASSUME NEW x \in Ids PROVE SignalReady(ents, ids, m_destroyedEntities', x)
  <2>1. SignalReady(entity, <<>>, m_destroyedEntities, x)
    BY <1>4, Before
  <2>2. CASE x # e /\ x \notin Children(e)
    <3>1. ents[x] = entity[x]
      BY <1>7, <2>2
    <3> QED
      BY <1>13, <2>1, <2>2, <3>1, NoneRange DEF SignalReady, InQueues
  <2>3. CASE x # e /\ x \in Children(e)
    <3>0. PICK r \in Entity, s \in Entity : r = entity[x] /\ s = ents[x]
      BY <1>5, <1>7
    <3>1. /\ s.status = r.status /\ s.parent = from /\ s.connected = r.connected /\ s.queued = r.queued
          /\ s.value = r.value /\ s.seen = r.seen /\ ~ s.clean /\ s.pclean = r.pclean /\ s.updating
      BY <1>10, <2>3, <3>0
    <3>2. InQueues(ents, m_unstoredEntities, m_dirtyEntities, x)
      BY <2>1, <3>0, <3>1 DEF SignalReady, InQueues
    <3>3. ASSUME NEW row, NEW values, Stored(r, row, values) PROVE Stored(s, row, values)
      BY <3>1, <3>3 DEF Stored
    <3>4. ASSUME NEW row, NEW waits, NEW new, Dropped(r, row, waits), new <=> waits PROVE Dropped(s, row, new)
      BY <3>1, <3>4 DEF Dropped
    <3>5. Noted(s)
      BY <3>1 DEF Noted
    <3>6. restarts = 0 => Dropped(s, FutureDatabase.rows[x], x \in Range(m_destroyedEntities'))
      BY <1>13, <2>1, <2>3, <3>0, <3>4 DEF SignalReady
    <3> QED
      BY <2>1, <3>0, <3>1, <3>2, <3>3, <3>5, <3>6 DEF SignalReady
  <2>4. CASE x = e
    <3>1. PICK r \in Entity, s \in Entity : r = entity[x] /\ s = ents[x]
      BY <1>5, <1>7
    <3>2. s.status = "destroyed" /\ r.status = "alive"
      BY <1>4, <1>9, <2>4, <3>1
    <3>3. InQueues(ents, m_unstoredEntities, m_dirtyEntities, x)
      BY <3>1, <3>2 DEF InQueues
    <3>4. \A row, values : Stored(s, row, values)
      BY <3>2 DEF Stored
    <3>5. restarts = 0 => Dropped(s, FutureDatabase.rows[x], x \in Range(m_destroyedEntities'))
      <4>1. restarts = 0 => (~ r.connected => FutureDatabase.rows[x] = NoRow)
        BY <2>1, <3>1, <3>2 DEF SignalReady, Stored
      <4> QED
        BY <1>13, <2>4, <3>1, <3>2, <4>1 DEF Dropped
    <3>6. Noted(s)
      BY <3>2 DEF Noted
    <3> QED
      BY <3>1, <3>2, <3>3, <3>4, <3>5, <3>6 DEF SignalReady
  <2> QED
    BY <2>2, <2>3, <2>4
<1> QED
  BY <1>3, <1>4, <1>6, <1>7, <1>11, <1>12, <1>14, OperationKeeps

-----------------------------------------------------------------------------
(* tick() *)

\* Around its own, the commands r of e, a part s of a tick has commands of others:
\* what s makes of e's rows is what r makes of them.
LEMMA AroundOthers ==
    ASSUME NEW e \in Ids, NEW d \in Databases, NEW r \in Seq(GoodCommand), NEW s, Around(s, r, OthersThan(e)),
           NEW base \in Databases, base.rows[e] = d.rows[e], base.props[e] = d.props[e]
    PROVE  \E m \in Databases :
               /\ m.rows[e] = d.rows[e] /\ m.props[e] = d.props[e]
               /\ After(base, s) \in Databases
               /\ After(base, s).rows[e] = After(m, r).rows[e] /\ After(base, s).props[e] = After(m, r).props[e]
<1>1. PICK a \in Seq(OthersThan(e)), b \in Seq(OthersThan(e)) : s = (a \o r) \o b
  BY DEF Around
<1>2. OthersThan(e) \subseteq GoodCommand
  BY DEF OthersThan
<1>3. a \in Seq(GoodCommand) /\ b \in Seq(GoodCommand)
  BY <1>2
<1>4. PICK c : c = a \o r
  OBVIOUS
<1>5. PICK m : m = After(base, a)
  OBVIOUS
<1>6. m \in Databases /\ m.rows[e] = base.rows[e] /\ m.props[e] = base.props[e]
  BY <1>5, AfterOthers
<1>7. PICK k : k = After(m, r) /\ k \in Databases
  BY <1>6, AfterGood
<1>8. After(base, c) = k
  BY <1>3, <1>4, <1>5, <1>7, AfterConcat
<1>9. After(base, s) = After(k, b)
  <2>1. c \in Seq(GoodCommand) /\ s = c \o b
    BY <1>1, <1>3, <1>4
  <2> QED
    BY <1>3, <1>8, <2>1, AfterConcat
<1>10. After(k, b) \in Databases /\ After(k, b).rows[e] = k.rows[e] /\ After(k, b).props[e] = k.props[e]
  BY <1>7, AfterOthers
<1> QED
  BY <1>6, <1>7, <1>9, <1>10

\* The parts of a tick's commands that are not about e ...
LEMMA PartsOthers ==
    ASSUME TypeOK, NEW e \in Ids, NEW n \in 0 .. Len(m_dirtyEntities)
    PROVE  /\ e \notin Range(m_destroyedEntities) => Drops \in Seq(OthersThan(e))
           /\ e \notin Range(m_unstoredEntities) \/ ~ Alive(e) => Inserts \in Seq(OthersThan(e))
           /\ ~ Ticked(e, n) => Updates(n) \in Seq(OthersThan(e))
<1>1. /\ \A i \in DOMAIN m_destroyedEntities : m_destroyedEntities[i] \in Ids
      /\ \A i \in DOMAIN m_unstoredEntities : m_unstoredEntities[i] \in Ids
      /\ \A i \in 1 .. n : m_dirtyEntities[i] \in Ids
      /\ entity \in [Ids -> Entity]
  BY DEF TypeOK
<1>2. ASSUME NEW x \in Ids, x # e
      PROVE  /\ DropCommands(x) \in Seq(OthersThan(e)) /\ InsertCommands(x) \in Seq(OthersThan(e))
             /\ UpdateCommands(x) \in Seq(OthersThan(e))
  <2>1. NotInserting(x) \subseteq OthersThan(e) /\ Of(x) \subseteq OthersThan(e)
    BY <1>2 DEF NotInserting, Of, OthersThan
  <2> QED
    BY <1>1, <2>1, CommandsOf
<1>3. ASSUME e \notin Range(m_destroyedEntities) PROVE Drops \in Seq(OthersThan(e))
  <2>1. \A i \in DOMAIN m_destroyedEntities : m_destroyedEntities[i] # e
    BY <1>3 DEF Range
  <2> QED
    BY <1>1, <1>2, <2>1, DropsIn
<1>4. ASSUME e \notin Range(m_unstoredEntities) \/ ~ Alive(e) PROVE Inserts \in Seq(OthersThan(e))
  <2>1. ASSUME NEW i \in DOMAIN m_unstoredEntities PROVE InsertCommands(m_unstoredEntities[i]) \in Seq(OthersThan(e))
    <3>1. CASE m_unstoredEntities[i] # e
      BY <1>1, <1>2, <3>1
    <3>2. CASE m_unstoredEntities[i] = e
      <4>1. ~ Alive(e)
        BY <1>4, <3>2 DEF Range
      <4>2. InsertCommands(e) = <<>>
        BY <4>1 DEF InsertCommands
      <4> QED
        BY <3>2, <4>2
    <3> QED
      BY <3>1, <3>2
  <2> QED
    BY <2>1, InsertsIn
<1>5. ASSUME ~ Ticked(e, n) PROVE Updates(n) \in Seq(OthersThan(e))
  <2>1. \A i \in 1 .. n : m_dirtyEntities[i] # e
    BY <1>5 DEF Ticked
  <2> QED
    BY <1>1, <1>2, <2>1, UpdatesIn
<1> QED
  BY <1>3, <1>4, <1>5

\* ... and those that are.
LEMMA PartsAround ==
    ASSUME TypeOK, NEW e \in Ids, NEW n \in 0 .. Len(m_dirtyEntities), NoDup(m_unstoredEntities), NoDup(m_dirtyEntities)
    PROVE  /\ e \in Range(m_destroyedEntities) => Around(Drops, DropCommands(e), NoInsertOf(e))
           /\ e \in Range(m_unstoredEntities) => Around(Inserts, InsertCommands(e), OthersThan(e))
           /\ Ticked(e, n) => Around(Updates(n), UpdateCommands(e), OthersThan(e))
<1>1. /\ \A i \in DOMAIN m_destroyedEntities : m_destroyedEntities[i] \in Ids
      /\ \A i \in DOMAIN m_unstoredEntities : m_unstoredEntities[i] \in Ids
      /\ \A i \in 1 .. n : m_dirtyEntities[i] \in Ids /\ i \in DOMAIN m_dirtyEntities
      /\ entity \in [Ids -> Entity] /\ n \in Nat
  BY DEF TypeOK
<1>2. ASSUME NEW x \in Ids
      PROVE  /\ DropCommands(x) \in Seq(NoInsertOf(e))
             /\ x # e => InsertCommands(x) \in Seq(OthersThan(e)) /\ UpdateCommands(x) \in Seq(OthersThan(e))
             /\ DropCommands(x) \in Seq(GoodCommand) /\ InsertCommands(x) \in Seq(GoodCommand)
             /\ UpdateCommands(x) \in Seq(GoodCommand)
  <2>1. /\ NotInserting(x) \subseteq NoInsertOf(e) /\ NotInserting(x) \subseteq GoodCommand /\ Of(x) \subseteq GoodCommand
        /\ x # e => NotInserting(x) \subseteq OthersThan(e) /\ Of(x) \subseteq OthersThan(e)
    BY DEF NotInserting, Of, OthersThan, NoInsertOf
  <2> QED
    BY <1>1, <2>1, CommandsOf
<1>3. NoInsertOf(e) \subseteq GoodCommand /\ OthersThan(e) \subseteq GoodCommand
  BY DEF NoInsertOf, OthersThan
<1>4. ASSUME e \in Range(m_destroyedEntities) PROVE Around(Drops, DropCommands(e), NoInsertOf(e))
  <2>1. PICK l \in Nat : DOMAIN m_destroyedEntities = 1 .. l
    BY DEF TypeOK
  <2>2. PICK k \in 1 .. l : m_destroyedEntities[k] = e
    BY <1>4, <2>1 DEF Range
  <2>3. PICK seqs : seqs = [i \in 1 .. l |-> DropCommands(m_destroyedEntities[i])]
    OBVIOUS
  <2>4. seqs \in Seq(Seq(GoodCommand)) /\ Len(seqs) = l
    <3>1. \A i \in 1 .. l : DropCommands(m_destroyedEntities[i]) \in Seq(GoodCommand)
      BY <1>1, <1>2, <2>1
    <3> QED
      BY <2>3, <3>1
  <2>5. \A i \in 1 .. Len(seqs) : i # k => seqs[i] \in Seq(NoInsertOf(e))
    BY <1>1, <1>2, <2>1, <2>3, <2>4
  <2>6. Around(FlattenSeq(seqs), seqs[k], NoInsertOf(e))
    BY <1>3, <2>2, <2>4, <2>5, FlattenAround
  <2> QED
    BY <2>1, <2>2, <2>3, <2>6 DEF Drops
<1>5. ASSUME e \in Range(m_unstoredEntities) PROVE Around(Inserts, InsertCommands(e), OthersThan(e))
  <2>1. PICK l \in Nat : DOMAIN m_unstoredEntities = 1 .. l
    BY DEF TypeOK
  <2>2. PICK k \in 1 .. l : m_unstoredEntities[k] = e
    BY <1>5, <2>1 DEF Range
  <2>3. PICK seqs : seqs = [i \in 1 .. l |-> InsertCommands(m_unstoredEntities[i])]
    OBVIOUS
  <2>4. seqs \in Seq(Seq(GoodCommand)) /\ Len(seqs) = l
    <3>1. \A i \in 1 .. l : InsertCommands(m_unstoredEntities[i]) \in Seq(GoodCommand)
      BY <1>1, <1>2, <2>1
    <3> QED
      BY <2>3, <3>1
  <2>5. \A i \in 1 .. l : i # k => m_unstoredEntities[i] # e
    BY <2>1, <2>2 DEF NoDup
  <2>6. \A i \in 1 .. Len(seqs) : i # k => seqs[i] \in Seq(OthersThan(e))
    BY <1>1, <1>2, <2>1, <2>3, <2>4, <2>5
  <2>7. Around(FlattenSeq(seqs), seqs[k], OthersThan(e))
    BY <1>3, <2>2, <2>4, <2>6, FlattenAround
  <2> QED
    BY <2>1, <2>2, <2>3, <2>7 DEF Inserts
<1>6. ASSUME Ticked(e, n) PROVE Around(Updates(n), UpdateCommands(e), OthersThan(e))
  <2>2. PICK k \in 1 .. n : m_dirtyEntities[k] = e
    BY <1>6 DEF Ticked
  <2>3. PICK seqs : seqs = [i \in 1 .. n |-> UpdateCommands(m_dirtyEntities[i])]
    OBVIOUS
  <2>4. seqs \in Seq(Seq(GoodCommand)) /\ Len(seqs) = n
    BY <1>1, <1>2, <2>3
  <2>5. \A i \in 1 .. n : i # k => m_dirtyEntities[i] # e
    BY <1>1, <2>2 DEF NoDup
  <2>6. \A i \in 1 .. Len(seqs) : i # k => seqs[i] \in Seq(OthersThan(e))
    BY <1>1, <1>2, <2>3, <2>4, <2>5
  <2>7. Around(FlattenSeq(seqs), seqs[k], OthersThan(e))
    BY <1>3, <2>2, <2>4, <2>6, FlattenAround
  <2> QED
    BY <2>2, <2>3, <2>7 DEF Updates
<1> QED
  BY <1>4, <1>5, <1>6

\* What the commands of one entity make of its rows.
LEMMA InsertEffect ==
    ASSUME entity \in [Ids -> Entity], NEW e \in Ids, Alive(e),
           NEW d \in Databases, d.rows[e] = NoRow, d.props[e] = <<>>
    PROVE  /\ After(d, InsertCommands(e)).rows[e] = entity[e].parent
           /\ After(d, InsertCommands(e)).props[e] = IF entity[e].value = 0 THEN <<>> ELSE <<entity[e].value>>
<1>1. PICK p, v : p = entity[e].parent /\ v = entity[e].value /\ p \in Holders /\ v \in 0 .. MaxValue
  BY DEF Entity, Holders
<1>2. PICK iE, iP : iE = "insert entity" /\ iP = "insert properties"
  OBVIOUS
<1>3. PICK a, b : a = Command(iE, e, p) /\ b = Command(iP, e, v)
  OBVIOUS
<1>4. Commanded(a, iE, e, p) /\ (v # 0 => Commanded(b, iP, e, v))
  <2>1. GoodArg(iE, p) /\ (v # 0 => GoodArg(iP, v))
    <3>1. v # 0 => v \in 1 .. MaxValue
      BY <1>1, StorageAssumption
    <3> QED
      BY <1>1, <1>2, <3>1 DEF GoodArg
  <2> QED
    BY <1>3, <2>1, CommandTypes
<1>5. InsertCommands(e) = <<a>> \o (IF v = 0 THEN <<>> ELSE <<b>>)
  BY <1>1, <1>2, <1>3 DEF InsertCommands
<1>6. PICK m : m = Executed(d, a)
  OBVIOUS
<1>7. m \in Databases /\ m.rows[e] = p /\ m.props[e] = <<>>
  <2>1. Changed(m, d, e, RowAfter(d, a), ValuesAfter(d, a))
    BY <1>4, <1>6, ExecutedIs DEF Commanded
  <2>2. RowAfter(d, a) = p /\ ValuesAfter(d, a) = <<>>
    BY <1>2, <1>4 DEF Commanded, RowAfter, ValuesAfter
  <2> QED
    BY <2>1, <2>2 DEF Changed
<1>8. CASE v = 0
  <2>1. InsertCommands(e) = <<a>>
    BY <1>5, <1>8
  <2>2. After(d, InsertCommands(e)) = m
    BY <1>6, <2>1, AfterOne
  <2> QED
    BY <1>1, <1>7, <1>8, <2>2
<1>9. CASE v # 0
  <2>1. PICK s, t : s = <<a>> /\ t = <<b>>
    OBVIOUS
  <2>2. InsertCommands(e) = s \o t /\ s \in Seq({a, b}) /\ t \in Seq({a, b})
    BY <1>5, <1>9, <2>1
  <2>3. After(d, s) = m
    BY <1>6, <2>1, AfterOne
  <2>4. After(d, InsertCommands(e)) = After(m, t)
    BY <2>2, <2>3, AfterConcat
  <2>5. PICK k : k = Executed(m, b)
    OBVIOUS
  <2>6. After(d, InsertCommands(e)) = k
    BY <2>1, <2>4, <2>5, AfterOne
  <2>7. Changed(k, m, e, RowAfter(m, b), ValuesAfter(m, b))
    BY <1>4, <1>7, <1>9, <2>5, ExecutedIs DEF Commanded
  <2>8. RowAfter(m, b) = p /\ ValuesAfter(m, b) = Append(<<>>, v)
    BY <1>2, <1>4, <1>7, <1>9 DEF Commanded, RowAfter, ValuesAfter
  <2>9. Append(<<>>, v) = <<v>>
    OBVIOUS
  <2> QED
    BY <1>1, <1>9, <2>6, <2>7, <2>8, <2>9 DEF Changed
<1> QED
  BY <1>8, <1>9

LEMMA DropEffect ==
    ASSUME NEW e \in Ids, NEW d \in Databases
    PROVE  After(d, DropCommands(e)) \in Databases /\ After(d, DropCommands(e)).rows[e] = NoRow
<1>1. PICK zero, dP, dE : zero = 0 /\ dP = "delete properties" /\ dE = "delete entity"
  OBVIOUS
<1>2. PICK a, b : a = Command(dP, e, zero) /\ b = Command(dE, e, zero)
  OBVIOUS
<1>3. Commanded(a, dP, e, zero) /\ Commanded(b, dE, e, zero)
  <2>1. GoodArg(dP, zero) /\ GoodArg(dE, zero)
    BY <1>1 DEF GoodArg
  <2> QED
    BY <1>2, <2>1, CommandTypes
<1>4. PICK s, t : s = <<a>> /\ t = <<b>>
  OBVIOUS
<1>5. DropCommands(e) = s \o t /\ s \in Seq({a, b}) /\ t \in Seq({a, b})
  <2>1. DropCommands(e) = <<a, b>>
    BY <1>1, <1>2 DEF DropCommands
  <2>2. <<a, b>> = Append(<<a>>, b)
    OBVIOUS
  <2>3. s \in Seq({a, b}) /\ t \in Seq({a, b})
    BY <1>4
  <2>4. Append(s, b) = s \o t
    BY <1>4, <2>3
  <2> QED
    BY <1>4, <2>1, <2>2, <2>3, <2>4
<1>6. PICK m : m = Executed(d, a) /\ m \in Databases
  BY <1>3, ExecutedIs DEF Commanded, Changed
<1>7. PICK k : k = Executed(m, b)
  OBVIOUS
<1>8. After(d, DropCommands(e)) = k
  <2>1. After(d, s) = m /\ After(m, t) = k
    BY <1>4, <1>6, <1>7, AfterOne
  <2> QED
    BY <1>5, <2>1, AfterConcat
<1>9. Changed(k, m, e, RowAfter(m, b), ValuesAfter(m, b))
  BY <1>3, <1>6, <1>7, ExecutedIs DEF Commanded
<1>10. RowAfter(m, b) = NoRow
  BY <1>1, <1>3 DEF Commanded, RowAfter
<1> QED
  BY <1>8, <1>9, <1>10 DEF Changed

LEMMA UpdateEffect ==
    ASSUME entity \in [Ids -> Entity], NEW e \in Ids, Alive(e), ~ entity[e].clean,
           NEW d \in Databases, d.rows[e] # NoRow
    PROVE  /\ After(d, UpdateCommands(e)).rows[e] = entity[e].parent
           /\ After(d, UpdateCommands(e)).props[e] =
                  IF entity[e].value = 0 \/ entity[e].pclean THEN d.props[e]
                  ELSE IF entity[e].seen THEN [i \in DOMAIN d.props[e] |-> entity[e].value]
                       ELSE Append(d.props[e], entity[e].value)
<1>1. PICK p, v : p = entity[e].parent /\ v = entity[e].value /\ p \in Holders /\ v \in 0 .. MaxValue
  BY DEF Entity, Holders
<1>2. PICK uE, set : uE = "update entity" /\ set = IF entity[e].seen THEN "update property" ELSE "insert properties"
  OBVIOUS
<1>3. PICK a, b : a = Command(uE, e, p) /\ b = Command(set, e, v)
  OBVIOUS
<1>4. Commanded(a, uE, e, p) /\ (v # 0 => Commanded(b, set, e, v))
  <2>1. GoodArg(uE, p) /\ (v # 0 => GoodArg(set, v))
    <3>1. v # 0 => v \in 1 .. MaxValue
      BY <1>1, StorageAssumption
    <3> QED
      BY <1>1, <1>2, <3>1 DEF GoodArg
  <2> QED
    BY <1>3, <2>1, CommandTypes
<1>5. PICK s, t : s = <<a>> /\ t = <<b>>
  OBVIOUS
<1>6. UpdateCommands(e) = IF v = 0 \/ entity[e].pclean THEN s ELSE s \o t
  <2>1. entity[e].status # "destroyed"
    BY DEF Alive
  <2>2. UpdateCommands(e) = <<a>> \o (IF v = 0 \/ entity[e].pclean THEN <<>> ELSE <<b>>)
    BY <1>1, <1>2, <1>3, <2>1 DEF UpdateCommands
  <2>3. <<a>> \o <<>> = <<a>>
    OBVIOUS
  <2> QED
    BY <1>5, <2>2, <2>3
<1>7. PICK m : m = Executed(d, a)
  OBVIOUS
<1>8. m \in Databases /\ m.rows[e] = p /\ m.props[e] = d.props[e]
  <2>1. Changed(m, d, e, RowAfter(d, a), ValuesAfter(d, a))
    BY <1>4, <1>7, ExecutedIs DEF Commanded
  <2>2. RowAfter(d, a) = p /\ ValuesAfter(d, a) = d.props[e]
    BY <1>2, <1>4 DEF Commanded, RowAfter, ValuesAfter
  <2> QED
    BY <2>1, <2>2 DEF Changed
<1>9. After(d, s) = m
  BY <1>5, <1>7, AfterOne
<1>10. CASE v = 0 \/ entity[e].pclean
  <2>1. After(d, UpdateCommands(e)) = m
    BY <1>6, <1>9, <1>10
  <2> QED
    BY <1>1, <1>8, <1>10, <2>1
<1>11. CASE ~ (v = 0 \/ entity[e].pclean)
  <2>1. PICK k : k = Executed(m, b)
    OBVIOUS
  <2>2. After(m, t) = k
    BY <1>5, <2>1, AfterOne
  <2>3. After(d, UpdateCommands(e)) = k
    <3>1. s \in Seq({a, b}) /\ t \in Seq({a, b}) /\ UpdateCommands(e) = s \o t
      BY <1>5, <1>6, <1>11
    <3> QED
      BY <1>9, <2>2, <3>1, AfterConcat
  <2>4. Changed(k, m, e, RowAfter(m, b), ValuesAfter(m, b))
    BY <1>4, <1>8, <1>11, <2>1, ExecutedIs DEF Commanded
  <2>5. RowAfter(m, b) = p
    BY <1>2, <1>4, <1>8, <1>11 DEF Commanded, RowAfter
  <2>6. ValuesAfter(m, b) = IF entity[e].seen THEN [i \in DOMAIN d.props[e] |-> v] ELSE Append(d.props[e], v)
    <3>1. CASE entity[e].seen
      <4>1. b.cmd = "update property" /\ b.id = e /\ b.arg = v
        BY <1>2, <1>4, <1>11, <3>1 DEF Commanded
      <4> QED
        BY <1>8, <3>1, <4>1 DEF ValuesAfter
    <3>2. CASE ~ entity[e].seen
      <4>1. b.cmd = "insert properties" /\ b.id = e /\ b.arg = v
        BY <1>2, <1>4, <1>11, <3>2 DEF Commanded
      <4> QED
        BY <1>8, <3>2, <4>1 DEF ValuesAfter
    <3> QED
      BY <3>1, <3>2
  <2> QED
    BY <1>1, <1>11, <2>3, <2>4, <2>5, <2>6 DEF Changed
<1> QED
  BY <1>10, <1>11

\* The tables after a tick, part by part.
LEMMA TickFuture ==
    ASSUME StoreTypes, NEW n, TickBody(n), UNCHANGED tables
    PROVE  /\ FutureDatabase \in Databases
           /\ After(FutureDatabase, Drops) \in Databases
           /\ After(After(FutureDatabase, Drops), Inserts) \in Databases
           /\ FutureDatabase' \in Databases
           /\ FutureDatabase' = After(After(After(FutureDatabase, Drops), Inserts), Updates(n))
<1>1. n \in 0 .. Len(m_dirtyEntities) /\ TypeOK /\ pendingQueries \in Seq(GoodCommand)
  BY DEF TickBody, StoreTypes
<1>2. Database \in Databases
  BY DEF Database, Databases, StoreTypes, TypeOK
<1>3. PICK f : f = FutureDatabase /\ f = After(Database, pendingQueries) /\ f \in Databases
  BY <1>1, <1>2, AfterGood DEF FutureDatabase
<1>4. PICK a, b, c : a = Drops /\ b = Inserts /\ c = Updates(n)
  OBVIOUS
<1>5. a \in Seq(GoodCommand) /\ b \in Seq(GoodCommand) /\ c \in Seq(GoodCommand)
  <2>1. /\ \A i \in DOMAIN m_destroyedEntities : m_destroyedEntities[i] \in Ids
        /\ \A i \in DOMAIN m_unstoredEntities : m_unstoredEntities[i] \in Ids
        /\ \A i \in 1 .. n : m_dirtyEntities[i] \in Ids
        /\ entity \in [Ids -> Entity]
    BY <1>1 DEF TypeOK
  <2>2. ASSUME NEW x \in Ids
        PROVE  DropCommands(x) \in Seq(GoodCommand) /\ InsertCommands(x) \in Seq(GoodCommand) /\ UpdateCommands(x) \in Seq(GoodCommand)
    <3>1. NotInserting(x) \subseteq GoodCommand /\ Of(x) \subseteq GoodCommand
      BY DEF NotInserting, Of
    <3> QED
      BY <2>1, <3>1, CommandsOf
  <2> QED
    BY <1>1, <1>4, <2>1, <2>2, TickCommandsIn
<1>6. PICK ab : ab = a \o b
  OBVIOUS
<1>7. ab \in Seq(GoodCommand) /\ ab \o c \in Seq(GoodCommand) /\ TickCommands(n) = ab \o c
  BY <1>4, <1>5, <1>6 DEF TickCommands
<1>8. After(f, a) \in Databases
  BY <1>3, <1>5, AfterGood
<1>9. After(After(f, a), b) \in Databases
  BY <1>5, <1>8, AfterGood
<1>10. After(f, ab) = After(After(f, a), b)
  BY <1>5, <1>6, AfterConcat
<1>11. After(f, ab \o c) = After(After(f, ab), c)
  BY <1>5, <1>7, AfterConcat
<1>12. PICK abc : abc = ab \o c
  OBVIOUS
<1>13. After(Database, pendingQueries \o abc) = After(f, abc)
  <2>1. abc \in Seq(GoodCommand)
    BY <1>7, <1>12
  <2>2. After(Database, pendingQueries \o abc) = After(After(Database, pendingQueries), abc)
    BY <1>1, <2>1, AfterConcat
  <2> QED
    BY <1>3, <2>2
<1>14. Database' = Database /\ pendingQueries' = pendingQueries \o abc
  BY <1>7, <1>12 DEF Database, tables, TickBody
<1>15. FutureDatabase' = After(Database, pendingQueries \o abc)
  BY <1>14 DEF FutureDatabase
<1>16. After(After(After(f, a), b), c) \in Databases
  BY <1>5, <1>9, AfterGood
<1> QED
  BY <1>3, <1>4, <1>8, <1>9, <1>10, <1>11, <1>12, <1>13, <1>15, <1>16

\* The values of e's property rows after updateEntity().
UpdatedValues(e, values) ==
    IF entity[e].value = 0 \/ entity[e].pclean THEN values
    ELSE IF entity[e].seen THEN [i \in DOMAIN values |-> entity[e].value] ELSE Append(values, entity[e].value)

\* What a tick makes of the rows of e: nothing, if it does not come across e; ...
LEMMA TickOthers ==
    ASSUME StoreTypes, NEW n, TickBody(n), UNCHANGED tables, NEW e \in Ids,
           e \notin Range(m_destroyedEntities), e \notin Range(m_unstoredEntities) \/ ~ Alive(e), ~ Ticked(e, n)
    PROVE  FutureDatabase'.rows[e] = FutureDatabase.rows[e] /\ FutureDatabase'.props[e] = FutureDatabase.props[e]
<1>1. n \in 0 .. Len(m_dirtyEntities) /\ TypeOK
  BY DEF TickBody, StoreTypes
<1>2. Drops \in Seq(OthersThan(e)) /\ Inserts \in Seq(OthersThan(e)) /\ Updates(n) \in Seq(OthersThan(e))
  BY <1>1, PartsOthers
<1>3. PICK f \in Databases, g \in Databases, h \in Databases, k \in Databases :
          f = FutureDatabase /\ g = After(f, Drops) /\ h = After(g, Inserts) /\ k = After(h, Updates(n)) /\ FutureDatabase' = k
  BY TickFuture
<1>4. g.rows[e] = f.rows[e] /\ g.props[e] = f.props[e]
  BY <1>2, <1>3, AfterOthers
<1>5. h.rows[e] = g.rows[e] /\ h.props[e] = g.props[e]
  BY <1>2, <1>3, AfterOthers
<1>6. k.rows[e] = h.rows[e] /\ k.props[e] = h.props[e]
  BY <1>2, <1>3, AfterOthers
<1> QED
  BY <1>3, <1>4, <1>5, <1>6

\* ... the first rows, if e is new; ...
LEMMA TickInserts ==
    ASSUME StoreTypes, NoDup(m_unstoredEntities), NoDup(m_dirtyEntities), NEW n, TickBody(n), UNCHANGED tables,
           NEW e \in Ids, Alive(e),
           e \notin Range(m_destroyedEntities), e \in Range(m_unstoredEntities), ~ Ticked(e, n),
           FutureDatabase.rows[e] = NoRow, FutureDatabase.props[e] = <<>>
    PROVE  /\ FutureDatabase'.rows[e] = entity[e].parent
           /\ FutureDatabase'.props[e] = IF entity[e].value = 0 THEN <<>> ELSE <<entity[e].value>>
<1>1. n \in 0 .. Len(m_dirtyEntities) /\ TypeOK /\ entity \in [Ids -> Entity]
  BY DEF TickBody, StoreTypes, TypeOK
<1>2. Drops \in Seq(OthersThan(e)) /\ Updates(n) \in Seq(OthersThan(e)) /\ Around(Inserts, InsertCommands(e), OthersThan(e))
  BY <1>1, PartsOthers, PartsAround
<1>3. PICK f \in Databases, g \in Databases, h \in Databases, k \in Databases :
          f = FutureDatabase /\ g = After(f, Drops) /\ h = After(g, Inserts) /\ k = After(h, Updates(n)) /\ FutureDatabase' = k
  BY TickFuture
<1>4. g.rows[e] = NoRow /\ g.props[e] = <<>>
  BY <1>2, <1>3, AfterOthers
<1>5. InsertCommands(e) \in Seq(GoodCommand)
  <2>1. Of(e) \subseteq GoodCommand
    BY DEF Of
  <2> QED
    BY <1>1, <2>1, CommandsOf
<1>6. PICK m \in Databases : /\ m.rows[e] = g.rows[e] /\ m.props[e] = g.props[e]
                             /\ h.rows[e] = After(m, InsertCommands(e)).rows[e]
                             /\ h.props[e] = After(m, InsertCommands(e)).props[e]
  BY <1>2, <1>3, <1>5, AroundOthers
<1>7. h.rows[e] = entity[e].parent /\ h.props[e] = IF entity[e].value = 0 THEN <<>> ELSE <<entity[e].value>>
  BY <1>1, <1>4, <1>6, InsertEffect
<1>8. k.rows[e] = h.rows[e] /\ k.props[e] = h.props[e]
  BY <1>2, <1>3, AfterOthers
<1> QED
  BY <1>3, <1>7, <1>8

\* ... what e is by now, if it is dirty; ...
LEMMA TickUpdates ==
    ASSUME StoreTypes, NoDup(m_unstoredEntities), NoDup(m_dirtyEntities), NEW n, TickBody(n), UNCHANGED tables,
           NEW e \in Ids, Alive(e),
           e \notin Range(m_destroyedEntities), e \notin Range(m_unstoredEntities), Ticked(e, n),
           FutureDatabase.rows[e] # NoRow
    PROVE  /\ entity[e].clean => /\ FutureDatabase'.rows[e] = FutureDatabase.rows[e]
                                 /\ FutureDatabase'.props[e] = FutureDatabase.props[e]
           /\ ~ entity[e].clean => /\ FutureDatabase'.rows[e] = entity[e].parent
                                   /\ FutureDatabase'.props[e] = UpdatedValues(e, FutureDatabase.props[e])
<1>1. n \in 0 .. Len(m_dirtyEntities) /\ TypeOK /\ entity \in [Ids -> Entity]
  BY DEF TickBody, StoreTypes, TypeOK
<1>2. Drops \in Seq(OthersThan(e)) /\ Inserts \in Seq(OthersThan(e)) /\ Around(Updates(n), UpdateCommands(e), OthersThan(e))
  BY <1>1, PartsOthers, PartsAround
<1>3. PICK f \in Databases, g \in Databases, h \in Databases, k \in Databases :
          f = FutureDatabase /\ g = After(f, Drops) /\ h = After(g, Inserts) /\ k = After(h, Updates(n)) /\ FutureDatabase' = k
  BY TickFuture
<1>4. g.rows[e] = f.rows[e] /\ g.props[e] = f.props[e]
  BY <1>2, <1>3, AfterOthers
<1>5. h.rows[e] = g.rows[e] /\ h.props[e] = g.props[e]
  BY <1>2, <1>3, AfterOthers
<1>6. UpdateCommands(e) \in Seq(GoodCommand)
  <2>1. NotInserting(e) \subseteq GoodCommand
    BY DEF Of, NotInserting
  <2> QED
    BY <1>1, <2>1, CommandsOf
<1>7. PICK m \in Databases : /\ m.rows[e] = h.rows[e] /\ m.props[e] = h.props[e]
                             /\ k.rows[e] = After(m, UpdateCommands(e)).rows[e]
                             /\ k.props[e] = After(m, UpdateCommands(e)).props[e]
  BY <1>2, <1>3, <1>6, AroundOthers
<1>8. CASE entity[e].clean
  <2>1. After(m, UpdateCommands(e)) = m
    BY <1>8, AfterNone DEF UpdateCommands
  <2> QED
    BY <1>3, <1>4, <1>5, <1>7, <1>8, <2>1
<1>9. CASE ~ entity[e].clean
  <2>1. m.rows[e] # NoRow /\ m.props[e] = f.props[e]
    BY <1>3, <1>4, <1>5, <1>7
  <2>2. k.rows[e] = entity[e].parent /\ k.props[e] = UpdatedValues(e, m.props[e])
    BY <1>1, <1>7, <1>9, <2>1, UpdateEffect DEF UpdatedValues
  <2> QED
    BY <1>3, <1>9, <2>1, <2>2
<1> QED
  BY <1>8, <1>9

\* ... and none, if e is destroyed.
LEMMA TickDrops ==
    ASSUME StoreTypes, NoDup(m_unstoredEntities), NoDup(m_dirtyEntities), NEW n, TickBody(n), UNCHANGED tables,
           NEW e \in Ids, ~ Alive(e), e \in Range(m_destroyedEntities) \/ FutureDatabase.rows[e] = NoRow
    PROVE  FutureDatabase'.rows[e] = NoRow
<1>1. n \in 0 .. Len(m_dirtyEntities) /\ TypeOK /\ entity \in [Ids -> Entity]
  BY DEF TickBody, StoreTypes, TypeOK
<1>2. PICK f \in Databases, g \in Databases, h \in Databases, k \in Databases :
          f = FutureDatabase /\ g = After(f, Drops) /\ h = After(g, Inserts) /\ k = After(h, Updates(n)) /\ FutureDatabase' = k
  BY TickFuture
<1>3. /\ \A i \in DOMAIN m_destroyedEntities : m_destroyedEntities[i] \in Ids
      /\ \A i \in 1 .. n : m_dirtyEntities[i] \in Ids
  <2>1. m_destroyedEntities \in Seq(Ids) /\ m_dirtyEntities \in Seq(Ids)
    BY <1>1 DEF TypeOK
  <2> QED
    BY <1>1, <2>1
<1>4. \A x \in Ids : DropCommands(x) \in Seq(NoInsertOf(e)) /\ UpdateCommands(x) \in Seq(NoInsertOf(e))
  <2> SUFFICES ASSUME NEW x \in Ids PROVE DropCommands(x) \in Seq(NoInsertOf(e)) /\ UpdateCommands(x) \in Seq(NoInsertOf(e))
    OBVIOUS
  <2>1. NotInserting(x) \subseteq NoInsertOf(e)
    BY DEF NotInserting, Of, NoInsertOf
  <2> QED
    BY <1>1, <2>1, CommandsOf
<1>5. Drops \in Seq(NoInsertOf(e)) /\ Updates(n) \in Seq(NoInsertOf(e)) /\ Inserts \in Seq(OthersThan(e))
  BY <1>1, <1>3, <1>4, DropsIn, UpdatesIn, PartsOthers
<1>6. g.rows[e] = NoRow
  <2>1. CASE f.rows[e] = NoRow
    BY <1>2, <1>5, <2>1, AfterNoInsert
  <2>2. CASE e \in Range(m_destroyedEntities)
    <3>1. Around(Drops, DropCommands(e), NoInsertOf(e))
      BY <1>1, <2>2, PartsAround
    <3>2. PICK r : r = DropCommands(e) /\ r \in Seq(GoodCommand)
      <4>1. NoInsertOf(e) \subseteq GoodCommand
        BY DEF NoInsertOf
      <4> QED
        BY <1>4, <4>1
    <3>3. PICK a \in Seq(NoInsertOf(e)), b \in Seq(NoInsertOf(e)) : Drops = (a \o r) \o b
      BY <3>1, <3>2 DEF Around
    <3>4. a \in Seq(GoodCommand) /\ b \in Seq(GoodCommand)
      <4>1. NoInsertOf(e) \subseteq GoodCommand
        BY DEF NoInsertOf
      <4> QED
        BY <4>1
    <3>5. PICK ar : ar = a \o r
      OBVIOUS
    <3>6. ar \in Seq(GoodCommand) /\ Drops = ar \o b
      BY <3>2, <3>3, <3>4, <3>5
    <3>7. PICK m : m = After(f, a) /\ m \in Databases
      BY <3>4, AfterGood
    <3>8. PICK l : l = After(m, r) /\ l \in Databases /\ l.rows[e] = NoRow
      BY <3>2, <3>7, DropEffect
    <3>9. After(f, ar) = l
      BY <3>2, <3>4, <3>5, <3>7, <3>8, AfterConcat
    <3>10. g = After(l, b)
      BY <1>2, <3>4, <3>6, <3>9, AfterConcat
    <3> QED
      BY <3>8, <3>10, AfterNoInsert
  <2> QED
    BY <1>2, <2>1, <2>2
<1>7. h.rows[e] = NoRow
  BY <1>2, <1>5, <1>6, AfterOthers
<1>8. k.rows[e] = NoRow
  BY <1>2, <1>5, <1>7, AfterNoInsert
<1> QED
  BY <1>2, <1>8

LEMMA LastOne ==
    ASSUME NEW v PROVE <<v>> # <<>> /\ Last(<<v>>) = v
<1>1. Len(<<v>>) = 1 /\ <<v>>[1] = v /\ <<v>> # <<>>
  OBVIOUS
<1> QED
  BY <1>1 DEF Last

LEMMA LastAll ==
    ASSUME NEW V, NEW s \in Seq(V), s # <<>>, NEW v, NEW t, t = [i \in DOMAIN s |-> v] PROVE t # <<>> /\ Last(t) = v
<1>1. PICK n \in Nat : n = Len(s) /\ n # 0 /\ DOMAIN s = 1 .. n
  BY EmptySeq
<1>2. t \in Seq({v}) /\ Len(t) = n /\ t[n] = v
  BY <1>1
<1>3. t # <<>>
  BY <1>1, <1>2
<1> QED
  BY <1>2, <1>3 DEF Last

\* After insertEntity() ...
LEMMA InsertStores ==
    ASSUME NEW r \in Entity, NEW s, s = AfterInsert(r), r.status = "alive", ~ r.clean, ~ r.seen, ~ r.pclean,
           NEW row, row = r.parent, NEW values, values = IF r.value = 0 THEN <<>> ELSE <<r.value>>
    PROVE  Stored(s, row, values) /\ Noted(s) /\ s.status = "alive" /\ s.connected /\ ~ s.queued /\ s.parent = r.parent
<1>1. /\ s.status = "alive" /\ s.parent = r.parent /\ s.clean /\ ~ s.queued /\ s.connected /\ s.value = r.value
      /\ (s.pclean <=> r.value # 0) /\ (s.seen <=> r.value # 0)
  BY DEF AfterInsert, Written, Entity
<1>2. row # NoRow
  BY DEF Entity, NoRow
<1>3. r.value # 0 => values # <<>> /\ Last(values) = r.value
  BY LastOne
<1>4. r.value = 0 => values = <<>>
  OBVIOUS
<1>5. Stored(s, row, values)
  BY <1>1, <1>2, <1>3, <1>4 DEF Stored
<1>6. Noted(s)
  BY <1>1 DEF Noted
<1> QED
  BY <1>1, <1>5, <1>6

\* ... and after updateEntity().
LEMMA UpdateStores ==
    ASSUME NEW r \in Entity, NEW s, s = AfterUpdate(r), r.status = "alive", r.connected,
           NEW row, NEW old \in Seq(1 .. MaxValue), Stored(r, row, old),
           NEW after, after = IF r.clean THEN row ELSE r.parent,
           NEW values, values = IF r.clean \/ r.value = 0 \/ r.pclean THEN old
                                ELSE IF r.seen THEN [i \in DOMAIN old |-> r.value] ELSE Append(old, r.value)
    PROVE  Stored(s, after, values) /\ Noted(s) /\ s.status = "alive" /\ s.connected /\ ~ s.queued /\ s.parent = r.parent
<1>1. CASE r.clean
  <2>1. /\ s.status = "alive" /\ s.parent = r.parent /\ s.clean /\ ~ s.queued /\ s.connected /\ s.value = r.value
        /\ s.pclean = r.pclean /\ s.seen = r.seen
    BY <1>1 DEF AfterUpdate, Entity
  <2>2. after = row /\ values = old
    BY <1>1
  <2>3. Stored(s, after, values)
    BY <1>1, <2>1, <2>2 DEF Stored
  <2>4. Noted(s)
    BY <2>1 DEF Noted
  <2> QED
    BY <2>1, <2>3, <2>4
<1>2. CASE ~ r.clean
  <2>1. /\ s.status = "alive" /\ s.parent = r.parent /\ s.clean /\ ~ s.queued /\ s.connected /\ s.value = r.value
        /\ (s.pclean <=> r.pclean \/ r.value # 0) /\ (s.seen <=> r.seen \/ r.value # 0)
    BY <1>2 DEF AfterUpdate, Written, Entity
  <2>2. after = r.parent /\ after # NoRow
    BY <1>2 DEF Entity, NoRow
  <2>3. /\ r.seen <=> old # <<>>
        /\ r.pclean => r.value # 0 /\ old # <<>> /\ Last(old) = r.value
        /\ r.seen => r.value # 0
    BY DEF Stored
  <2>4. r.value = 0 => values = <<>>
    BY <1>2, <2>3
  <2>5. r.value # 0 => values # <<>> /\ Last(values) = r.value
    <3> SUFFICES ASSUME r.value # 0 PROVE values # <<>> /\ Last(values) = r.value
      OBVIOUS
    <3>1. CASE r.pclean
      BY <1>2, <2>3, <3>1
    <3>2. CASE ~ r.pclean /\ r.seen
      <4>1. values = [i \in DOMAIN old |-> r.value] /\ old # <<>>
        BY <1>2, <2>3, <3>2
      <4> QED
        BY <4>1, LastAll
    <3>3. CASE ~ r.pclean /\ ~ r.seen
      <4>1. values = Append(<<>>, r.value)
        BY <1>2, <2>3, <3>3
      <4>2. PICK v : v = r.value
        OBVIOUS
      <4>3. Append(<<>>, v) = <<v>>
        OBVIOUS
      <4> QED
        BY <4>1, <4>2, <4>3, LastOne
    <3> QED
      BY <3>1, <3>2, <3>3
  <2>6. Stored(s, after, values)
    BY <2>1, <2>2, <2>3, <2>4, <2>5 DEF Stored
  <2>7. Noted(s)
    BY <2>1 DEF Noted
  <2> QED
    BY <2>1, <2>6, <2>7
<1> QED
  BY <1>1, <1>2

LEMMA RestOf ==
    ASSUME NEW S, NEW d \in Seq(S), NoDup(d), NEW n \in 0 .. Len(d), NEW t, t = SubSeq(d, n + 1, Len(d))
    PROVE  /\ NoDup(t)
           /\ \A x : x \in Range(t) <=> x \in Range(d) /\ ~ \E i \in 1 .. n : d[i] = x
<1>1. PICK k \in Nat : k = Len(d) /\ DOMAIN d = 1 .. k /\ n \in 0 .. k /\ n \in Nat
  OBVIOUS
<1>2. /\ DOMAIN t = 1 .. (k - n) /\ \A i \in 1 .. (k - n) : t[i] = d[n + i]
  <2>1. \A i \in (n + 1) .. k : d[i] \in S
    BY <1>1
  <2>2. /\ Len(t) = (IF n + 1 <= k THEN k - (n + 1) + 1 ELSE 0) /\ t \in Seq(S)
        /\ \A i \in 1 .. k - (n + 1) + 1 : t[i] = d[(n + 1) + i - 1]
    BY <1>1, <2>1, SubSeqProperties
  <2>3. Len(t) = k - n /\ DOMAIN t = 1 .. Len(t)
    BY <1>1, <2>2
  <2>4. \A i \in 1 .. (k - n) : i \in 1 .. k - (n + 1) + 1 /\ (n + 1) + i - 1 = n + i
    BY <1>1
  <2> QED
    BY <2>2, <2>3, <2>4
<1>3. NoDup(t)
  <2> SUFFICES ASSUME NEW i \in 1 .. (k - n), NEW j \in 1 .. (k - n), t[i] = t[j] PROVE i = j
    BY <1>2 DEF NoDup
  <2>1. n + i \in 1 .. k /\ n + j \in 1 .. k /\ d[n + i] = d[n + j]
    BY <1>1, <1>2
  <2>2. n + i = n + j
    BY <1>1, <2>1 DEF NoDup
  <2> QED
    BY <1>1, <2>2
<1>4. ASSUME NEW x, x \in Range(t) PROVE x \in Range(d) /\ ~ \E i \in 1 .. n : d[i] = x
  <2>1. PICK i \in 1 .. (k - n) : x = d[n + i]
    BY <1>2, <1>4 DEF Range
  <2>2. n + i \in 1 .. k
    BY <1>1
  <2>3. ASSUME NEW j \in 1 .. n, d[j] = x PROVE FALSE
    <3>1. j \in 1 .. k /\ j # n + i
      BY <1>1
    <3> QED
      BY <1>1, <2>1, <2>2, <2>3, <3>1 DEF NoDup
  <2> QED
    BY <1>1, <2>1, <2>2, <2>3 DEF Range
<1>5. ASSUME NEW x, x \in Range(d), ~ \E i \in 1 .. n : d[i] = x PROVE x \in Range(t)
  <2>1. PICK i \in 1 .. k : d[i] = x
    BY <1>1, <1>5 DEF Range
  <2>2. i \notin 1 .. n
    BY <1>5, <2>1
  <2>3. i - n \in 1 .. (k - n) /\ n + (i - n) = i
    BY <1>1, <2>2
  <2>4. t[i - n] = x
    BY <1>2, <2>1, <2>3
  <2> QED
    BY <1>2, <2>3, <2>4 DEF Range
<1> QED
  BY <1>3, <1>4, <1>5

LEMMA WrittenFlags ==
    ASSUME NEW r \in Entity, NEW s, s = AfterInsert(r) \/ s = AfterUpdate(r)
    PROVE  /\ s.status = r.status /\ s.parent = r.parent /\ ~ s.queued
           /\ s = AfterInsert(r) => s.connected
           /\ r.connected => s.connected
  BY DEF AfterInsert, AfterUpdate, Written, Entity

\* What a tick makes of an entity.
LEMMA TickEntities ==
    ASSUME PersistenceInv, NEW n, TickBody(n), NEW x \in Ids
    PROVE  /\ entity[x] \in Entity /\ entity'[x] \in Entity
           /\ entity'[x].status = entity[x].status /\ entity'[x].parent = entity[x].parent
           /\ Alive(x) <=> entity[x].status = "alive"
           /\ Alive(x) /\ x \in Range(m_unstoredEntities) => entity'[x] = AfterInsert(entity[x])
           /\ ~ (Alive(x) /\ x \in Range(m_unstoredEntities)) /\ Ticked(x, n) => entity'[x] = AfterUpdate(entity[x])
           /\ ~ (Alive(x) /\ x \in Range(m_unstoredEntities)) /\ ~ Ticked(x, n) => entity'[x] = entity[x]
           /\ Ticked(x, n) => x \in Range(m_dirtyEntities)
           /\ x \in Range(m_dirtyEntities') <=> x \in Range(m_dirtyEntities) /\ ~ Ticked(x, n)
           /\ NoDup(m_dirtyEntities')
<1>1. StoreTypes /\ NoDup(m_dirtyEntities)
  BY DEF PersistenceInv, FreshInv, QueueInv
<1>2. entity \in [Ids -> Entity] /\ m_dirtyEntities \in Seq(Ids) /\ n \in 0 .. Len(m_dirtyEntities)
  BY <1>1 DEF StoreTypes, TypeOK, TickBody
<1>3. /\ entity' \in [Ids -> Entity]
      /\ entity'[x] = IF Alive(x) /\ x \in Range(m_unstoredEntities) THEN AfterInsert(entity[x])
                      ELSE IF Ticked(x, n) THEN AfterUpdate(entity[x]) ELSE entity[x]
  BY <1>1, TickTypes
<1>4. /\ NoDup(m_dirtyEntities')
      /\ x \in Range(m_dirtyEntities') <=> x \in Range(m_dirtyEntities) /\ ~ Ticked(x, n)
  <2>1. m_dirtyEntities' = SubSeq(m_dirtyEntities, n + 1, Len(m_dirtyEntities))
    BY DEF TickBody
  <2>2. PICK d, t : d \in Seq(Ids) /\ d = m_dirtyEntities /\ t = m_dirtyEntities' /\ t = SubSeq(d, n + 1, Len(d)) /\ n \in 0 .. Len(d) /\ NoDup(d)
    BY <1>1, <1>2, <2>1
  <2>3. NoDup(t) /\ (x \in Range(t) <=> x \in Range(d) /\ ~ \E i \in 1 .. n : d[i] = x)
    BY <2>2, RestOf
  <2> QED
    BY <2>2, <2>3 DEF Ticked
<1>5. Ticked(x, n) => x \in Range(m_dirtyEntities)
  BY <1>2 DEF Ticked, Range
<1>6. Alive(x) <=> entity[x].status = "alive"
  BY DEF Alive, World, Ids
<1>7. entity'[x].status = entity[x].status /\ entity'[x].parent = entity[x].parent
  <2>1. PICK r \in Entity, s \in Entity : r = entity[x] /\ s = entity'[x]
    BY <1>2, <1>3
  <2>2. s = AfterInsert(r) \/ s = AfterUpdate(r) \/ s = r
    BY <1>3, <2>1
  <2> QED
    BY <2>1, <2>2, WrittenFlags
<1> QED
  BY <1>2, <1>3, <1>4, <1>5, <1>6, <1>7

LEMMA TickQueues ==
    ASSUME PersistenceInv, NEW n, TickBody(n), NEW x \in Ids
    PROVE  InQueues(entity', m_unstoredEntities', m_dirtyEntities', x)
<1>1. x \notin Range(m_unstoredEntities')
  BY NoneRange DEF TickBody
<1>2. InQueues(entity, m_unstoredEntities, m_dirtyEntities, x)
  BY DEF PersistenceInv, QueueInv
<1>3. PICK r \in Entity, s \in Entity : r = entity[x] /\ s = entity'[x]
  BY TickEntities
<1>4. /\ s.status = r.status /\ (Alive(x) <=> r.status = "alive")
      /\ Alive(x) /\ x \in Range(m_unstoredEntities) => s = AfterInsert(r)
      /\ ~ (Alive(x) /\ x \in Range(m_unstoredEntities)) /\ Ticked(x, n) => s = AfterUpdate(r)
      /\ ~ (Alive(x) /\ x \in Range(m_unstoredEntities)) /\ ~ Ticked(x, n) => s = r
      /\ Ticked(x, n) => x \in Range(m_dirtyEntities)
      /\ x \in Range(m_dirtyEntities') <=> x \in Range(m_dirtyEntities) /\ ~ Ticked(x, n)
  BY <1>3, TickEntities
<1>5. /\ r.status = "none" => x \notin Range(m_dirtyEntities)
      /\ r.status = "alive" =>
             /\ x \in Range(m_unstoredEntities) <=> ~ r.connected
             /\ x \in Range(m_dirtyEntities) <=> r.connected /\ r.queued
             /\ ~ r.connected => r.queued
  BY <1>2, <1>3 DEF InQueues
<1>6. s = AfterInsert(r) => s.connected /\ ~ s.queued
  BY WrittenFlags
<1>7. s = AfterUpdate(r) /\ r.connected => s.connected /\ ~ s.queued
  BY WrittenFlags
<1>8. s.status = "none" => x \notin Range(m_dirtyEntities')
  BY <1>4, <1>5
<1>9. ASSUME s.status = "alive"
      PROVE  s.connected /\ (x \in Range(m_dirtyEntities') <=> s.queued)
  <2>1. CASE x \in Range(m_unstoredEntities)
    BY <1>4, <1>5, <1>6, <1>9, <2>1
  <2>2. CASE x \notin Range(m_unstoredEntities) /\ Ticked(x, n)
    BY <1>4, <1>5, <1>7, <1>9, <2>2
  <2>3. CASE x \notin Range(m_unstoredEntities) /\ ~ Ticked(x, n)
    BY <1>4, <1>5, <1>9, <2>3
  <2> QED
    BY <2>1, <2>2, <2>3
<1> QED
  BY <1>1, <1>3, <1>8, <1>9 DEF InQueues

LEMMA TickStores ==
    ASSUME PersistenceInv, NEW n, TickBody(n), phase = "running", UNCHANGED tables, restarts = 0, NEW x \in Ids
    PROVE  /\ Stored(entity'[x], FutureDatabase'.rows[x], FutureDatabase'.props[x])
           /\ Noted(entity'[x])
           /\ Dropped(entity'[x], FutureDatabase'.rows[x], FALSE)
<1>1. StoreTypes /\ NoDup(m_unstoredEntities) /\ NoDup(m_dirtyEntities)
  BY DEF PersistenceInv, FreshInv, QueueInv
<1>2. InQueues(entity, m_unstoredEntities, m_dirtyEntities, x)
  BY DEF PersistenceInv, QueueInv
<1>3. PICK r \in Entity, s \in Entity : r = entity[x] /\ s = entity'[x]
  BY TickEntities
<1>4. /\ s.status = r.status /\ s.parent = r.parent /\ (Alive(x) <=> r.status = "alive")
      /\ Alive(x) /\ x \in Range(m_unstoredEntities) => s = AfterInsert(r)
      /\ ~ (Alive(x) /\ x \in Range(m_unstoredEntities)) /\ Ticked(x, n) => s = AfterUpdate(r)
      /\ ~ (Alive(x) /\ x \in Range(m_unstoredEntities)) /\ ~ Ticked(x, n) => s = r
      /\ Ticked(x, n) => x \in Range(m_dirtyEntities)
  BY <1>3, TickEntities
<1>5. /\ r.status = "none" => x \notin Range(m_unstoredEntities) /\ x \notin Range(m_dirtyEntities)
      /\ r.status = "alive" =>
             /\ x \in Range(m_unstoredEntities) <=> ~ r.connected
             /\ x \in Range(m_dirtyEntities) <=> r.connected /\ r.queued
  BY <1>2, <1>3 DEF InQueues
<1>6. PICK row, old, row2, new : /\ row = FutureDatabase.rows[x] /\ old = FutureDatabase.props[x]
                                 /\ row2 = FutureDatabase'.rows[x] /\ new = FutureDatabase'.props[x]
  OBVIOUS
<1>7. Stored(r, row, old) /\ Noted(r) /\ Dropped(r, row, x \in Range(m_destroyedEntities))
  BY <1>3, <1>6 DEF PersistenceInv, StoreInv
<1>8. r.status # "destroyed" => x \notin Range(m_destroyedEntities)
  BY <1>7 DEF Dropped
<1>9. old \in Seq(1 .. MaxValue)
  <2>1. FutureDatabase \in Databases
    BY <1>1, TickFuture
  <2> QED
    BY <1>6, <2>1 DEF Databases
<1>10. CASE r.status = "none"
  <2>1. row2 = row /\ new = old /\ s = r
    BY <1>1, <1>4, <1>5, <1>6, <1>8, <1>10, TickOthers
  <2> QED
    BY <1>3, <1>6, <1>7, <1>10, <2>1 DEF Dropped
<1>11. CASE r.status = "destroyed"
  <2>1. x \in Range(m_destroyedEntities) \/ FutureDatabase.rows[x] = NoRow
    BY <1>6, <1>7, <1>11 DEF Dropped
  <2>2. row2 = NoRow
    BY <1>1, <1>4, <1>6, <1>11, <2>1, TickDrops
  <2> QED
    BY <1>3, <1>4, <1>6, <1>11, <2>2 DEF Stored, Noted, Dropped
<1>12. CASE r.status = "alive" /\ x \in Range(m_unstoredEntities)
  <2>1. row = NoRow /\ old = <<>> /\ ~ r.clean /\ ~ r.seen /\ ~ r.pclean
    BY <1>5, <1>7, <1>12 DEF Stored
  <2>2. ~ Ticked(x, n)
    BY <1>4, <1>5, <1>12
  <2>3. row2 = r.parent /\ new = IF r.value = 0 THEN <<>> ELSE <<r.value>>
    <3>1. /\ FutureDatabase'.rows[x] = entity[x].parent
          /\ FutureDatabase'.props[x] = IF entity[x].value = 0 THEN <<>> ELSE <<entity[x].value>>
      BY <1>1, <1>4, <1>6, <1>8, <1>12, <2>1, <2>2, TickInserts
    <3> QED
      BY <1>3, <1>6, <3>1
  <2>4. Stored(s, row2, new) /\ Noted(s)
    BY <1>4, <1>12, <2>1, <2>3, InsertStores
  <2> QED
    BY <1>3, <1>4, <1>6, <1>12, <2>4 DEF Dropped
<1>13. CASE r.status = "alive" /\ x \notin Range(m_unstoredEntities) /\ Ticked(x, n)
  <2>1. r.connected /\ row # NoRow
    BY <1>5, <1>7, <1>13 DEF Stored
  <2>2. /\ r.clean => row2 = row /\ new = old
        /\ ~ r.clean => row2 = r.parent /\ new = UpdatedValues(x, old)
    BY <1>1, <1>3, <1>4, <1>6, <1>8, <1>13, <2>1, TickUpdates
  <2>3. row2 = IF r.clean THEN row ELSE r.parent
    BY <2>2
  <2>4. new = IF r.clean \/ r.value = 0 \/ r.pclean THEN old
              ELSE IF r.seen THEN [i \in DOMAIN old |-> r.value] ELSE Append(old, r.value)
    BY <1>3, <2>2 DEF UpdatedValues
  <2>5. s = AfterUpdate(r) /\ r.status = "alive" /\ Stored(r, row, old)
    BY <1>4, <1>7, <1>13
  <2>6. Stored(s, row2, new) /\ Noted(s)
    BY <1>9, <2>1, <2>3, <2>4, <2>5, UpdateStores
  <2> QED
    BY <1>3, <1>4, <1>6, <1>13, <2>6 DEF Dropped
<1>14. CASE r.status = "alive" /\ x \notin Range(m_unstoredEntities) /\ ~ Ticked(x, n)
  <2>1. row2 = row /\ new = old /\ s = r
    BY <1>1, <1>4, <1>6, <1>8, <1>14, TickOthers
  <2> QED
    BY <1>3, <1>6, <1>7, <1>14, <2>1 DEF Dropped
<1>15. r.status \in {"none", "alive", "destroyed"}
  BY DEF Entity
<1> QED
  BY <1>10, <1>11, <1>12, <1>13, <1>14, <1>15

LEMMA TickKeeps ==
    ASSUME PersistenceInv, NEW n, TickBody(n), phase = "running", UNCHANGED <<idGenerator, tables, restarts>>
    PROVE  QueueInv' /\ StoreInv'
<1>1. m_unstoredEntities' = <<>> /\ m_destroyedEntities' = <<>> /\ UNCHANGED tables
  BY DEF TickBody
<1>2. NoDup(m_unstoredEntities')
  <2>1. Len(<<>>) = 0
    OBVIOUS
  <2> QED
    BY <1>1, <2>1 DEF NoDup
<1>3. NoDup(m_dirtyEntities')
  <2>1. m_dirtyEntities \in Seq(Ids) /\ NoDup(m_dirtyEntities) /\ n \in 0 .. Len(m_dirtyEntities)
    BY DEF PersistenceInv, FreshInv, StoreTypes, TypeOK, QueueInv, TickBody
  <2>2. m_dirtyEntities' = SubSeq(m_dirtyEntities, n + 1, Len(m_dirtyEntities))
    BY DEF TickBody
  <2> QED
    BY <2>1, <2>2, RestOf
<1>4. Contained(entity')
  <2>1. \A x \in Ids : entity'[x].status = entity[x].status /\ entity'[x].parent = entity[x].parent
    BY TickEntities
  <2>2. \A x \in Ids : entity[x].parent \in Holders
    <3>1. \A x \in Ids : entity[x] \in Entity
      BY TickEntities
    <3> QED
      BY <3>1 DEF Entity, Holders
  <2>3. Contained(entity)
    BY DEF PersistenceInv, QueueInv
  <2> QED
    BY <2>1, <2>2, <2>3, ContainedSame
<1>5. \A x \in Ids : x > idGenerator' => entity'[x].status = "none"
  <2>1. \A x \in Ids : x > idGenerator => entity[x].status = "none"
    BY DEF PersistenceInv, QueueInv
  <2> QED
    BY <2>1, TickEntities
<1>6. QueueInv'
  BY <1>2, <1>3, <1>4, <1>5, TickQueues DEF QueueInv
<1>7. ASSUME restarts' = 0, NEW x \in Ids
      PROVE  /\ Stored(entity'[x], FutureDatabase'.rows[x], FutureDatabase'.props[x])
             /\ Noted(entity'[x])
             /\ Dropped(entity'[x], FutureDatabase'.rows[x], x \in Range(m_destroyedEntities'))
  <2>1. restarts = 0
    BY <1>7
  <2>2. /\ Stored(entity'[x], FutureDatabase'.rows[x], FutureDatabase'.props[x])
        /\ Noted(entity'[x])
        /\ Dropped(entity'[x], FutureDatabase'.rows[x], FALSE)
    BY <1>1, <2>1, TickStores
  <2>3. x \notin Range(m_destroyedEntities')
    BY <1>1, NoneRange
  <2> QED
    BY <2>2, <2>3 DEF Dropped
<1>8. StoreInv'
  BY <1>1, <1>7 DEF StoreInv
<1> QED
  BY <1>6, <1>8

\* A command that the worker has run is no longer to be run.
LEMMA ExecuteKeeps ==
    ASSUME PersistenceInv, ExecuteCommand PROVE QueueInv' /\ StoreInv'
<1>1. StoreTypes
  BY DEF PersistenceInv, FreshInv
<1>2. /\ pendingQueries \in Seq(GoodCommand) /\ pendingQueries # <<>> /\ Database' = Executed(Database, Head(pendingQueries))
      /\ pendingQueries' = Tail(pendingQueries)
  BY <1>1, ExecuteTypes DEF StoreTypes, ExecuteCommand
<1>3. After(Database, pendingQueries) = After(Executed(Database, Head(pendingQueries)), Tail(pendingQueries))
  BY <1>2, AfterTail
<1>4. FutureDatabase' = FutureDatabase
  BY <1>2, <1>3 DEF FutureDatabase
<1>5. UNCHANGED <<entity, idGenerator, m_unstoredEntities, m_dirtyEntities, m_destroyedEntities, phase, restarts>>
  BY DEF ExecuteCommand, managerVars
<1>6. QueueInv'
  BY <1>5 DEF PersistenceInv, QueueInv
<1>7. StoreInv'
  BY <1>4, <1>5 DEF PersistenceInv, StoreInv
<1> QED
  BY <1>6, <1>7

\* What is restored is to be inserted.
LEMMA RestartKeeps ==
    ASSUME PersistenceInv, NEW order \in SetToSeqs(Restorable), Restart(order) PROVE QueueInv' /\ StoreInv'
<1>1. StoreTypes
  BY DEF PersistenceInv, FreshInv
<1>2. StoreTypes' /\ Range(order) = Restorable /\ NoDup(order)
  BY <1>1, RestartTypes
<1>3. m_unstoredEntities' = order /\ m_dirtyEntities' = <<>> /\ idGenerator' = LastStoredId /\ restarts' = restarts + 1
  BY DEF Restart
<1>4. ASSUME NEW x \in Ids
      PROVE  /\ x \in Restorable => /\ entity'[x].status = "alive" /\ entity'[x].parent = entitiesTable[x]
                                    /\ ~ entity'[x].connected /\ entity'[x].queued
             /\ x \notin Restorable => entity'[x].status = "none"
  <2>1. entity'[x] = IF x \in Restorable THEN Restored(x) ELSE None
    BY DEF Restart
  <2>2. CASE x \notin Restorable
    BY <2>1, <2>2 DEF None
  <2>3. CASE x \in Restorable
    BY <2>1, <2>3 DEF Restored, None
  <2> QED
    BY <2>2, <2>3
<1>5. Contained(entity')
  BY <1>1, <1>4, ContainedRestart
<1>6. NoDup(m_unstoredEntities') /\ NoDup(m_dirtyEntities')
  <2>1. Len(<<>>) = 0
    OBVIOUS
  <2> QED
    BY <1>2, <1>3, <2>1 DEF NoDup
<1>7. ASSUME NEW x \in Ids PROVE InQueues(entity', m_unstoredEntities', m_dirtyEntities', x)
  <2>1. x \notin Range(m_dirtyEntities') /\ Range(m_unstoredEntities') = Restorable
    BY <1>2, <1>3, NoneRange
  <2> QED
    BY <1>4, <2>1 DEF InQueues
<1>8. ASSUME NEW x \in Ids, x > idGenerator' PROVE entity'[x].status = "none"
  <2>1. PICK S : S = {e \in Ids : entitiesTable[e] # NoRow}
    OBVIOUS
  <2>2. \A i \in S : i <= idGenerator'
    BY <1>3, <2>1, MaxOfIs DEF LastStoredId
  <2>3. x \notin S
    BY <1>2, <1>8, <2>2 DEF StoreTypes, TypeOK, Ids
  <2>4. x \notin Restorable
    BY <1>1, <2>1, <2>3, RestorableStored
  <2> QED
    BY <1>4, <2>4
<1>9. QueueInv'
  BY <1>5, <1>6, <1>7, <1>8 DEF QueueInv
<1>10. StoreInv'
  BY <1>3 DEF PersistenceInv, StoreInv
<1> QED
  BY <1>9, <1>10

LEMMA PersistenceSteps == PersistenceInv /\ [Next]_vars => PersistenceInv'
<1> SUFFICES ASSUME PersistenceInv, [Next]_vars PROVE QueueInv' /\ StoreInv' /\ restarts' \in Nat
  BY FreshSteps DEF PersistenceInv
<1>1. restarts \in Nat
  BY DEF PersistenceInv
<1>2. CASE \E p \in 0 .. MaxId, v \in {0, 1} : Create(p, v)
  <2>1. PICK p \in Holders, v \in {0, 1} : Create(p, v)
    BY <1>2 DEF Holders
  <2>2. restarts' = restarts
    BY <2>1 DEF Create
  <2> QED
    BY <1>1, <2>1, <2>2, CreateKeeps
<1>3. CASE \E e \in Ids, v \in 1 .. MaxValue : SetProperty(e, v)
  <2>1. PICK e \in Ids, v \in 1 .. MaxValue : SetProperty(e, v)
    BY <1>3
  <2>2. restarts' = restarts
    BY <2>1 DEF SetProperty
  <2> QED
    BY <1>1, <2>1, <2>2, SetKeeps
<1>4. CASE \E e \in Ids : Update(e)
  <2>1. PICK e \in Ids : Update(e)
    BY <1>4
  <2>2. restarts' = restarts
    BY <2>1 DEF Update
  <2> QED
    BY <1>1, <2>1, <2>2, UpdateKeeps
<1>5. CASE \E e \in Ids, to \in 0 .. MaxId : Move(e, to)
  <2>1. PICK e \in Ids, to \in Holders : Move(e, to)
    BY <1>5 DEF Holders
  <2>2. restarts' = restarts
    BY <2>1 DEF Move
  <2> QED
    BY <1>1, <2>1, <2>2, MoveKeeps
<1>6. CASE \E e \in Ids : \E inside \in SetToSeqs(Children(e)) : Delete(e, inside)
  <2>1. PICK e \in Ids : \E inside \in SetToSeqs(Children(e)) : Delete(e, inside)
    BY <1>6
  <2>2. PICK inside \in SetToSeqs(Children(e)) : Delete(e, inside)
    BY <2>1
  <2>3. restarts' = restarts
    BY <2>2 DEF Delete
  <2> QED
    BY <1>1, <2>2, <2>3, DeleteKeeps
<1>7. CASE \E n \in DirtyCounts : Tick(n) \/ Shutdown(n)
  <2>1. PICK n \in DirtyCounts : Tick(n) \/ Shutdown(n)
    BY <1>7
  <2>2. TickBody(n) /\ phase = "running" /\ UNCHANGED <<idGenerator, tables, restarts>>
    BY <2>1 DEF Tick, Shutdown
  <2> QED
    BY <1>1, <2>2, TickKeeps
<1>8. CASE ExecuteCommand
  <2>1. restarts' = restarts
    BY <1>8 DEF ExecuteCommand
  <2> QED
    BY <1>1, <1>8, <2>1, ExecuteKeeps
<1>9. CASE ShutdownComplete
  <2>1. /\ UNCHANGED <<entity, idGenerator, m_unstoredEntities, m_dirtyEntities, m_destroyedEntities, restarts>>
        /\ UNCHANGED <<tables, pendingQueries>> /\ phase = "stopping"
    BY <1>9 DEF ShutdownComplete, managerVars
  <2>2. FutureDatabase' = FutureDatabase
    BY <2>1, FutureSame
  <2>3. QueueInv'
    BY <2>1 DEF PersistenceInv, QueueInv
  <2>4. StoreInv'
    BY <2>1, <2>2 DEF PersistenceInv, StoreInv
  <2> QED
    BY <1>1, <2>1, <2>3, <2>4
<1>10. CASE Crash
  <2>1. /\ UNCHANGED <<entity, idGenerator, m_unstoredEntities, m_dirtyEntities, m_destroyedEntities, restarts>>
        /\ phase' = "crashed"
    BY <1>10 DEF Crash, managerVars
  <2>2. QueueInv'
    BY <2>1 DEF PersistenceInv, QueueInv
  <2>3. StoreInv'
    BY <2>1 DEF StoreInv
  <2> QED
    BY <1>1, <2>1, <2>2, <2>3
<1>11. CASE \E order \in SetToSeqs(Restorable) : Restart(order)
  <2>1. PICK order \in SetToSeqs(Restorable) : Restart(order)
    BY <1>11
  <2>2. restarts' = restarts + 1
    BY <2>1 DEF Restart
  <2> QED
    BY <1>1, <2>1, <2>2, RestartKeeps
<1>12. CASE Ended \/ UNCHANGED vars
  <2>1. UNCHANGED vars
    BY <1>12 DEF Ended
  <2>2. /\ UNCHANGED <<entity, idGenerator, m_unstoredEntities, m_dirtyEntities, m_destroyedEntities, phase, restarts>>
        /\ UNCHANGED <<tables, pendingQueries>>
    BY <2>1 DEF vars, managerVars
  <2>3. FutureDatabase' = FutureDatabase
    BY <2>2, FutureSame
  <2>4. QueueInv'
    BY <2>2 DEF PersistenceInv, QueueInv
  <2>5. StoreInv'
    BY <2>2, <2>3 DEF PersistenceInv, StoreInv
  <2> QED
    BY <1>1, <2>2, <2>4, <2>5
<1> QED
  BY <1>2, <1>3, <1>4, <1>5, <1>6, <1>7, <1>8, <1>9, <1>10, <1>11, <1>12 DEF Next

LEMMA PersistenceStarts == Init => PersistenceInv
<1> SUFFICES ASSUME Init PROVE PersistenceInv
  OBVIOUS
<1>1. FreshInv
  BY FreshStarts
<1>2. \A e \in Ids : entity[e].status = "none"
  BY DEF Init, None
<1>3. Range(<<>>) = {} /\ Len(<<>>) = 0
  <2>1. Len(<<>>) = 0 /\ DOMAIN <<>> = {}
    OBVIOUS
  <2> QED
    BY <2>1 DEF Range
<1>4. \A e \in Ids : InQueues(entity, m_unstoredEntities, m_dirtyEntities, e)
  BY <1>2, <1>3 DEF InQueues, Init
<1>5. Contained(entity)
  BY <1>2 DEF Contained
<1>6. NoDup(m_unstoredEntities) /\ NoDup(m_dirtyEntities)
  BY <1>3 DEF NoDup, Init
<1>7. QueueInv
  BY <1>2, <1>4, <1>5, <1>6 DEF QueueInv
<1>8. FutureDatabase = Database
  BY AfterNone DEF FutureDatabase, Init
<1>9. ASSUME NEW e \in Ids
      PROVE  /\ Stored(entity[e], FutureDatabase.rows[e], FutureDatabase.props[e])
             /\ Noted(entity[e])
             /\ Dropped(entity[e], FutureDatabase.rows[e], e \in Range(m_destroyedEntities))
  <2>1. FutureDatabase.rows[e] = NoRow /\ FutureDatabase.props[e] = <<>>
    BY <1>8 DEF Database, Init
  <2>2. e \notin Range(m_destroyedEntities)
    BY <1>3 DEF Init
  <2> QED
    BY <1>2, <2>1, <2>2 DEF Stored, Noted, Dropped
<1>10. StoreInv
  BY <1>9 DEF StoreInv, Init
<1> QED
  BY <1>1, <1>7, <1>10 DEF PersistenceInv, Init

-----------------------------------------------------------------------------
(* What the invariants say *)

\* In a sequence without repetitions a member has one place.
LEMMA OnePlace ==
    ASSUME NEW S, NEW s \in Seq(S), NoDup(s), NEW x
    PROVE  Cardinality({i \in DOMAIN s : s[i] = x}) = IF x \in Range(s) THEN 1 ELSE 0
<1>1. DOMAIN s = 1 .. Len(s)
  OBVIOUS
<1>2. CASE x \in Range(s)
  <2>1. PICK k \in DOMAIN s : s[k] = x
    BY <1>2 DEF Range
  <2>2. {i \in DOMAIN s : s[i] = x} = {k}
    BY <1>1, <2>1 DEF NoDup
  <2> QED
    BY <1>2, <2>2, FS_Singleton
<1>3. CASE x \notin Range(s)
  <2>1. {i \in DOMAIN s : s[i] = x} = {}
    BY <1>3 DEF Range
  <2> QED
    BY <1>3, <2>1, FS_EmptySet
<1> QED
  BY <1>2, <1>3

LEMMA QueuedOnceHolds == PersistenceInv => QueuedOnce
<1> SUFFICES ASSUME PersistenceInv, NEW e \in Ids, Alive(e) PROVE Waiting(e) = (IF entity[e].queued THEN 1 ELSE 0)
  BY DEF QueuedOnce
<1>1. /\ m_unstoredEntities \in Seq(Ids) /\ m_dirtyEntities \in Seq(Ids)
      /\ NoDup(m_unstoredEntities) /\ NoDup(m_dirtyEntities)
      /\ InQueues(entity, m_unstoredEntities, m_dirtyEntities, e) /\ entity[e].status = "alive"
  BY DEF PersistenceInv, FreshInv, StoreTypes, TypeOK, QueueInv, Alive
<1>2. PICK a, b : /\ a = Cardinality({i \in DOMAIN m_unstoredEntities : m_unstoredEntities[i] = e})
                  /\ b = Cardinality({i \in DOMAIN m_dirtyEntities : m_dirtyEntities[i] = e})
  OBVIOUS
<1>3. a = IF e \in Range(m_unstoredEntities) THEN 1 ELSE 0
  BY <1>1, <1>2, OnePlace
<1>4. b = IF e \in Range(m_dirtyEntities) THEN 1 ELSE 0
  BY <1>1, <1>2, OnePlace
<1>5. Waiting(e) = a + b
  BY <1>2 DEF Waiting
<1>6. /\ e \in Range(m_unstoredEntities) <=> ~ entity[e].connected
      /\ e \in Range(m_dirtyEntities) <=> entity[e].connected /\ entity[e].queued
      /\ ~ entity[e].connected => entity[e].queued
  BY <1>1 DEF InQueues
<1> QED
  BY <1>3, <1>4, <1>5, <1>6

\* An entity without pending changes is what its rows say.
LEMMA StoredHolds ==
    ASSUME NEW db, NEW e, Stored(entity[e], db.rows[e], db.props[e]), entity[e].status = "alive", entity[e].connected,
           entity[e].clean
    PROVE  Holds(db, e)
  BY DEF Stored, Holds

\* StorageManager's queues: after any number of crashes and restarts entity_queued says
\* of every living entity whether it waits, and it waits in one queue and once; and
\* until the first restart no row of a destroyed entity is forgotten.
THEOREM QueuesAlwaysSound == Spec => [](TypeOK /\ QueuedOnce /\ (restarts = 0 => QueuesInv))
<1>1. PersistenceInv => TypeOK /\ QueuedOnce /\ (restarts = 0 => QueuesInv)
  <2> SUFFICES ASSUME PersistenceInv PROVE TypeOK /\ QueuedOnce /\ (restarts = 0 => QueuesInv)
    OBVIOUS
  <2>1. TypeOK
    BY DEF PersistenceInv, FreshInv, StoreTypes
  <2>2. QueuedOnce
    BY QueuedOnceHolds
  <2>3. restarts = 0 => DestroyedDropped
    BY DEF PersistenceInv, StoreInv, DestroyedDropped, Dropped
  <2> QED
    BY <2>1, <2>2, <2>3 DEF QueuesInv
<1> QED
  BY <1>1, PersistenceStarts, PersistenceSteps, PTL DEF Spec

\* In the server's first run no change of an entity is forgotten: the commands that are
\* pending will store it, or it waits in a queue, or an Update operation is on its way.
THEOREM NothingEverForgotten == Spec => [](restarts = 0 => NothingForgotten)
<1>1. PersistenceInv => (restarts = 0 => NothingForgotten)
  <2> SUFFICES ASSUME PersistenceInv, restarts = 0, phase = "running",
                      NEW e \in Ids, Alive(e), ~ entity[e].queued, ~ entity[e].updating
               PROVE  Holds(FutureDatabase, e)
    BY DEF NothingForgotten
  <2>1. entity[e].status = "alive"
    BY DEF Alive
  <2>2. Stored(entity[e], FutureDatabase.rows[e], FutureDatabase.props[e]) /\ Noted(entity[e])
    BY DEF PersistenceInv, StoreInv
  <2>3. entity[e].clean
    BY <2>1, <2>2 DEF Noted
  <2>4. entity[e].connected
    BY <2>1 DEF PersistenceInv, QueueInv, InQueues
  <2> QED
    BY <2>1, <2>2, <2>3, <2>4, StoredHolds
<1> QED
  BY <1>1, PersistenceStarts, PersistenceSteps, PTL DEF Spec

\* However many entities the last tick of a shutdown leaves to the limit, all others are
\* in the tables as they are, and nothing that was destroyed is.
THEOREM ShutdownAlwaysStores == Spec => [](restarts = 0 => ShutdownStoresWorld)
<1>1. PersistenceInv => (restarts = 0 => ShutdownStoresWorld)
  <2> SUFFICES ASSUME PersistenceInv, restarts = 0, phase = "stopped", NEW e \in Ids
               PROVE  /\ (Alive(e) /\ ~ entity[e].updating /\ e \notin Range(m_dirtyEntities)) => Holds(Database, e)
                      /\ Alive(e) => entitiesTable[e] # NoRow
                      /\ ~ Alive(e) => entitiesTable[e] = NoRow
    BY DEF ShutdownStoresWorld
  <2>1. pendingQueries = <<>>
    BY DEF PersistenceInv, FreshInv
  <2>2. FutureDatabase = Database
    BY <2>1, AfterNone DEF FutureDatabase
  <2>3. /\ Stored(entity[e], Database.rows[e], Database.props[e]) /\ Noted(entity[e])
        /\ Dropped(entity[e], Database.rows[e], e \in Range(m_destroyedEntities))
        /\ m_unstoredEntities = <<>> /\ m_destroyedEntities = <<>>
    BY <2>2 DEF PersistenceInv, StoreInv
  <2>4. e \notin Range(m_unstoredEntities) /\ e \notin Range(m_destroyedEntities)
    BY <2>3, NoneRange
  <2>5. Alive(e) <=> entity[e].status = "alive"
    BY DEF Alive, World, Ids
  <2>6. ASSUME Alive(e), ~ entity[e].updating, e \notin Range(m_dirtyEntities) PROVE Holds(Database, e)
    <3>1. entity[e].connected /\ ~ entity[e].queued
      BY <2>4, <2>5, <2>6 DEF PersistenceInv, QueueInv, InQueues
    <3>2. entity[e].clean
      BY <2>3, <2>5, <2>6, <3>1 DEF Noted
    <3> QED
      BY <2>3, <2>5, <2>6, <3>1, <3>2, StoredHolds
  <2>7. ASSUME ~ Alive(e) PROVE entitiesTable[e] = NoRow
    <3>1. entity[e].status \in {"none", "destroyed"}
      <4>1. entity[e] \in Entity
        BY DEF PersistenceInv, FreshInv, StoreTypes, TypeOK
      <4> QED
        BY <2>5, <2>7, <4>1 DEF Entity
    <3>2. Database.rows[e] = NoRow
      BY <2>3, <2>4, <3>1 DEF Stored, Dropped
    <3> QED
      BY <3>2 DEF Database
  <2>8. ASSUME Alive(e) PROVE entitiesTable[e] # NoRow
    <3>1. entity[e].connected
      BY <2>4, <2>5, <2>8 DEF PersistenceInv, QueueInv, InQueues
    <3>2. Database.rows[e] # NoRow
      BY <2>3, <2>5, <2>8, <3>1 DEF Stored
    <3> QED
      BY <3>2 DEF Database
  <2> QED
    BY <2>6, <2>7, <2>8
<1> QED
  BY <1>1, PersistenceStarts, PersistenceSteps, PTL DEF Spec

=============================================================================
