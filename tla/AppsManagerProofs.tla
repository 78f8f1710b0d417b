---------------------------- MODULE AppsManagerProofs ----------------------------
(***************************************************************************)
(* Proofs about AppsManager, for any catalog, dependencies of one level,   *)
(* initial order and number of actions. The recursive definitions of the   *)
(* reducer (Among, the folds) are first put step by step, so that what     *)
(* holds of their values is proved by induction on the steps.              *)
(***************************************************************************)
EXTENDS AppsManager, FiniteSetTheorems, TLAPS

LEMMA NatSetInduction ==
    ASSUME NEW S, 0 \in S, \A n \in Nat : n \in S => n + 1 \in S
    PROVE  Nat \subseteq S
<1> DEFINE T == Nat \ S
<1> SUFFICES ASSUME T # {} PROVE FALSE
  OBVIOUS
<1>1. PICK m \in T : \A n \in T : ~(<<n, m>> \in OpToRel(<, Nat))
  <2> HIDE DEF T
  <2> QED
    BY NatLessThanWellFounded, WFMin DEF T
<1>2. m \in Nat \ {0} /\ m - 1 \in Nat
  OBVIOUS
<1>3. <<m - 1, m>> \in OpToRel(<, Nat)
  BY <1>2 DEF OpToRel
<1>4. m - 1 \in S
  BY <1>1, <1>2, <1>3
<1> QED
  BY <1>2, <1>4

(* Induction up to n. *)
LEMMA UpToInduction ==
    ASSUME NEW n \in Nat, NEW S, 0 \in S, \A i \in 1..n : i - 1 \in S => i \in S
    PROVE  0..n \subseteq S
<1> DEFINE T == {m \in Nat : m <= n => m \in S}
<1>1. ASSUME NEW m \in Nat, m \in T PROVE m + 1 \in T
  <2> SUFFICES ASSUME m + 1 <= n PROVE m + 1 \in S
    OBVIOUS
  <2>1. m \in S /\ m + 1 \in 1..n /\ (m + 1) - 1 = m
    BY <1>1
  <2> QED
    BY <2>1
<1>2. 0 \in T
  OBVIOUS
<1>3. Nat \subseteq T
  <2> HIDE DEF T
  <2> QED
    BY <1>1, <1>2, NatSetInduction
<1> QED
  BY <1>3

LEMMA RecursionExists ==
    ASSUME NEW V, NEW b \in V, NEW n \in Nat, NEW F \in [1..n -> [V -> V]]
    PROVE  \E g \in [0..n -> V] : g[0] = b /\ \A i \in 1..n : g[i] = F[i][g[i-1]]
<1> DEFINE P(m) == \E g \in [0..m -> V] : g[0] = b /\ \A i \in 1..m : g[i] = F[i][g[i-1]]
           S == {m \in Nat : m <= n => P(m)}
<1>1. P(0)
  <2> DEFINE g == [i \in 0..0 |-> b]
  <2>1. g \in [0..0 -> V] /\ g[0] = b /\ \A i \in 1..0 : g[i] = F[i][g[i-1]]
    OBVIOUS
  <2> QED
    BY <2>1
<1>2. ASSUME NEW m \in Nat, m + 1 <= n, P(m) PROVE P(m + 1)
  <2>1. PICK h \in [0..m -> V] : h[0] = b /\ \A i \in 1..m : h[i] = F[i][h[i-1]]
    BY <1>2
  <2> DEFINE g == [i \in 0..(m + 1) |-> IF i = m + 1 THEN F[m + 1][h[m]] ELSE h[i]]
  <2>2. F[m + 1] \in [V -> V] /\ h[m] \in V
    BY <1>2
  <2>3. g \in [0..(m + 1) -> V]
    BY <2>2
  <2>4. \A i \in 0..m : g[i] = h[i]
    OBVIOUS
  <2>5. g[0] = b
    BY <2>1, <2>4
  <2>6. \A i \in 1..(m + 1) : g[i] = F[i][g[i-1]]
    <3> TAKE i \in 1..(m + 1)
    <3>1. CASE i = m + 1
      BY <3>1, <2>4
    <3>2. CASE i \in 1..m
      BY <3>2, <2>1, <2>4
    <3> QED
      BY <3>1, <3>2
  <2> HIDE DEF g
  <2> QED
    BY <2>3, <2>5, <2>6
<1>3. 0 \in S /\ \A m \in Nat : m \in S => m + 1 \in S
  <2> HIDE DEF P
  <2> QED
    BY <1>1, <1>2
<1>4. n \in S
  <2> HIDE DEF S
  <2> QED
    BY <1>3, NatSetInduction
<1> QED
  BY <1>4

LEMMA MaxIs ==
    ASSUME NEW n \in Nat, NEW s \in SUBSET (1..n), n \in s
    PROVE  Max(s) = n
<1>1. s \subseteq Nat /\ \A y \in s : n >= y
  OBVIOUS
<1>2. \E x \in s : \A y \in s : x >= y
  BY <1>1
<1>3. Max(s) \in s /\ Max(s) >= n
  BY <1>2, <1>1 DEF Max
<1>4. n >= Max(s) /\ Max(s) \in Nat
  BY <1>1, <1>3
<1> DEFINE m == Max(s)
<1>5. m \in Nat /\ m >= n /\ n >= m
  BY <1>3, <1>4
<1> HIDE DEF m
<1>6. m = n
  BY <1>5
<1> QED
  BY <1>6 DEF m

(* The functions that fold the steps F from b, the greatest index last.       *)
Foldings(V, b, n, F) ==
    {it \in [SUBSET (1..n) -> V] :
       /\ it[{}] = b
       /\ \A s \in SUBSET (1..n) : s # {} => it[s] = F[Max(s)][it[s \ {Max(s)}]]}

LEMMA FoldExists ==
    ASSUME NEW V, NEW b \in V, NEW n \in Nat, NEW F \in [1..n -> [V -> V]]
    PROVE  Foldings(V, b, n, F) # {}
<1> DEFINE Sol(it, m) ==
             /\ it[{}] = b
             /\ \A s \in SUBSET (1..m) : s # {} => it[s] = F[Max(s)][it[s \ {Max(s)}]]
           T == {m \in 0..n : \E it \in [SUBSET (1..m) -> V] : Sol(it, m)}
<1>1. 0 \in T
  <2> DEFINE it == [s \in SUBSET (1..0) |-> b]
  <2>1. 1..0 = {}
    OBVIOUS
  <2>2. it \in [SUBSET (1..0) -> V]
    OBVIOUS
  <2>3. it[{}] = b
    OBVIOUS
  <2>4. \A s \in SUBSET (1..0) : s = {}
    BY <2>1
  <2>5. Sol(it, 0)
    BY <2>3, <2>4
  <2>6. 0 \in 0..n
    OBVIOUS
  <2> HIDE DEF it, Sol
  <2> QED
    BY <2>2, <2>5, <2>6
<1>2. ASSUME NEW m \in 1..n, m - 1 \in T PROVE m \in T
  <2>1. PICK h \in [SUBSET (1..(m - 1)) -> V] : Sol(h, m - 1)
    BY <1>2
  <2>2. m \in Nat /\ m - 1 \in Nat /\ 1..(m - 1) = (1..m) \ {m}
    OBVIOUS
  <2> DEFINE it == [s \in SUBSET (1..m) |-> IF m \in s THEN F[m][h[s \ {m}]] ELSE h[s]]
  <2>3. \A s \in SUBSET (1..m) : s \ {m} \in SUBSET (1..(m - 1))
    BY <2>2
  <2>4. F[m] \in [V -> V]
    OBVIOUS
  <2>5. it \in [SUBSET (1..m) -> V]
    <3>1. ASSUME NEW s \in SUBSET (1..m) PROVE it[s] \in V
      <4>1. CASE m \in s
        BY <2>3, <2>4, <4>1
      <4>2. CASE m \notin s
        BY <2>2, <4>2
      <4> QED
        BY <4>1, <4>2
    <3> QED
      BY <3>1
  <2>6. \A s \in SUBSET (1..(m - 1)) : m \notin s /\ s \in SUBSET (1..m) /\ it[s] = h[s]
    BY <2>2
  <2>7. it[{}] = b
    BY <2>1, <2>6
  <2>8. ASSUME NEW s \in SUBSET (1..m), s # {}
        PROVE  it[s] = F[Max(s)][it[s \ {Max(s)}]]
    <3>1. CASE m \in s
      <4>1. Max(s) = m
        BY <3>1, <2>2, MaxIs
      <4>2. it[s \ {m}] = h[s \ {m}]
        BY <2>3, <2>6
      <4>3. it[s] = F[m][h[s \ {m}]]
        BY <3>1
      <4> QED
        BY <4>1, <4>2, <4>3
    <3>2. CASE m \notin s
      <4>1. s \in SUBSET (1..(m - 1)) /\ s \ {Max(s)} \in SUBSET (1..(m - 1))
        BY <2>2, <3>2
      <4>2. it[s] = h[s] /\ it[s \ {Max(s)}] = h[s \ {Max(s)}]
        BY <2>6, <4>1
      <4> QED
        BY <2>1, <2>8, <4>1, <4>2
    <3> QED
      BY <3>1, <3>2
  <2>9. Sol(it, m)
    BY <2>7, <2>8
  <2>10. m \in 0..n
    OBVIOUS
  <2> HIDE DEF it, Sol
  <2> QED
    BY <2>5, <2>9, <2>10
<1>3. 0..n \subseteq T
  <2> HIDE DEF T
  <2> QED
    BY <1>1, <1>2, UpToInduction
<1>4. n \in T
  <2> HIDE DEF T
  <2> QED
    BY <1>3
<1> QED
  BY <1>4 DEF Foldings

LEMMA MaxIn ==
    ASSUME NEW n \in Nat, NEW s \in SUBSET (1..n), s # {}
    PROVE  Max(s) \in s
<1> DEFINE T == {m \in 0..n : \A u \in SUBSET (1..m) : u # {} => Max(u) \in u}
<1>1. 0 \in T
  <2>1. 1..0 = {} /\ 0 \in 0..n
    OBVIOUS
  <2>2. \A u \in SUBSET (1..0) : u = {}
    BY <2>1
  <2> QED
    BY <2>1, <2>2
<1>2. ASSUME NEW m \in 1..n, m - 1 \in T PROVE m \in T
  <2>1. m \in 0..n /\ m \in Nat /\ 1..(m - 1) = (1..m) \ {m}
    OBVIOUS
  <2>2. ASSUME NEW u \in SUBSET (1..m), u # {} PROVE Max(u) \in u
    <3>1. CASE m \in u
      BY <2>1, <3>1, MaxIs
    <3>2. CASE m \notin u
      BY <1>2, <2>1, <2>2, <3>2
    <3> QED
      BY <3>1, <3>2
  <2> QED
    BY <2>1, <2>2
<1>3. n \in T
  <2> HIDE DEF T
  <2> QED
    BY <1>1, <1>2, UpToInduction
<1> QED
  BY <1>3

(* One step of Among. *)
Kept(q, x, S) == IF x \in S THEN Append(q, x) ELSE q

(* Among, step by step.                                                       *)
LEMMA AmongSteps ==
    ASSUME NEW V, NEW seq \in Seq(V), NEW S
    PROVE  \E k \in [0..Len(seq) -> Seq(V)] :
             /\ k[0] = <<>>
             /\ \A i \in 1..Len(seq) : k[i] = Kept(k[i-1], seq[i], S)
             /\ Among(seq, S) = k[Len(seq)]
<1> DEFINE n == Len(seq)
           W == Seq(V)
           empty == <<>>
           next(q, i) == Kept(q, seq[i], S)
           F == [i \in 1..n |-> [q \in W |-> next(q, i)]]
           Eq(k) == k = [i \in 0..n |-> IF i = 0 THEN empty ELSE next(k[i-1], i)]
<1>1. n \in Nat /\ empty \in W
  OBVIOUS
<1>2. F \in [1..n -> [W -> W]]
  BY DEF Kept
<1>3. PICK g \in [0..n -> W] : g[0] = empty /\ \A i \in 1..n : g[i] = F[i][g[i-1]]
  <2> HIDE DEF n, W, empty, F
  <2>1. n \in Nat /\ empty \in W /\ F \in [1..n -> [W -> W]]
    BY <1>1, <1>2
  <2> QED
    BY <2>1, RecursionExists, SMTT(20)
<1> HIDE DEF n, W, empty
<1>4. ASSUME NEW i \in 1..n PROVE g[i] = next(g[i-1], i)
  <2>1. g[i-1] \in W
    BY <1>1, <1>3
  <2>2. F[i] = [q \in W |-> next(q, i)]
    OBVIOUS
  <2>3. g[i] = F[i][g[i-1]]
    BY <1>3
  <2> HIDE DEF F, next
  <2> QED
    BY <2>1, <2>2, <2>3
<1> HIDE DEF next
<1>5. Eq(g)
  BY <1>1, <1>3, <1>4
<1>6. PICK k : Eq(k) /\ Among(seq, S) = k[n]
  BY <1>5 DEF Among, Kept, n, empty, next
<1>7. k[0] = empty /\ \A i \in 1..n : k[i] = next(k[i-1], i)
  BY <1>1, <1>6
<1>8. 0..n \subseteq {i \in 0..n : g[i] = k[i]}
  <2> DEFINE T == {i \in 0..n : g[i] = k[i]}
  <2>1. 0 \in T
    BY <1>1, <1>3, <1>7
  <2>2. ASSUME NEW i \in 1..n, i - 1 \in T PROVE i \in T
    <3>1. g[i-1] = k[i-1] /\ i \in 0..n
      BY <1>1, <2>2
    <3> QED
      BY <1>4, <1>7, <3>1
  <2> HIDE DEF T
  <2>3. 0..n \subseteq T
    BY <1>1, <2>1, <2>2, UpToInduction
  <2> QED
    BY <2>3 DEF T
<1>9. g[n] = k[n]
  BY <1>1, <1>8
<1> QED
  BY <1>3, <1>4, <1>6, <1>9 DEF n, W, empty, next

LEMMA AmongFacts ==
    ASSUME NEW V, NEW seq \in Seq(V), NEW S
    PROVE  /\ Among(seq, S) \in Seq(V)
           /\ ToSet(Among(seq, S)) = ToSet(seq) \cap S
           /\ \A a, b \in 1..Len(Among(seq, S)) : a < b =>
                \E i, j \in 1..Len(seq) :
                  i < j /\ seq[i] = Among(seq, S)[a] /\ seq[j] = Among(seq, S)[b]
<1> DEFINE n == Len(seq)
<1>1. n \in Nat /\ seq \in [1..n -> V]
  OBVIOUS
<1>2. PICK k \in [0..n -> Seq(V)] :
         /\ k[0] = <<>>
         /\ \A i \in 1..n : k[i] = Kept(k[i-1], seq[i], S)
         /\ Among(seq, S) = k[n]
  BY AmongSteps, ZenonT(60)
<1> HIDE DEF n
<1> DEFINE Ordered(m) ==
             \A a, b \in 1..Len(k[m]) : a < b =>
               \E i, j \in 1..m : i < j /\ seq[i] = k[m][a] /\ seq[j] = k[m][b]
           P(m) ==
             /\ \A a \in 1..Len(k[m]) : \E i \in 1..m : k[m][a] = seq[i] /\ seq[i] \in S
             /\ \A i \in 1..m : seq[i] \in S => \E a \in 1..Len(k[m]) : k[m][a] = seq[i]
             /\ Ordered(m)
           T == {m \in 0..n : P(m)}
<1>3. P(0)
  BY <1>2
<1>4. ASSUME NEW m \in 1..n, P(m - 1) PROVE P(m)
  <2>1. m - 1 \in Nat /\ m \in Nat /\ k[m-1] \in Seq(V) /\ seq[m] \in V
    BY <1>1
  <2>2. CASE seq[m] \notin S
    <3>1. k[m] = k[m-1]
      BY <1>2, <2>2 DEF Kept
    <3>2. \A i \in 1..m : i \in 1..(m - 1) \/ i = m
      BY <2>1
    <3>3. 1..(m-1) \subseteq 1..m
      BY <2>1
    <3> QED
      BY <1>4, <2>2, <3>1, <3>2, <3>3, SMTT(30)
  <2>3. CASE seq[m] \in S
    <3> DEFINE q == k[m-1]
               l == Len(q)
    <3>1. k[m] = Append(q, seq[m]) /\ q \in Seq(V) /\ l \in Nat
      <4>1. k[m] = Kept(q, seq[m], S)
        BY <1>2
      <4> QED
        BY <2>1, <2>3, <4>1 DEF Kept
    <3>2. Len(k[m]) = l + 1 /\ k[m][l + 1] = seq[m] /\ \A a \in 1..l : k[m][a] = q[a]
      BY <2>1, <3>1
    <3>3. \A i \in 1..m : i \in 1..(m - 1) \/ i = m
      BY <2>1
    <3>4. 1..(m-1) \subseteq 1..m /\ m \in 1..m
      BY <2>1
    <3>5. \A a \in 1..Len(k[m]) : a \in 1..l \/ a = l + 1
      BY <3>1, <3>2
    <3>6. 1..l \subseteq 1..Len(k[m]) /\ l + 1 \in 1..Len(k[m])
      BY <3>1, <3>2
    <3> HIDE DEF q, l
    <3>7. \A a \in 1..Len(k[m]) : \E i \in 1..m : k[m][a] = seq[i] /\ seq[i] \in S
      <4> TAKE a \in 1..Len(k[m])
      <4>1. CASE a \in 1..l
        <5>1. PICK i \in 1..(m-1) : q[a] = seq[i] /\ seq[i] \in S
          BY <1>4, <4>1 DEF q, l
        <5> QED
          BY <3>2, <3>4, <4>1, <5>1
      <4>2. CASE a = l + 1
        BY <2>3, <3>2, <3>4, <4>2
      <4> QED
        BY <3>5, <4>1, <4>2
    <3>8. \A i \in 1..m : seq[i] \in S => \E a \in 1..Len(k[m]) : k[m][a] = seq[i]
      <4> TAKE i \in 1..m
      <4> HAVE seq[i] \in S
      <4>1. CASE i \in 1..(m-1)
        <5>1. PICK a \in 1..l : q[a] = seq[i]
          BY <1>4, <4>1 DEF q, l
        <5> QED
          BY <3>2, <3>6, <5>1
      <4>2. CASE i = m
        BY <3>2, <3>6, <4>2
      <4> QED
        BY <3>3, <4>1, <4>2
    <3>9. ASSUME NEW a \in 1..Len(k[m]), NEW b \in 1..Len(k[m]), a < b
          PROVE  \E i, j \in 1..m : i < j /\ seq[i] = k[m][a] /\ seq[j] = k[m][b]
      <4>1. a \in 1..l /\ k[m][a] = q[a]
        BY <3>1, <3>2, <3>5, <3>9
      <4>2. CASE b \in 1..l
        <5>1. PICK i \in 1..(m-1), j \in 1..(m-1) : i < j /\ seq[i] = q[a] /\ seq[j] = q[b]
          BY <1>4, <3>9, <4>1, <4>2 DEF q, l
        <5> QED
          BY <3>2, <3>4, <4>1, <4>2, <5>1
      <4>3. CASE b = l + 1
        <5>1. PICK i \in 1..(m-1) : q[a] = seq[i]
          BY <1>4, <4>1 DEF q, l
        <5>2. i \in 1..m /\ m \in 1..m /\ i < m
          BY <2>1
        <5> QED
          BY <3>2, <4>1, <4>3, <5>1, <5>2
      <4> QED
        BY <3>5, <4>2, <4>3
    <3> QED
      BY <3>7, <3>8, <3>9
  <2> QED
    BY <2>2, <2>3
<1>5. P(n)
  <2>1. 0 \in T
    BY <1>1, <1>3
  <2>2. ASSUME NEW i \in 1..n, i - 1 \in T PROVE i \in T
    <3>1. i \in 0..n /\ P(i - 1)
      BY <1>1, <2>2
    <3> HIDE DEF P
    <3> QED
      BY <1>4, <3>1
  <2>3. 0..n \subseteq T
    <3> HIDE DEF T
    <3> QED
      BY <1>1, <2>1, <2>2, UpToInduction
  <2> HIDE DEF P
  <2> QED
    BY <1>1, <2>3
<1>6. Among(seq, S) = k[n] /\ k[n] \in Seq(V)
  BY <1>1, <1>2
<1>7. DOMAIN seq = 1..n /\ DOMAIN k[n] = 1..Len(k[n])
  BY <1>1, <1>6
<1>8. ToSet(k[n]) = ToSet(seq) \cap S
  <2>1. ASSUME NEW x \in ToSet(k[n]) PROVE x \in ToSet(seq) \cap S
    <3>1. PICK a \in 1..Len(k[n]) : x = k[n][a]
      BY <1>7 DEF ToSet
    <3>2. PICK i \in 1..n : k[n][a] = seq[i] /\ seq[i] \in S
      BY <1>5
    <3> QED
      BY <1>7, <3>1, <3>2 DEF ToSet
  <2>2. ASSUME NEW x \in ToSet(seq) \cap S PROVE x \in ToSet(k[n])
    <3>1. PICK i \in 1..n : x = seq[i]
      BY <1>7 DEF ToSet
    <3>2. PICK a \in 1..Len(k[n]) : k[n][a] = seq[i]
      BY <1>5, <3>1
    <3> QED
      BY <1>7, <3>1, <3>2 DEF ToSet
  <2> QED
    BY <2>1, <2>2
<1> QED
  BY <1>5, <1>6, <1>8 DEF n

LEMMA FlattenSteps ==
    ASSUME NEW V, NEW seqs \in Seq(Seq(V))
    PROVE  \E g \in [0..Len(seqs) -> Seq(V)] :
             /\ g[0] = <<>>
             /\ \A i \in 1..Len(seqs) : g[i] = g[i-1] \o seqs[i]
             /\ FlattenSeq(seqs) = g[Len(seqs)]
<1> DEFINE n == Len(seqs)
           F == [i \in 1..n |-> [s \in Seq(V) |-> s \o seqs[i]]]
<1>1. n \in Nat /\ (\A i \in 1..n : seqs[i] \in Seq(V)) /\ seqs = [i \in 1..n |-> seqs[i]]
  OBVIOUS
<1> HIDE DEF n
<1>2. F \in [1..n -> [Seq(V) -> Seq(V)]] /\ <<>> \in Seq(V)
  BY <1>1
<1>3. PICK g \in [0..n -> Seq(V)] : g[0] = <<>> /\ \A i \in 1..n : g[i] = F[i][g[i-1]]
  <2> DEFINE W == Seq(V)
             empty == <<>>
  <2>1. n \in Nat /\ empty \in W /\ F \in [1..n -> [W -> W]]
    BY <1>1, <1>2
  <2> HIDE DEF F, W, empty
  <2>2. \E g \in [0..n -> W] : g[0] = empty /\ \A i \in 1..n : g[i] = F[i][g[i-1]]
    BY <2>1, RecursionExists, SMTT(60)
  <2> QED
    BY <2>2 DEF W, empty
<1>4. ASSUME NEW i \in 1..n PROVE g[i] = g[i-1] \o seqs[i]
  <2>1. F[i] = [s \in Seq(V) |-> s \o seqs[i]]
    OBVIOUS
  <2>2. g[i-1] \in Seq(V)
    BY <1>1
  <2>3. g[i] = F[i][g[i-1]]
    BY <1>3
  <2> QED
    BY <2>1, <2>2, <2>3
<1> HIDE DEF F
<1>5. FlattenSeq(seqs) = g[n]
  <2>1. CASE n = 0
    BY <1>1, <1>3, <2>1 DEF FlattenSeq, n
  <2>2. CASE n # 0
    <3> DEFINE Eq(h) == h = [i \in 1..n |-> IF i = 1 THEN seqs[i] ELSE h[i-1] \o seqs[i]]
               h0 == [i \in 1..n |-> g[i]]
    <3>1. ASSUME NEW i \in 1..n PROVE g[i] = IF i = 1 THEN seqs[i] ELSE h0[i-1] \o seqs[i]
      <4>1. i = 1 => g[i] = seqs[i]
        <5> HAVE i = 1
        <5>1. <<>> \o seqs[i] = seqs[i]
          BY <1>1
        <5>2. i - 1 = 0
          OBVIOUS
        <5>3. g[i-1] = <<>>
          BY <1>3, <5>2
        <5>4. g[i] = g[i-1] \o seqs[i]
          BY <1>4
        <5> QED
          BY <5>1, <5>3, <5>4
      <4>2. i # 1 => h0[i-1] = g[i-1]
        BY <1>1
      <4> QED
        BY <1>1, <1>4, <4>1, <4>2
    <3>2. Eq(h0)
      BY <3>1
    <3>3. PICK h : Eq(h) /\ FlattenSeq(seqs) = h[n]
      BY <3>2, <2>2 DEF FlattenSeq, n
    <3> DEFINE k == [i \in 0..n |-> IF i = 0 THEN <<>> ELSE h[i]]
    <3>4. ASSUME NEW i \in 1..n, g[i-1] = k[i-1] PROVE g[i] = k[i]
      <4>1. k[i] = IF i = 1 THEN seqs[i] ELSE h[i-1] \o seqs[i]
        <5>1. h[i] = IF i = 1 THEN seqs[i] ELSE h[i-1] \o seqs[i]
          BY <3>3
        <5>2. k[i] = h[i]
          BY <1>1
        <5> QED
          BY <5>1, <5>2
      <4>2. i = 1 => g[i] = seqs[i]
        <5> HAVE i = 1
        <5>1. <<>> \o seqs[i] = seqs[i]
          BY <1>1
        <5>2. i - 1 = 0
          OBVIOUS
        <5>3. g[i-1] = <<>>
          BY <1>3, <5>2
        <5>4. g[i] = g[i-1] \o seqs[i]
          BY <1>4
        <5> QED
          BY <5>1, <5>3, <5>4
      <4>3. i # 1 => k[i-1] = h[i-1]
        BY <1>1
      <4> QED
        BY <1>1, <1>4, <3>4, <4>1, <4>2, <4>3
    <3>5. g[n] = k[n]
      <4> DEFINE S == {i \in 0..n : g[i] = k[i]}
      <4>1. 0 \in S
        BY <1>1, <1>3
      <4>2. ASSUME NEW i \in 1..n, i - 1 \in S PROVE i \in S
        <5> HIDE DEF k
        <5>1. g[i-1] = k[i-1]
          BY <4>2
        <5>2. i \in 0..n
          BY <1>1
        <5> QED
          BY <3>4, <5>1, <5>2
      <4>3. 0..n \subseteq S
        <5> HIDE DEF S
        <5> QED
          BY <4>1, <4>2, <1>1, UpToInduction
      <4> QED
        BY <4>3, <1>1
    <3> QED
      BY <1>1, <2>2, <3>3, <3>5
  <2> QED
    BY <2>1, <2>2
<1> QED
  BY <1>3, <1>4, <1>5 DEF n

LEMMA CatalogFacts == Catalog \in Seq(Apps) /\ Known = ToSet(Catalog)
  BY CatalogAssumption DEF Known, Apps

(* What the domain of a fold loses at each step. *)
LEMMA UpTo ==
    ASSUME NEW i \in Nat, i > 0
    PROVE  1..i # {} /\ Max(1..i) = i /\ (1..i) \ {i} = 1..(i - 1)
<1>1. i \in 1..i /\ 1..i \in SUBSET (1..i)
  OBVIOUS
<1> QED
  BY <1>1, MaxIs

(* A fold, step by step. *)
FoldsBy(it, V, b, n, F) ==
    /\ it[{}] = b
    /\ \A s \in SUBSET (1..n) : s # {} /\ it[s \ {Max(s)}] \in V
                                   => it[s] = F[Max(s)][it[s \ {Max(s)}]]

StepsBy(V, b, n, F) ==
    {k \in [0..n -> V] : k[0] = b /\ \A i \in 1..n : k[i] = F[i][k[i-1]]}

LEMMA FoldSteps ==
    ASSUME NEW V, NEW b \in V, NEW n \in Nat, NEW F \in [1..n -> [V -> V]], NEW it,
           FoldsBy(it, V, b, n, F)
    PROVE  \E k \in StepsBy(V, b, n, F) : it[1..n] = k[n]
<1> DEFINE k == [i \in 0..n |-> it[1..i]]
<1>1. k[0] = b
  <2>1. 1..0 = {} /\ 0 \in 0..n
    OBVIOUS
  <2> QED
    BY <2>1 DEF FoldsBy
<1>2. ASSUME NEW i \in 1..n, k[i-1] \in V PROVE k[i] = F[i][k[i-1]]
  <2>1. i \in 0..n /\ i - 1 \in 0..n /\ i \in Nat /\ i > 0 /\ 1..i \in SUBSET (1..n)
    OBVIOUS
  <2>2. 1..i # {} /\ Max(1..i) = i /\ (1..i) \ {i} = 1..(i - 1)
    BY <2>1, UpTo
  <2>3. k[i] = it[1..i] /\ k[i-1] = it[1..(i - 1)]
    BY <2>1
  <2> HIDE DEF k
  <2>4. it[(1..i) \ {Max(1..i)}] \in V
    BY <1>2, <2>2, <2>3
  <2>5. it[1..i] = F[Max(1..i)][it[(1..i) \ {Max(1..i)}]]
    BY <2>1, <2>2, <2>4 DEF FoldsBy
  <2> QED
    BY <2>2, <2>3, <2>5
<1>3. n \in 0..n /\ k[n] = it[1..n]
  OBVIOUS
<1> HIDE DEF k
<1>4. ASSUME NEW i \in 0..n PROVE k[i] \in V
  <2> DEFINE T == {j \in 0..n : k[j] \in V}
  <2>1. 0 \in T
    BY <1>1
  <2>2. ASSUME NEW j \in 1..n, j - 1 \in T PROVE j \in T
    BY <1>2, <2>2
  <2> HIDE DEF T
  <2>3. 0..n \subseteq T
    BY <2>1, <2>2, UpToInduction
  <2> QED
    BY <2>3 DEF T
<1>5. k \in [0..n -> V]
  BY <1>4 DEF k
<1>6. \A i \in 1..n : k[i] = F[i][k[i-1]]
  BY <1>2, <1>4
<1> QED
  BY <1>1, <1>3, <1>5, <1>6 DEF StepsBy

(* One step of reorderInstallQueue. *)
Placed(list, app, apps) ==
    IF Contains(list, app) THEN list
    ELSE Append(list \o Without(Among(Catalog, DepsOf(app) \cap ToSet(apps)), ToSet(list)), app)

LEMMA PlacedType ==
    ASSUME NEW list \in Seq(Apps), NEW app \in Apps, NEW apps
    PROVE  Placed(list, app, apps) \in Seq(Apps)
<1>1. PICK c \in Seq(Apps) : c = Among(Catalog, DepsOf(app) \cap ToSet(apps))
  BY CatalogFacts, AmongFacts
<1>2. Without(c, ToSet(list)) \in Seq(Apps)
  BY <1>1, AmongFacts DEF Without
<1> DEFINE w == Without(c, ToSet(list))
<1> HIDE DEF w
<1>3. list \o w \in Seq(Apps)
  BY <1>2 DEF w
<1>4. Append(list \o w, app) \in Seq(Apps)
  BY <1>3
<1> QED
  BY <1>1, <1>4 DEF Placed, w

LEMMA ReorderSteps ==
    ASSUME NEW apps \in Seq(Apps)
    PROVE  \E k \in [0..Len(apps) -> Seq(Apps)] :
             /\ k[0] = <<>>
             /\ \A i \in 1..Len(apps) : k[i] = Placed(k[i-1], apps[i], apps)
             /\ reorderInstallQueue(apps) = k[Len(apps)]
<1>0. PICK n \in Nat : n = Len(apps) /\ DOMAIN apps = 1..n /\ \A i \in 1..n : apps[i] \in Apps
  OBVIOUS
<1>1. PICK W : W = Seq(Apps)
  OBVIOUS
<1>2. PICK b : b = <<>> /\ b \in W
  <2>1. <<>> \in Seq(Apps)
    OBVIOUS
  <2> QED
    BY <1>1, <2>1
<1> DEFINE next(q, i) == Placed(q, apps[i], apps)
           Eq(it) == it = [s \in SUBSET DOMAIN apps |->
                             IF s = {} THEN <<>>
                             ELSE Placed(it[s \ {Max(s)}], apps[Max(s)], apps)]
<1>3. \A i \in 1..n : \A q \in W : next(q, i) \in W
  BY <1>0, <1>1, PlacedType
<1> HIDE DEF next
<1>4. PICK F \in [1..n -> [W -> W]] : \A i \in 1..n : \A q \in W : F[i][q] = next(q, i)
  <2> DEFINE F == [i \in 1..n |-> [q \in W |-> next(q, i)]]
  <2>1. F \in [1..n -> [W -> W]]
    BY <1>3
  <2>2. \A i \in 1..n : \A q \in W : F[i][q] = next(q, i)
    OBVIOUS
  <2> HIDE DEF F
  <2> QED
    BY <2>1, <2>2
<1>5. PICK g \in Foldings(W, b, n, F) : TRUE
  BY <1>2, FoldExists
<1>6. ASSUME NEW s \in SUBSET (1..n), s # {}
      PROVE  Max(s) \in 1..n /\ g[s] = next(g[s \ {Max(s)}], Max(s))
  <2>1. Max(s) \in 1..n
    BY <1>6, MaxIn
  <2>2. g[s \ {Max(s)}] \in W /\ g[s] = F[Max(s)][g[s \ {Max(s)}]]
    BY <1>5, <1>6 DEF Foldings
  <2> QED
    BY <1>4, <2>1, <2>2
<1>7. PICK it : Eq(it) /\ reorderInstallQueue(apps) = it[DOMAIN apps]
  <2>1. Eq(g)
    BY <1>0, <1>2, <1>5, <1>6 DEF next, Foldings
  <2> QED
    BY <2>1 DEF reorderInstallQueue, FoldLeft, MapThenFoldSet, Placed
<1>8. FoldsBy(it, W, b, n, F)
  <2>1. ASSUME NEW s \in SUBSET (1..n), s # {}, it[s \ {Max(s)}] \in W
        PROVE  it[s] = F[Max(s)][it[s \ {Max(s)}]]
    <3>1. it[s] = next(it[s \ {Max(s)}], Max(s))
      BY <1>0, <1>7, <2>1 DEF next
    <3> QED
      BY <1>4, <1>6, <2>1, <3>1
  <2>2. it[{}] = b
    BY <1>0, <1>2, <1>7
  <2> QED
    BY <2>1, <2>2 DEF FoldsBy
<1>9. PICK k \in StepsBy(W, b, n, F) : it[1..n] = k[n]
  BY <1>2, <1>8, FoldSteps
<1>10. k \in [0..n -> W] /\ k[0] = b /\ \A i \in 1..n : k[i] = F[i][k[i-1]]
  BY <1>9 DEF StepsBy
<1>11. ASSUME NEW i \in 1..n PROVE k[i] = next(k[i-1], i)
  <2>1. k[i-1] \in W
    BY <1>10
  <2> QED
    BY <1>4, <1>10, <2>1
<1> QED
  BY <1>0, <1>1, <1>2, <1>7, <1>9, <1>10, <1>11 DEF next

-----------------------------------------------------------------------------
(* Sequences. *)
LEMMA ToSetIs ==
    ASSUME NEW V, NEW q \in Seq(V)
    PROVE  /\ ToSet(q) = {q[i] : i \in 1..Len(q)}
           /\ ToSet(q) \subseteq V
           /\ ToSet(q) = {} <=> q = <<>>
           /\ \A x : Contains(q, x) <=> x \in ToSet(q)
<1>1. DOMAIN q = 1..Len(q) /\ Len(q) \in Nat /\ \A i \in 1..Len(q) : q[i] \in V
  OBVIOUS
<1>2. ToSet(q) = {} => q = <<>>
  <2> HAVE ToSet(q) = {}
  <2>1. \A i \in 1..Len(q) : FALSE
    BY <1>1 DEF ToSet
  <2>2. Len(q) = 0
    BY <1>1, <2>1
  <2> QED
    BY <2>2
<1>3. q = <<>> => ToSet(q) = {}
  BY DEF ToSet
<1> QED
  BY <1>1, <1>2, <1>3 DEF ToSet, Contains

LEMMA ConcatFacts ==
    ASSUME NEW V, NEW p \in Seq(V), NEW q \in Seq(V)
    PROVE  p \o q \in Seq(V) /\ ToSet(p \o q) = ToSet(p) \cup ToSet(q)
<1>1. /\ p \o q \in Seq(V) /\ Len(p) \in Nat /\ Len(q) \in Nat
      /\ Len(p \o q) = Len(p) + Len(q)
      /\ \A i \in 1..Len(p) : (p \o q)[i] = p[i]
      /\ \A i \in 1..Len(q) : (p \o q)[Len(p) + i] = q[i]
  OBVIOUS
<1>2. \A r \in Seq(V) : ToSet(r) = {r[i] : i \in 1..Len(r)}
  BY ToSetIs
<1>3. ASSUME NEW y \in ToSet(p \o q) PROVE y \in ToSet(p) \cup ToSet(q)
  <2>1. PICK i \in 1..Len(p \o q) : y = (p \o q)[i]
    BY <1>1, <1>2
  <2>2. CASE i <= Len(p)
    <3>1. i \in 1..Len(p)
      BY <1>1, <2>2
    <3> QED
      BY <1>1, <1>2, <2>1, <3>1
  <2>3. CASE ~(i <= Len(p))
    <3>1. i - Len(p) \in 1..Len(q) /\ Len(p) + (i - Len(p)) = i
      BY <1>1, <2>3
    <3>2. y = q[i - Len(p)]
      BY <1>1, <2>1, <3>1
    <3> QED
      BY <1>2, <3>1, <3>2
  <2> QED
    BY <2>2, <2>3
<1>4. ASSUME NEW y \in ToSet(p) PROVE y \in ToSet(p \o q)
  <2>1. PICK i \in 1..Len(p) : y = p[i]
    BY <1>2
  <2>2. i \in 1..Len(p \o q)
    BY <1>1
  <2> QED
    BY <1>1, <1>2, <2>1, <2>2
<1>5. ASSUME NEW y \in ToSet(q) PROVE y \in ToSet(p \o q)
  <2>1. PICK i \in 1..Len(q) : y = q[i]
    BY <1>2
  <2>2. Len(p) + i \in 1..Len(p \o q)
    BY <1>1
  <2> QED
    BY <1>1, <1>2, <2>1, <2>2
<1> QED
  BY <1>1, <1>3, <1>4, <1>5

LEMMA AppendFacts ==
    ASSUME NEW V, NEW p \in Seq(V), NEW x \in V
    PROVE  Append(p, x) \in Seq(V) /\ ToSet(Append(p, x)) = ToSet(p) \cup {x}
<1>1. /\ Append(p, x) \in Seq(V) /\ Len(p) \in Nat /\ Len(Append(p, x)) = Len(p) + 1
      /\ \A i \in 1..Len(p) : Append(p, x)[i] = p[i]
      /\ Append(p, x)[Len(p) + 1] = x
  OBVIOUS
<1>2. \A r \in Seq(V) : ToSet(r) = {r[i] : i \in 1..Len(r)}
  BY ToSetIs
<1>3. ASSUME NEW y \in ToSet(Append(p, x)) PROVE y \in ToSet(p) \cup {x}
  <2>1. PICK i \in 1..Len(Append(p, x)) : y = Append(p, x)[i]
    BY <1>1, <1>2
  <2>2. i \in 1..Len(p) \/ i = Len(p) + 1
    BY <1>1
  <2> QED
    BY <1>1, <1>2, <2>1, <2>2
<1>4. ASSUME NEW y \in ToSet(p) PROVE y \in ToSet(Append(p, x))
  <2>1. PICK i \in 1..Len(p) : y = p[i]
    BY <1>2
  <2>2. i \in 1..Len(Append(p, x))
    BY <1>1
  <2> QED
    BY <1>1, <1>2, <2>1, <2>2
<1>5. x \in ToSet(Append(p, x))
  <2>1. Len(p) + 1 \in 1..Len(Append(p, x))
    BY <1>1
  <2> QED
    BY <1>1, <1>2, <2>1
<1> QED
  BY <1>1, <1>3, <1>4, <1>5

LEMMA ReverseFacts ==
    ASSUME NEW V, NEW q \in Seq(V)
    PROVE  /\ Reverse(q) \in Seq(V) /\ Len(Reverse(q)) = Len(q)
           /\ \A i \in 1..Len(q) : Reverse(q)[i] = q[(Len(q) - i) + 1]
           /\ ToSet(Reverse(q)) = ToSet(q)
           /\ Reverse(Reverse(q)) = q
<1>1. PICK n \in Nat : n = Len(q) /\ q \in [1..n -> V]
  OBVIOUS
<1>2. Reverse(q) = [i \in 1..n |-> q[(n - i) + 1]]
  BY <1>1 DEF Reverse
<1>3. \A i \in 1..n : (n - i) + 1 \in 1..n /\ (n - ((n - i) + 1)) + 1 = i
  OBVIOUS
<1>4. Reverse(q) \in [1..n -> V]
  BY <1>1, <1>2, <1>3
<1>5. Reverse(q) \in Seq(V) /\ Len(Reverse(q)) = n
  BY <1>4
<1>6. \A i \in 1..n : Reverse(q)[i] = q[(n - i) + 1] /\ Reverse(q)[(n - i) + 1] = q[i]
  BY <1>2, <1>3
<1>7. ToSet(Reverse(q)) = ToSet(q)
  <2>1. ToSet(Reverse(q)) = {Reverse(q)[i] : i \in 1..n} /\ ToSet(q) = {q[i] : i \in 1..n}
    BY <1>1, <1>5, ToSetIs
  <2> QED
    BY <1>3, <1>6, <2>1
<1>8. Reverse(Reverse(q)) = [i \in 1..n |-> Reverse(q)[(n - i) + 1]]
  BY <1>5 DEF Reverse
<1>9. q = [i \in 1..n |-> q[i]]
  BY <1>1
<1>10. Reverse(Reverse(q)) = q
  BY <1>6, <1>8, <1>9
<1> QED
  BY <1>1, <1>5, <1>6, <1>7, <1>10

LEMMA SeqWithin ==
    ASSUME NEW V, NEW q \in Seq(V), NEW W
    PROVE  ToSet(q) \subseteq W => q \in Seq(W)
<1>1. Len(q) \in Nat
  OBVIOUS
<1>2. q \in [1..Len(q) -> V] /\ DOMAIN q = 1..Len(q)
  OBVIOUS
<1>3. SUFFICES ASSUME ToSet(q) \subseteq W PROVE q \in Seq(W)
  OBVIOUS
<1>4. \A i \in 1..Len(q) : q[i] \in W
  BY <1>2, <1>3 DEF ToSet
<1>5. q \in [1..Len(q) -> W]
  BY <1>2, <1>4
<1> QED
  BY <1>1, <1>5

(* The order of a sequence agrees with R. *)
Sorted(q, R) ==
    /\ IsInjective(q)
    /\ \A i, j \in 1..Len(q) : <<q[i], q[j]>> \in R => i < j

LEMMA AmongSorted ==
    ASSUME NEW V, NEW q \in Seq(V), NEW S, NEW R, Sorted(q, R)
    PROVE  Sorted(Among(q, S), R)
<1> DEFINE p == Among(q, S)
<1>1. p \in Seq(V) /\ ToSet(p) \subseteq ToSet(q)
  BY AmongFacts
<1>2. /\ DOMAIN q = 1..Len(q) /\ Len(q) \in Nat
      /\ DOMAIN p = 1..Len(p) /\ Len(p) \in Nat
  BY <1>1
<1>3. ASSUME NEW a \in 1..Len(p), NEW b \in 1..Len(p), a < b
      PROVE  \E i, j \in 1..Len(q) : i < j /\ q[i] = p[a] /\ q[j] = p[b]
  BY <1>3, AmongFacts
<1> HIDE DEF p
<1>4. ASSUME NEW a \in 1..Len(p), NEW b \in 1..Len(p), a < b
      PROVE  p[a] # p[b] /\ <<p[b], p[a]>> \notin R
  <2>1. PICK i \in 1..Len(q), j \in 1..Len(q) : i < j /\ q[i] = p[a] /\ q[j] = p[b]
    BY <1>3, <1>4
  <2>2. i # j /\ ~(j < i)
    BY <1>2, <2>1
  <2> QED
    BY <1>2, <2>1, <2>2 DEF Sorted, IsInjective
<1>5. ASSUME NEW a \in 1..Len(p) PROVE <<p[a], p[a]>> \notin R
  <2>1. PICK i \in 1..Len(q) : q[i] = p[a]
    BY <1>1, <1>2 DEF ToSet
  <2>2. ~(i < i)
    BY <1>2
  <2> QED
    BY <2>1, <2>2 DEF Sorted
<1>6. \A a, b \in 1..Len(p) : a < b \/ b < a \/ a = b
  BY <1>2
<1>7. IsInjective(p)
  BY <1>2, <1>4, <1>6 DEF IsInjective
<1>8. \A a, b \in 1..Len(p) : <<p[a], p[b]>> \in R => a < b
  BY <1>4, <1>5, <1>6
<1> QED
  BY <1>7, <1>8 DEF Sorted, p

LEMMA WithoutFacts ==
    ASSUME NEW V, NEW q \in Seq(V), NEW S
    PROVE  /\ Without(q, S) \in Seq(V) /\ ToSet(Without(q, S)) = ToSet(q) \ S
           /\ \A R : Sorted(q, R) => Sorted(Without(q, S), R)
<1>1. ToSet(q) \cap (ToSet(q) \ S) = ToSet(q) \ S
  OBVIOUS
<1> QED
  BY <1>1, AmongFacts, AmongSorted DEF Without

-----------------------------------------------------------------------------
(* The order of the queues. *)
(* Dependencies come first, or last. *)
DepsFirst == {p \in Apps \X Apps : p[1] \in DepsOf(p[2])}
DepsLast == {p \in Apps \X Apps : p[2] \in DepsOf(p[1])}

LEMMA DepsFacts ==
    /\ \A a \in Apps : DepsOf(a) \subseteq Known
    /\ \A a \in Apps : \A d \in DepsOf(a) : DepsOf(d) = {}
    /\ \A a \in Apps : a \notin DepsOf(a)
    /\ \A a \in Apps : \A d, e \in DepsOf(a) : d = e
    /\ \A a, d : a \in Dependents(d) <=> a \in Known /\ d \in DepsOf(a)
  BY CatalogAssumption, OneLevelAssumption, OneFamilyAssumption
     DEF DepsOf, Known, Apps, Dependents

LEMMA InOrderIsSorted ==
    ASSUME NEW q \in Seq(Apps)
    PROVE  InOrder(q) <=> Sorted(q, DepsFirst)
<1>1. \A i \in 1..Len(q) : q[i] \in Apps
  OBVIOUS
<1> QED
  BY <1>1 DEF InOrder, Sorted, DepsFirst

LEMMA ReverseSorted ==
    ASSUME NEW q \in Seq(Apps)
    PROVE  Sorted(Reverse(q), DepsFirst) <=> Sorted(q, DepsLast)
<1>1. PICK n \in Nat : n = Len(q) /\ DOMAIN q = 1..n /\ \A i \in 1..n : q[i] \in Apps
  OBVIOUS
<1>2. /\ DOMAIN Reverse(q) = 1..n /\ Len(Reverse(q)) = n
      /\ \A i \in 1..n : Reverse(q)[i] = q[(n - i) + 1]
  BY <1>1, ReverseFacts DEF Reverse
<1>3. \A i \in 1..n : (n - i) + 1 \in 1..n /\ (n - ((n - i) + 1)) + 1 = i
  OBVIOUS
<1>4. \A i, j \in 1..n : (i < j <=> (n - j) + 1 < (n - i) + 1)
                         /\ (i = j <=> (n - j) + 1 = (n - i) + 1)
  OBVIOUS
<1>5. \A i, j \in 1..n : <<q[i], q[j]>> \in DepsLast <=> <<q[j], q[i]>> \in DepsFirst
  BY <1>1 DEF DepsFirst, DepsLast
<1> DEFINE m == [i \in 1..n |-> (n - i) + 1]
           r == Reverse(q)
<1>6. /\ \A i \in 1..n : m[i] \in 1..n /\ m[m[i]] = i /\ r[i] = q[m[i]] /\ q[i] = r[m[i]]
      /\ \A i, j \in 1..n : (i < j <=> m[j] < m[i]) /\ (i = j <=> m[j] = m[i])
  BY <1>2, <1>3, <1>4
<1> HIDE DEF m
<1>7. IsInjective(r) <=> IsInjective(q)
  BY <1>1, <1>2, <1>6, SMTT(60) DEF IsInjective
<1>8. (\A i, j \in 1..n : <<r[i], r[j]>> \in DepsFirst => i < j)
        <=> \A i, j \in 1..n : <<q[i], q[j]>> \in DepsLast => i < j
  <2>1. ASSUME \A i, j \in 1..n : <<r[i], r[j]>> \in DepsFirst => i < j,
               NEW i \in 1..n, NEW j \in 1..n, <<q[i], q[j]>> \in DepsLast
        PROVE  i < j
    <3>1. <<r[m[j]], r[m[i]]>> \in DepsFirst
      BY <1>5, <1>6, <2>1
    <3> QED
      BY <1>6, <2>1, <3>1
  <2>2. ASSUME \A i, j \in 1..n : <<q[i], q[j]>> \in DepsLast => i < j,
               NEW i \in 1..n, NEW j \in 1..n, <<r[i], r[j]>> \in DepsFirst
        PROVE  i < j
    <3>1. <<q[m[j]], q[m[i]]>> \in DepsLast
      BY <1>5, <1>6, <2>2
    <3> QED
      BY <1>6, <2>2, <3>1
  <2> QED
    BY <2>1, <2>2
<1> QED
  BY <1>1, <1>2, <1>7, <1>8 DEF Sorted

(* What reorderInstallQueue has placed after i applications of apps.          *)
PlacedSoFar(list, apps, i) ==
    /\ ToSet(list) \subseteq ToSet(apps)
    /\ \A j \in 1..i : apps[j] \in ToSet(list)
    /\ IsInjective(list)
    /\ \A j \in 1..Len(list) : \A d \in DepsOf(list[j]) \cap ToSet(apps) :
         \E l \in 1..Len(list) : l < j /\ list[l] = d

LEMMA PlacedStep ==
    ASSUME NEW apps \in Seq(Apps), NEW list \in Seq(Apps), NEW i \in 1..Len(apps),
           PlacedSoFar(list, apps, i - 1)
    PROVE  PlacedSoFar(Placed(list, apps[i], apps), apps, i)
<1>0. PICK app \in Apps : app = apps[i] /\ app \in ToSet(apps)
  <2>1. DOMAIN apps = 1..Len(apps) /\ apps[i] \in Apps
    OBVIOUS
  <2> QED
    BY <2>1 DEF ToSet
<1>1. \A j \in 1..i : j \in 1..(i - 1) \/ j = i
  OBVIOUS
<1>2. CASE Contains(list, app)
  BY <1>0, <1>1, <1>2, ToSetIs DEF Placed, PlacedSoFar
<1>3. CASE ~Contains(list, app)
  <2> DEFINE D == DepsOf(app) \cap ToSet(apps)
             w == Without(Among(Catalog, D), ToSet(list))
             p == list \o w
             q == Append(p, app)
  <2>0. app \notin ToSet(list) /\ ToSet(list) \subseteq Apps
    BY <1>3, ToSetIs
  <2>1. w \in Seq(Apps) /\ ToSet(w) = D \ ToSet(list) /\ IsInjective(w)
    <3>1. Sorted(Catalog, {})
      BY CatalogAssumption DEF Sorted
    <3>2. Among(Catalog, D) \in Seq(Apps) /\ ToSet(Among(Catalog, D)) = ToSet(Catalog) \cap D
      BY CatalogFacts, AmongFacts
    <3>3. Sorted(Among(Catalog, D), {})
      BY <3>1, CatalogFacts, AmongSorted
    <3>4. w \in Seq(Apps) /\ ToSet(w) = ToSet(Among(Catalog, D)) \ ToSet(list)
      BY <3>2, WithoutFacts
    <3>5. Sorted(w, {})
      BY <3>2, <3>3, WithoutFacts
    <3>6. D \subseteq ToSet(Catalog)
      BY DepsFacts, CatalogFacts
    <3> QED
      BY <3>2, <3>4, <3>5, <3>6 DEF Sorted
  <2> HIDE DEF w
  <2>2. /\ p \in Seq(Apps) /\ ToSet(p) = ToSet(list) \cup ToSet(w)
        /\ Len(p) = Len(list) + Len(w) /\ Len(list) \in Nat /\ Len(w) \in Nat
        /\ DOMAIN list = 1..Len(list) /\ DOMAIN w = 1..Len(w)
        /\ \A j \in 1..Len(list) : p[j] = list[j]
        /\ \A j \in 1..Len(w) : p[Len(list) + j] = w[j]
    BY <2>1, ConcatFacts
  <2>3. /\ q \in Seq(Apps) /\ ToSet(q) = ToSet(p) \cup {app}
        /\ Len(q) = Len(list) + Len(w) + 1 /\ DOMAIN q = 1..Len(q)
        /\ \A j \in 1..Len(list) : q[j] = list[j]
        /\ \A j \in 1..Len(w) : q[Len(list) + j] = w[j]
        /\ q[Len(list) + Len(w) + 1] = app
    <3> HIDE DEF p
    <3>1. q \in Seq(Apps) /\ ToSet(q) = ToSet(p) \cup {app}
      BY <1>0, <2>2, AppendFacts
    <3>2. /\ Len(q) = Len(p) + 1 /\ DOMAIN q = 1..Len(q) /\ q[Len(p) + 1] = app
          /\ \A j \in 1..Len(p) : q[j] = p[j]
      <4>1. p \in Seq(Apps) /\ app \in Apps
        BY <1>0, <2>2
      <4> QED
        BY <4>1
    <3> QED
      BY <2>2, <3>1, <3>2
  <2> HIDE DEF p, q
  <2>4. Placed(list, apps[i], apps) = q
    BY <1>0, <1>3 DEF Placed, p, q, w
  <2>5. ToSet(q) = ToSet(list) \cup (D \ ToSet(list)) \cup {app}
    BY <2>1, <2>2, <2>3
  <2>6. ToSet(q) \subseteq ToSet(apps) /\ \A j \in 1..i : apps[j] \in ToSet(q)
    BY <1>0, <1>1, <2>5 DEF PlacedSoFar
  <2>7. /\ \A j \in 1..Len(list) : list[j] \in ToSet(list)
        /\ \A j \in 1..Len(w) : w[j] \in D \ ToSet(list)
        /\ app \notin D
    BY <2>1, <2>2, DepsFacts DEF ToSet
  <2>8. \A j \in 1..Len(q) : \/ j \in 1..Len(list)
                             \/ \E l \in 1..Len(w) : j = Len(list) + l
                             \/ j = Len(list) + Len(w) + 1
    <3>1. PICK m \in Nat, n \in Nat : m = Len(list) /\ n = Len(w) /\ Len(q) = m + n + 1
      BY <2>2, <2>3
    <3>2. \A j \in 1..(m + n + 1) : \/ j \in 1..m
                                    \/ j - m \in 1..n /\ j = m + (j - m)
                                    \/ j = m + n + 1
      OBVIOUS
    <3> QED
      BY <3>1, <3>2
  <2>9. IsInjective(q)
    <3>1. IsInjective(list)
      BY DEF PlacedSoFar
    <3>2. SUFFICES ASSUME NEW a \in 1..Len(q), NEW b \in 1..Len(q), q[a] = q[b]
                   PROVE  a = b
      BY <2>3 DEF IsInjective
    <3>3. CASE a \in 1..Len(list)
      <4>1. q[a] = list[a] /\ list[a] \in ToSet(list)
        BY <2>3, <2>7, <3>3
      <4>2. CASE b \in 1..Len(list)
        <5>1. list[b] = list[a]
          BY <2>3, <3>2, <4>1, <4>2
        <5> QED
          BY <2>2, <3>1, <3>3, <4>2, <5>1 DEF IsInjective
      <4>3. CASE \E m \in 1..Len(w) : b = Len(list) + m
        BY <4>1, <4>3, <3>2, <2>3, <2>7
      <4>4. CASE b = Len(list) + Len(w) + 1
        BY <4>1, <4>4, <3>2, <2>0, <2>3
      <4> QED
        BY <2>8, <4>2, <4>3, <4>4
    <3>4. CASE \E l \in 1..Len(w) : a = Len(list) + l
      <4>1. PICK l \in 1..Len(w) : a = Len(list) + l
        BY <3>4
      <4>2. q[a] = w[l] /\ w[l] \in D \ ToSet(list)
        BY <2>3, <2>7, <4>1
      <4>3. CASE b \in 1..Len(list)
        BY <4>2, <4>3, <3>2, <2>3, <2>7
      <4>4. CASE \E m \in 1..Len(w) : b = Len(list) + m
        <5>1. PICK m \in 1..Len(w) : b = Len(list) + m
          BY <4>4
        <5>2. w[m] = w[l]
          BY <2>3, <3>2, <4>2, <5>1
        <5> QED
          BY <2>1, <2>2, <4>1, <5>1, <5>2 DEF IsInjective
      <4>5. CASE b = Len(list) + Len(w) + 1
        BY <4>2, <4>5, <3>2, <2>3, <2>7
      <4> QED
        BY <2>8, <4>3, <4>4, <4>5
    <3>5. CASE a = Len(list) + Len(w) + 1
      <4>1. q[a] = app
        BY <2>3, <3>5
      <4>2. CASE b \in 1..Len(list)
        BY <4>1, <4>2, <3>2, <2>0, <2>3, <2>7
      <4>3. CASE \E m \in 1..Len(w) : b = Len(list) + m
        BY <4>1, <4>3, <3>2, <2>3, <2>7, SMTT(30)
      <4> QED
        BY <2>8, <3>5, <4>2, <4>3
    <3> QED
      BY <2>8, <3>3, <3>4, <3>5
  <2>10. ASSUME NEW j \in 1..Len(q), NEW d \in DepsOf(q[j]) \cap ToSet(apps)
         PROVE  \E l \in 1..Len(q) : l < j /\ q[l] = d
    <3>1. CASE j \in 1..Len(list)
      <4>1. PICK l \in 1..Len(list) : l < j /\ list[l] = d
        BY <2>3, <2>10, <3>1 DEF PlacedSoFar
      <4> QED
        BY <2>2, <2>3, <4>1
    <3>2. CASE \E l \in 1..Len(w) : j = Len(list) + l
      <4>1. q[j] \in DepsOf(app)
        BY <2>3, <2>7, <3>2
      <4> QED
        BY <2>10, <4>1, DepsFacts
    <3>3. CASE j = Len(list) + Len(w) + 1
      <4>1. d \in ToSet(list) \/ d \in ToSet(w)
        BY <2>1, <2>3, <2>10, <3>3
      <4>2. CASE d \in ToSet(list)
        <5>1. PICK l \in 1..Len(list) : list[l] = d
          BY <2>2, <4>2 DEF ToSet
        <5> QED
          BY <2>2, <2>3, <3>3, <5>1
      <4>3. CASE d \in ToSet(w)
        <5>1. PICK l \in 1..Len(w) : w[l] = d
          BY <2>2, <4>3 DEF ToSet
        <5>2. Len(list) + l \in 1..Len(q) /\ Len(list) + l < j
          BY <2>2, <2>3, <3>3
        <5> QED
          BY <2>3, <5>1, <5>2
      <4> QED
        BY <4>1, <4>2, <4>3
    <3> QED
      BY <2>8, <3>1, <3>2, <3>3
  <2> QED
    BY <2>4, <2>6, <2>9, <2>10 DEF PlacedSoFar
<1> QED
  BY <1>2, <1>3

LEMMA ReorderFacts ==
    ASSUME NEW apps \in Seq(Apps)
    PROVE  /\ reorderInstallQueue(apps) \in Seq(Apps)
           /\ ToSet(reorderInstallQueue(apps)) = ToSet(apps)
           /\ Sorted(reorderInstallQueue(apps), DepsFirst)
<1>0. PICK n \in Nat : n = Len(apps) /\ DOMAIN apps = 1..n
  OBVIOUS
<1>1. PICK k \in [0..n -> Seq(Apps)] :
         /\ k[0] = <<>>
         /\ \A i \in 1..n : k[i] = Placed(k[i-1], apps[i], apps)
         /\ reorderInstallQueue(apps) = k[n]
  BY <1>0, ReorderSteps
<1>2. PlacedSoFar(k[0], apps, 0)
  BY <1>1 DEF PlacedSoFar, IsInjective, ToSet
<1>3. ASSUME NEW i \in 1..n, PlacedSoFar(k[i-1], apps, i - 1) PROVE PlacedSoFar(k[i], apps, i)
  <2>1. k[i-1] \in Seq(Apps)
    BY <1>1
  <2> QED
    BY <1>0, <1>1, <1>3, <2>1, PlacedStep
<1>4. PlacedSoFar(k[n], apps, n)
  <2> DEFINE T == {i \in 0..n : PlacedSoFar(k[i], apps, i)}
  <2>1. 0 \in T
    BY <1>2
  <2>2. ASSUME NEW i \in 1..n, i - 1 \in T PROVE i \in T
    <3>1. PlacedSoFar(k[i-1], apps, i - 1) /\ i \in 0..n
      BY <2>2
    <3>2. PlacedSoFar(k[i], apps, i)
      BY <1>3, <3>1
    <3> QED
      BY <3>1, <3>2
  <2> HIDE DEF T
  <2>3. 0..n \subseteq T
    BY <2>1, <2>2, UpToInduction
  <2> QED
    BY <2>3 DEF T
<1> DEFINE q == k[n]
<1>5. q \in Seq(Apps) /\ reorderInstallQueue(apps) = q /\ PlacedSoFar(q, apps, n)
  BY <1>1, <1>4
<1> HIDE DEF q
<1>6. ToSet(q) = ToSet(apps)
  <2>1. ToSet(apps) = {apps[j] : j \in 1..n}
    BY <1>0 DEF ToSet
  <2> QED
    BY <1>5, <2>1 DEF PlacedSoFar
<1>7. DOMAIN q = 1..Len(q) /\ Len(q) \in Nat /\ \A j \in 1..Len(q) : q[j] \in ToSet(apps)
  <2>1. DOMAIN q = 1..Len(q) /\ Len(q) \in Nat
    BY <1>5
  <2> QED
    BY <1>6, <2>1 DEF ToSet
<1>8. ASSUME NEW i \in 1..Len(q), NEW j \in 1..Len(q), <<q[i], q[j]>> \in DepsFirst
      PROVE  i < j
  <2>1. q[i] \in DepsOf(q[j]) \cap ToSet(apps)
    BY <1>7, <1>8 DEF DepsFirst
  <2>2. PICK l \in 1..Len(q) : l < j /\ q[l] = q[i]
    BY <1>5, <2>1, ZenonT(60) DEF PlacedSoFar
  <2> QED
    BY <1>5, <1>7, <2>2 DEF PlacedSoFar, IsInjective
<1> QED
  BY <1>5, <1>6, <1>8 DEF Sorted, PlacedSoFar

LEMMA ReorderUninstallFacts ==
    ASSUME NEW apps \in Seq(Apps)
    PROVE  /\ reorderUninstallQueue(apps) \in Seq(Apps)
           /\ ToSet(reorderUninstallQueue(apps)) = ToSet(apps)
           /\ Sorted(reorderUninstallQueue(apps), DepsLast)
<1>1. PICK r \in Seq(Apps) : r = Reverse(apps) /\ ToSet(r) = ToSet(apps)
  BY ReverseFacts
<1>2. PICK p \in Seq(Apps) : p = reorderInstallQueue(r) /\ ToSet(p) = ToSet(r) /\ Sorted(p, DepsFirst)
  BY ReorderFacts
<1>3. Reverse(p) \in Seq(Apps) /\ ToSet(Reverse(p)) = ToSet(p) /\ Reverse(Reverse(p)) = p
  BY ReverseFacts
<1>4. Sorted(Reverse(p), DepsLast)
  BY <1>2, <1>3, ReverseSorted
<1> QED
  BY <1>1, <1>2, <1>3, <1>4 DEF reorderUninstallQueue

-----------------------------------------------------------------------------
(* What the reducer makes of the queues. *)
LEMMA FlattenFacts ==
    ASSUME NEW V, NEW seqs \in Seq(Seq(V))
    PROVE  /\ FlattenSeq(seqs) \in Seq(V)
           /\ ToSet(FlattenSeq(seqs)) = UNION {ToSet(seqs[i]) : i \in 1..Len(seqs)}
<1> DEFINE n == Len(seqs)
<1>1. n \in Nat /\ \A i \in 1..n : seqs[i] \in Seq(V)
  OBVIOUS
<1>2. PICK g \in [0..n -> Seq(V)] :
         /\ g[0] = <<>>
         /\ \A i \in 1..n : g[i] = g[i-1] \o seqs[i]
         /\ FlattenSeq(seqs) = g[n]
  BY FlattenSteps
<1> HIDE DEF n
<1> DEFINE P(m) == ToSet(g[m]) = UNION {ToSet(seqs[i]) : i \in 1..m}
<1>3. P(0)
  BY <1>2 DEF ToSet
<1>4. ASSUME NEW m \in 1..n, P(m - 1) PROVE P(m)
  <2>1. g[m-1] \in Seq(V) /\ seqs[m] \in Seq(V)
    BY <1>1
  <2>2. ToSet(g[m-1] \o seqs[m]) = ToSet(g[m-1]) \cup ToSet(seqs[m])
    BY <2>1, ConcatFacts
  <2>3. \A i : i \in 1..m <=> i \in 1..(m - 1) \/ i = m
    BY <1>1
  <2>4. g[m] = g[m-1] \o seqs[m]
    BY <1>2
  <2> QED
    BY <1>4, <2>2, <2>3, <2>4
<1>5. P(n)
  <2> DEFINE T == {m \in 0..n : P(m)}
  <2>1. 0 \in T
    BY <1>1, <1>3
  <2>2. ASSUME NEW i \in 1..n, i - 1 \in T PROVE i \in T
    <3>1. i \in 0..n /\ P(i - 1)
      BY <1>1, <2>2
    <3> HIDE DEF P
    <3> QED
      BY <1>4, <3>1
  <2>3. 0..n \subseteq T
    <3> HIDE DEF T
    <3> QED
      BY <1>1, <2>1, <2>2, UpToInduction
  <2> HIDE DEF P
  <2> QED
    BY <1>1, <2>3
<1>6. g[n] \in Seq(V)
  BY <1>1
<1> QED
  BY <1>2, <1>5, <1>6 DEF n

(* A state of the reducer whose queues are in order. *)
Good(s) ==
    /\ s \in States
    /\ Sorted(s.installQueue, DepsFirst)
    /\ Sorted(s.uninstallQueue, DepsLast)

LEMMA StateFields ==
    ASSUME NEW s \in States
    PROVE  /\ s.installed \in Seq(Apps) /\ s.outdated \subseteq Apps
           /\ s.installQueue \in Seq(Apps) /\ s.uninstallQueue \in Seq(Apps)
           /\ s.updateAllQueue \in Seq(Apps) /\ s.currentAppOp \in Ops \cup {NoOp}
           /\ s.currentError \in Ops \cup {NoOp}
  BY DEF States

LEMMA EmptyQueue ==
    /\ <<>> \in Seq(Apps) /\ ToSet(<<>>) = {}
    /\ Sorted(<<>>, DepsFirst) /\ Sorted(<<>>, DepsLast)
  BY DEF Sorted, IsInjective, ToSet

(* The outdated applications around name. *)
Around(s, name) ==
    IF name \in s.outdated \/ s.outdated \cap Deps[name] # {}
    THEN ToSet(s.installed) \cap s.outdated \cap
           ({name} \cup Deps[name] \cup Dependents(name)
              \cup UNION {Dependents(d) : d \in Deps[name]})
    ELSE {}

LEMMA OutdatedAroundFacts ==
    ASSUME NEW s \in States, NEW name \in Known
    PROVE  /\ OutdatedAround(s, name) \in Seq(Apps)
           /\ ToSet(OutdatedAround(s, name)) = Around(s, name)
<1>1. s.installed \in Seq(Apps)
  BY StateFields
<1>2. \A S : Among(s.installed, S) \in Seq(Apps)
             /\ ToSet(Among(s.installed, S)) = ToSet(s.installed) \cap S
  BY <1>1, AmongFacts
<1> DEFINE S == s.outdated \cap ({name} \cup Deps[name] \cup Dependents(name)
                                  \cup UNION {Dependents(d) : d \in Deps[name]})
<1>3. OutdatedAround(s, name) = IF name \in s.outdated \/ s.outdated \cap Deps[name] # {}
                                THEN Among(s.installed, S) ELSE <<>>
  BY DEF OutdatedAround
<1>4. Around(s, name) = IF name \in s.outdated \/ s.outdated \cap Deps[name] # {}
                        THEN ToSet(s.installed) \cap S ELSE {}
  BY DEF Around
<1> HIDE DEF S
<1> QED
  BY <1>2, <1>3, <1>4, EmptyQueue

LEMMA MissingDepsFacts ==
    ASSUME NEW s \in States, NEW name \in Known
    PROVE  /\ MissingDeps(s, name) \in Seq(Apps)
           /\ ToSet(MissingDeps(s, name)) = Deps[name] \ ToSet(s.installed)
<1>1. PICK q \in Seq(Apps) : /\ q = Among(Catalog, Deps[name])
                             /\ ToSet(q) = ToSet(Catalog) \cap Deps[name]
  BY CatalogFacts, AmongFacts
<1>2. Deps[name] \subseteq ToSet(Catalog)
  BY CatalogAssumption DEF Known
<1>3. ToSet(q) = Deps[name]
  BY <1>1, <1>2
<1> QED
  BY <1>1, <1>3, WithoutFacts DEF MissingDeps

LEMMA InstalledDependentsFacts ==
    ASSUME NEW s \in States, NEW name \in Apps
    PROVE  /\ InstalledDependents(s, name) \in Seq(Apps)
           /\ ToSet(InstalledDependents(s, name)) = Dependents(name) \cap ToSet(s.installed)
<1>1. PICK q \in Seq(Apps) : /\ q = Among(Catalog, Dependents(name))
                             /\ ToSet(q) = ToSet(Catalog) \cap Dependents(name)
  BY CatalogFacts, AmongFacts
<1>2. ToSet(q) = Dependents(name)
  BY <1>1 DEF Dependents, Known
<1> QED
  BY <1>1, <1>2, AmongFacts DEF InstalledDependents, findDependents

(* What updateAll reinstalls. *)
Targets(s) ==
    FlattenSeq([i \in 1..Len(s.installed) |->
      LET a == s.installed[i] IN
      IF a \in s.outdated \cap Known
      THEN <<a>> \o Among(s.installed, Dependents(a)) ELSE <<>>])

LEMMA TargetsFacts ==
    ASSUME NEW s \in States
    PROVE  /\ Targets(s) \in Seq(Apps)
           /\ ToSet(Targets(s)) =
                UNION {{a} \cup (ToSet(s.installed) \cap Dependents(a)) :
                         a \in ToSet(s.installed) \cap s.outdated \cap Known}
<1> DEFINE q == s.installed
           of(a) == IF a \in s.outdated \cap Known
                    THEN <<a>> \o Among(q, Dependents(a)) ELSE <<>>
           seqs == [i \in 1..Len(q) |-> of(q[i])]
<1>1. /\ q \in Seq(Apps) /\ Len(q) \in Nat /\ DOMAIN q = 1..Len(q)
      /\ \A i \in 1..Len(q) : q[i] \in Apps
  BY StateFields
<1> HIDE DEF q
<1>2. ASSUME NEW a \in Apps
      PROVE  /\ of(a) \in Seq(Apps)
             /\ ToSet(of(a)) = IF a \in s.outdated \cap Known
                               THEN {a} \cup (ToSet(q) \cap Dependents(a)) ELSE {}
  <2> DEFINE p == Among(q, Dependents(a))
  <2>1. p \in Seq(Apps) /\ ToSet(p) = ToSet(q) \cap Dependents(a)
    BY <1>1, AmongFacts
  <2> DEFINE b == <<a>>
  <2>2. b \in Seq(Apps) /\ ToSet(b) = {a}
    BY DEF ToSet
  <2> HIDE DEF p, b
  <2>3. b \o p \in Seq(Apps) /\ ToSet(b \o p) = {a} \cup ToSet(p)
    BY <2>1, <2>2, ConcatFacts
  <2>4. of(a) = IF a \in s.outdated \cap Known THEN b \o p ELSE <<>>
    BY DEF b, p
  <2> HIDE DEF of
  <2> QED
    BY <2>1, <2>3, <2>4, EmptyQueue
<1> HIDE DEF of
<1>3. seqs \in Seq(Seq(Apps)) /\ Len(seqs) = Len(q) /\ \A i \in 1..Len(q) : seqs[i] = of(q[i])
  <2>1. \A i \in 1..Len(q) : of(q[i]) \in Seq(Apps)
    BY <1>1, <1>2
  <2>2. seqs \in [1..Len(q) -> Seq(Apps)]
    BY <2>1
  <2> QED
    BY <1>1, <2>2
<1>4. Targets(s) = FlattenSeq(seqs)
  BY DEF Targets, of, q
<1> HIDE DEF seqs
<1>5. /\ FlattenSeq(seqs) \in Seq(Apps)
      /\ ToSet(FlattenSeq(seqs)) = UNION {ToSet(seqs[i]) : i \in 1..Len(q)}
  BY <1>3, FlattenFacts
<1>6. ToSet(q) = {q[i] : i \in 1..Len(q)}
  BY <1>1 DEF ToSet
<1>7. \A i \in 1..Len(q) : ToSet(seqs[i]) =
          IF q[i] \in s.outdated \cap Known
          THEN {q[i]} \cup (ToSet(q) \cap Dependents(q[i])) ELSE {}
  BY <1>1, <1>2, <1>3
<1>8. UNION {ToSet(seqs[i]) : i \in 1..Len(q)} =
        UNION {{a} \cup (ToSet(q) \cap Dependents(a)) : a \in ToSet(q) \cap s.outdated \cap Known}
  <2>1. ASSUME NEW x \in UNION {ToSet(seqs[i]) : i \in 1..Len(q)}
        PROVE  x \in UNION {{a} \cup (ToSet(q) \cap Dependents(a)) :
                              a \in ToSet(q) \cap s.outdated \cap Known}
    <3>1. PICK i \in 1..Len(q) : x \in ToSet(seqs[i])
      BY <2>1
    <3>2. q[i] \in ToSet(q) \cap s.outdated \cap Known
          /\ x \in {q[i]} \cup (ToSet(q) \cap Dependents(q[i]))
      BY <1>6, <1>7, <3>1
    <3> QED
      BY <3>2
  <2>2. ASSUME NEW a \in ToSet(q) \cap s.outdated \cap Known,
               NEW x \in {a} \cup (ToSet(q) \cap Dependents(a))
        PROVE  x \in UNION {ToSet(seqs[i]) : i \in 1..Len(q)}
    <3>1. PICK i \in 1..Len(q) : q[i] = a
      BY <1>6
    <3>2. x \in ToSet(seqs[i])
      BY <1>7, <2>2, <3>1
    <3> QED
      BY <3>2
  <2> QED
    BY <2>1, <2>2
<1> QED
  BY <1>4, <1>5, <1>8 DEF q

(* The actions of the user change the queues only, and keep them in order.    *)
QueuesOnly(s, t) ==
    /\ t.installed = s.installed /\ t.outdated = s.outdated
    /\ t.currentAppOp = s.currentAppOp

LEMMA InstallFacts ==
    ASSUME NEW s, Good(s), NEW name \in Known
    PROVE  /\ Good(install(s, name)) /\ QueuesOnly(s, install(s, name))
           /\ install(s, name).updateAllQueue = s.updateAllQueue
           /\ NothingToInstall(s, name) => install(s, name) = s
           /\ s.uninstallQueue = <<>> /\ ~NothingToInstall(s, name)
                => /\ ToSet(install(s, name).installQueue) =
                        ToSet(s.installQueue) \cup Around(s, name)
                          \cup (Deps[name] \ ToSet(s.installed)) \cup {name}
                   /\ ToSet(install(s, name).uninstallQueue) = Around(s, name)
<1>1. CASE NothingToInstall(s, name)
  BY <1>1 DEF install, QueuesOnly
<1>2. CASE ~NothingToInstall(s, name)
  <2> DEFINE outdated == OutdatedAround(s, name)
             kept == Without(s.uninstallQueue, {name} \cup Deps[name])
             cancels == kept # s.uninstallQueue
             plan == Append(s.installQueue \o outdated \o MissingDeps(s, name), name)
             i == reorderInstallQueue(IF cancels THEN s.installQueue ELSE plan)
             u == reorderUninstallQueue(IF cancels THEN kept ELSE kept \o outdated)
  <2>1. /\ s \in States /\ name \in Apps
        /\ s.installQueue \in Seq(Apps) /\ s.uninstallQueue \in Seq(Apps)
    BY StateFields DEF Good, Apps
  <2>2. outdated \in Seq(Apps) /\ ToSet(outdated) = Around(s, name)
    BY <2>1, OutdatedAroundFacts
  <2>3. /\ MissingDeps(s, name) \in Seq(Apps)
        /\ ToSet(MissingDeps(s, name)) = Deps[name] \ ToSet(s.installed)
    BY <2>1, MissingDepsFacts
  <2>4. /\ kept \in Seq(Apps)
        /\ ToSet(kept) = ToSet(s.uninstallQueue) \ ({name} \cup Deps[name])
    BY <2>1, WithoutFacts
  <2>5. install(s, name) = [s EXCEPT !.currentError = NoOp, !.installQueue = i,
                                     !.uninstallQueue = u]
    BY <1>2 DEF install
  <2> HIDE DEF outdated, kept
  <2>6. /\ plan \in Seq(Apps)
        /\ ToSet(plan) = ToSet(s.installQueue) \cup Around(s, name)
                           \cup (Deps[name] \ ToSet(s.installed)) \cup {name}
    <3> DEFINE p == s.installQueue \o outdated
               q == p \o MissingDeps(s, name)
    <3>1. p \in Seq(Apps) /\ ToSet(p) = ToSet(s.installQueue) \cup ToSet(outdated)
      BY <2>1, <2>2, ConcatFacts
    <3> HIDE DEF p
    <3>2. q \in Seq(Apps) /\ ToSet(q) = ToSet(p) \cup ToSet(MissingDeps(s, name))
      BY <2>3, <3>1, ConcatFacts
    <3>3. plan = Append(q, name)
      BY DEF p
    <3> HIDE DEF q, plan
    <3>4. Append(q, name) \in Seq(Apps) /\ ToSet(Append(q, name)) = ToSet(q) \cup {name}
      BY <2>1, <3>2, AppendFacts
    <3> QED
      BY <2>2, <2>3, <3>1, <3>2, <3>3, <3>4
  <2>7. /\ kept \o outdated \in Seq(Apps)
        /\ ToSet(kept \o outdated) = ToSet(kept) \cup Around(s, name)
    BY <2>2, <2>4, ConcatFacts
  <2> HIDE DEF plan
  <2>8. /\ i \in Seq(Apps) /\ Sorted(i, DepsFirst)
        /\ ToSet(i) = ToSet(IF cancels THEN s.installQueue ELSE plan)
    BY <2>1, <2>6, ReorderFacts
  <2>9. /\ u \in Seq(Apps) /\ Sorted(u, DepsLast)
        /\ ToSet(u) = ToSet(IF cancels THEN kept ELSE kept \o outdated)
    BY <2>4, <2>7, ReorderUninstallFacts
  <2> HIDE DEF i, u
  <2>10. /\ Good(install(s, name)) /\ QueuesOnly(s, install(s, name))
         /\ install(s, name).updateAllQueue = s.updateAllQueue
         /\ install(s, name).installQueue = i /\ install(s, name).uninstallQueue = u
    BY <2>1, <2>5, <2>8, <2>9 DEF Good, States, QueuesOnly
  <2>11. s.uninstallQueue = <<>> => ToSet(kept) = {} /\ ~cancels
    <3> HAVE s.uninstallQueue = <<>>
    <3>1. ToSet(kept) = {}
      BY <2>4, EmptyQueue
    <3>2. kept = <<>>
      BY <2>4, <3>1, ToSetIs
    <3> QED
      BY <3>1, <3>2
  <2> QED
    BY <1>2, <2>6, <2>7, <2>8, <2>9, <2>10, <2>11
<1> QED
  BY <1>1, <1>2

LEMMA UninstallFacts ==
    ASSUME NEW s, Good(s), NEW name \in Apps, NEW force \in BOOLEAN
    PROVE  LET t == uninstall(s, name, force) IN
           /\ Good(t) /\ QueuesOnly(s, t)
           /\ t.updateAllQueue = s.updateAllQueue
           /\ s.uninstallQueue = <<>> =>
                /\ ToSet(t.installQueue) = ToSet(s.installQueue) \ {name}
                /\ \/ /\ ToSet(t.uninstallQueue) =
                           {name} \cup (Dependents(name) \cap ToSet(s.installed))
                   \/ t.uninstallQueue = <<>> /\ name \notin ToSet(s.installed)
<1> DEFINE t == uninstall(s, name, force)
<1>1. CASE Contains(s.uninstallQueue, name)
  <2>1. s.uninstallQueue # <<>>
    BY <1>1 DEF Contains
  <2> QED
    BY <1>1, <2>1 DEF uninstall, QueuesOnly
<1>2. CASE ~Contains(s.uninstallQueue, name)
  <2> DEFINE removed == InstalledDependents(s, name)
             i == Without(s.installQueue, {name})
             p == s.uninstallQueue \o removed
             u == reorderUninstallQueue(Append(p, name))
             plans == IsInstalled(s, name) \/ IsInstalled(s, Nameless) \/ force
  <2>1. /\ s \in States /\ s.installed \in Seq(Apps)
        /\ s.installQueue \in Seq(Apps) /\ s.uninstallQueue \in Seq(Apps)
    BY StateFields DEF Good
  <2>2. removed \in Seq(Apps) /\ ToSet(removed) = Dependents(name) \cap ToSet(s.installed)
    BY <2>1, InstalledDependentsFacts
  <2>3. t = [s EXCEPT !.currentError = NoOp, !.installQueue = i,
                      !.uninstallQueue = IF plans THEN u ELSE s.uninstallQueue]
    BY <1>2 DEF uninstall
  <2>4. /\ i \in Seq(Apps) /\ ToSet(i) = ToSet(s.installQueue) \ {name}
        /\ Sorted(i, DepsFirst)
    BY <2>1, WithoutFacts DEF Good
  <2> HIDE DEF removed, i
  <2>5. p \in Seq(Apps) /\ ToSet(p) = ToSet(s.uninstallQueue) \cup ToSet(removed)
    BY <2>1, <2>2, ConcatFacts
  <2> HIDE DEF p
  <2>6. Append(p, name) \in Seq(Apps) /\ ToSet(Append(p, name)) = ToSet(p) \cup {name}
    BY <2>5, AppendFacts
  <2>7. /\ u \in Seq(Apps) /\ Sorted(u, DepsLast)
        /\ ToSet(u) = ToSet(Append(p, name))
    BY <2>6, ReorderUninstallFacts
  <2> HIDE DEF u, t, plans
  <2>8. /\ t.installQueue = i /\ t.updateAllQueue = s.updateAllQueue /\ QueuesOnly(s, t)
        /\ t.uninstallQueue = IF plans THEN u ELSE s.uninstallQueue
        /\ t \in States
    BY <2>1, <2>3, <2>4, <2>7 DEF States, QueuesOnly
  <2>9. Good(t)
    BY <2>4, <2>7, <2>8 DEF Good
  <2>10. ~plans => name \notin ToSet(s.installed)
    BY <2>1, ToSetIs DEF plans, IsInstalled
  <2>11. s.uninstallQueue = <<>> =>
           ToSet(u) = {name} \cup (Dependents(name) \cap ToSet(s.installed))
    BY <2>2, <2>5, <2>6, <2>7, EmptyQueue
  <2> QED
    BY <2>4, <2>8, <2>9, <2>10, <2>11 DEF t
<1> QED
  BY <1>1, <1>2

LEMMA WipeFacts ==
    ASSUME NEW s, Good(s)
    PROVE  /\ Good(wipe(s)) /\ QueuesOnly(s, wipe(s))
           /\ wipe(s).updateAllQueue = s.updateAllQueue
           /\ wipe(s).installQueue = <<>>
           /\ ToSet(wipe(s).uninstallQueue) = ToSet(s.installed)
<1>1. s \in States /\ s.installed \in Seq(Apps)
  BY StateFields DEF Good
<1>2. PICK u \in Seq(Apps) : /\ u = reorderUninstallQueue(s.installed)
                             /\ ToSet(u) = ToSet(s.installed) /\ Sorted(u, DepsLast)
  BY <1>1, ReorderUninstallFacts
<1>3. wipe(s) = [s EXCEPT !.currentError = NoOp, !.installQueue = <<>>, !.uninstallQueue = u]
  BY <1>2 DEF wipe
<1> QED
  BY <1>1, <1>2, <1>3, EmptyQueue DEF Good, States, QueuesOnly

LEMMA UpdateAllFacts ==
    ASSUME NEW s, Good(s)
    PROVE  /\ Good(updateAll(s)) /\ QueuesOnly(s, updateAll(s))
           /\ updateAll(s).updateAllQueue = updateAll(s).installQueue
           /\ s.installQueue = <<>> /\ s.uninstallQueue = <<>> =>
                /\ ToSet(updateAll(s).installQueue) = ToSet(Targets(s))
                /\ ToSet(updateAll(s).uninstallQueue) = ToSet(Targets(s))
<1> DEFINE p == s.installQueue \o Targets(s)
           q == s.uninstallQueue \o Targets(s)
<1>1. /\ s \in States
      /\ s.installQueue \in Seq(Apps) /\ s.uninstallQueue \in Seq(Apps)
  BY StateFields DEF Good
<1>2. Targets(s) \in Seq(Apps)
  BY <1>1, TargetsFacts
<1>3. /\ p \in Seq(Apps) /\ ToSet(p) = ToSet(s.installQueue) \cup ToSet(Targets(s))
      /\ q \in Seq(Apps) /\ ToSet(q) = ToSet(s.uninstallQueue) \cup ToSet(Targets(s))
  BY <1>1, <1>2, ConcatFacts
<1>4. updateAll(s) = [s EXCEPT !.currentError = NoOp, !.installQueue = reorderInstallQueue(p),
                               !.uninstallQueue = reorderUninstallQueue(q),
                               !.updateAllQueue = reorderInstallQueue(p)]
  BY DEF updateAll, Targets
<1> HIDE DEF p, q
<1>5. PICK i \in Seq(Apps) : /\ i = reorderInstallQueue(p)
                             /\ ToSet(i) = ToSet(p) /\ Sorted(i, DepsFirst)
  BY <1>3, ReorderFacts
<1>6. PICK u \in Seq(Apps) : /\ u = reorderUninstallQueue(q)
                             /\ ToSet(u) = ToSet(q) /\ Sorted(u, DepsLast)
  BY <1>3, ReorderUninstallFacts
<1>7. updateAll(s) = [s EXCEPT !.currentError = NoOp, !.installQueue = i,
                               !.uninstallQueue = u, !.updateAllQueue = i]
  BY <1>4, <1>5, <1>6
<1>8. /\ Good(updateAll(s)) /\ QueuesOnly(s, updateAll(s))
      /\ updateAll(s).updateAllQueue = i /\ updateAll(s).installQueue = i
      /\ updateAll(s).uninstallQueue = u
  BY <1>1, <1>5, <1>6, <1>7 DEF Good, States, QueuesOnly
<1> QED
  BY <1>3, <1>5, <1>6, <1>8, EmptyQueue

LEMMA ReducerFacts ==
    ASSUME NEW s, Good(s), NEW action \in UserActions
    PROVE  /\ Good(reducer(s, action)) /\ QueuesOnly(s, reducer(s, action))
           /\ \/ reducer(s, action).updateAllQueue = s.updateAllQueue
              \/ reducer(s, action).updateAllQueue = reducer(s, action).installQueue
<1>1. CASE action.type = "install"
  <2>1. action.name \in Known /\ reducer(s, action) = install(s, action.name)
    BY <1>1 DEF UserActions, reducer
  <2> QED
    BY <2>1, InstallFacts
<1>2. ASSUME NEW force \in BOOLEAN, action.type = IF force THEN "force uninstall" ELSE "uninstall"
      PROVE  /\ action.name \in Apps
             /\ reducer(s, action) = uninstall(s, action.name, force)
             /\ Good(reducer(s, action)) /\ QueuesOnly(s, reducer(s, action))
             /\ reducer(s, action).updateAllQueue = s.updateAllQueue
  <2>1. action.name \in Apps
    BY <1>2 DEF UserActions
  <2>2. reducer(s, action) = uninstall(s, action.name, force)
    BY <1>2 DEF reducer
  <2> QED
    BY <2>1, <2>2, UninstallFacts
<1>3. CASE action.type = "wipe"
  <2>1. reducer(s, action) = wipe(s)
    BY <1>3 DEF reducer
  <2> QED
    BY <2>1, WipeFacts
<1>4. CASE action.type = "updateAll"
  <2>1. reducer(s, action) = updateAll(s)
    BY <1>4 DEF reducer
  <2> QED
    BY <2>1, UpdateAllFacts
<1>5. CASE action.type = "recover"
  <2>1. reducer(s, action) = [s EXCEPT !.currentError = NoOp]
    BY <1>5 DEF reducer, recover
  <2> QED
    BY <2>1 DEF Good, States, QueuesOnly
<1>6. action.type \in {"install", "uninstall", "force uninstall", "wipe", "updateAll", "recover"}
  BY DEF UserActions
<1> QED
  BY <1>1, <1>2, <1>3, <1>4, <1>5, <1>6

LEMMA OpFacts ==
    /\ \A op \in Ops : op.type \in {"install", "uninstall"} /\ op.name \in Apps /\ op # NoOp
    /\ \A a \in Apps : Install(a) \in Ops /\ Uninstall(a) \in Ops
    /\ NoOp \notin Ops
<1>1. ASSUME NEW op \in Ops PROVE op.type \in {"install", "uninstall"} /\ op.name \in Apps
  <2>1. PICK a \in Apps : op = Install(a) \/ op = Uninstall(a)
    BY DEF Ops
  <2>2. /\ Install(a).type = "install" /\ Install(a).name = a
        /\ Uninstall(a).type = "uninstall" /\ Uninstall(a).name = a
    BY DEF Install, Uninstall
  <2> QED
    BY <2>1, <2>2
<1>2. NoOp.type = "none"
  BY DEF NoOp
<1>3. \A a \in Apps : Install(a) \in Ops /\ Uninstall(a) \in Ops
  BY DEF Ops
<1> QED
  BY <1>1, <1>2, <1>3

(* The end of an operation. *)
LEMMA RunSuccessFacts ==
    ASSUME NEW s \in States, NEW op \in Ops
    PROVE  LET t == runSuccess(s, op) IN
           /\ t \in States /\ t.currentAppOp = NoOp /\ t.currentError = NoOp
           /\ t.outdated = s.outdated \ {op.name}
           /\ t.updateAllQueue = IF t.installQueue = <<>> /\ t.uninstallQueue = <<>>
                                 THEN <<>> ELSE s.updateAllQueue
           /\ op.type = "install" =>
                /\ ToSet(t.installed) = ToSet(s.installed) \cup {op.name}
                /\ t.uninstallQueue = s.uninstallQueue
                /\ t.installQueue = Without(s.installQueue, {op.name})
           /\ op.type = "uninstall" =>
                /\ ToSet(t.installed) = ToSet(s.installed) \ {op.name}
                /\ t.installQueue = s.installQueue
                /\ t.uninstallQueue = Without(s.uninstallQueue, {op.name})
<1> DEFINE t == runSuccess(s, op)
           a == op.name
           rest == Without(s.installed, {a})
           i == Without(s.installQueue, {a})
           u == Without(s.uninstallQueue, {a})
<1>1. op.type \in {"install", "uninstall"} /\ a \in Apps
  BY OpFacts
<1>2. /\ rest \in Seq(Apps) /\ ToSet(rest) = ToSet(s.installed) \ {a}
      /\ i \in Seq(Apps) /\ u \in Seq(Apps)
  BY StateFields, WithoutFacts
<1>3. t = EndUpdateAll(
            IF op.type = "install"
            THEN [s EXCEPT !.currentAppOp = NoOp, !.currentError = NoOp,
                           !.outdated = @ \ {a}, !.installed = Append(rest, a),
                           !.installQueue = i]
            ELSE [s EXCEPT !.currentAppOp = NoOp, !.currentError = NoOp,
                           !.outdated = @ \ {a}, !.installed = rest,
                           !.uninstallQueue = u])
  BY DEF runSuccess, States
<1> HIDE DEF t, a, rest, i, u
<1>4. Append(rest, a) \in Seq(Apps) /\ ToSet(Append(rest, a)) = ToSet(s.installed) \cup {a}
  <2>1. Append(rest, a) \in Seq(Apps) /\ ToSet(Append(rest, a)) = ToSet(rest) \cup {a}
    BY <1>1, <1>2, AppendFacts
  <2> QED
    BY <1>2, <2>1
<1>5. ASSUME NEW r \in States
      PROVE  /\ EndUpdateAll(r) \in States
             /\ EndUpdateAll(r).updateAllQueue =
                  IF r.installQueue = <<>> /\ r.uninstallQueue = <<>> THEN <<>>
                  ELSE r.updateAllQueue
             /\ EndUpdateAll(r).installed = r.installed
             /\ EndUpdateAll(r).outdated = r.outdated
             /\ EndUpdateAll(r).installQueue = r.installQueue
             /\ EndUpdateAll(r).uninstallQueue = r.uninstallQueue
             /\ EndUpdateAll(r).currentAppOp = r.currentAppOp
             /\ EndUpdateAll(r).currentError = r.currentError
  BY EmptyQueue DEF EndUpdateAll, States
<1>6. CASE op.type = "install"
  <2> DEFINE r == [s EXCEPT !.currentAppOp = NoOp, !.currentError = NoOp,
                            !.outdated = @ \ {a}, !.installed = Append(rest, a),
                            !.installQueue = i]
  <2>1. /\ r \in States /\ r.currentAppOp = NoOp /\ r.currentError = NoOp
        /\ r.outdated = s.outdated \ {a} /\ r.installed = Append(rest, a)
        /\ r.installQueue = i /\ r.uninstallQueue = s.uninstallQueue
        /\ r.updateAllQueue = s.updateAllQueue
    BY <1>2, <1>4 DEF States
  <2>2. t = EndUpdateAll(r)
    BY <1>3, <1>6
  <2> HIDE DEF r
  <2> QED
    BY <1>4, <1>5, <1>6, <2>1, <2>2, ZenonT(60) DEF t, a, i
<1>7. CASE op.type = "uninstall"
  <2> DEFINE r == [s EXCEPT !.currentAppOp = NoOp, !.currentError = NoOp,
                            !.outdated = @ \ {a}, !.installed = rest,
                            !.uninstallQueue = u]
  <2>1. /\ r \in States /\ r.currentAppOp = NoOp /\ r.currentError = NoOp
        /\ r.outdated = s.outdated \ {a} /\ r.installed = rest
        /\ r.uninstallQueue = u /\ r.installQueue = s.installQueue
        /\ r.updateAllQueue = s.updateAllQueue
    BY <1>2 DEF States
  <2>2. t = EndUpdateAll(r)
    BY <1>3, <1>7
  <2> HIDE DEF r
  <2> QED
    BY <1>2, <1>5, <1>7, <2>1, <2>2 DEF t, a, u
<1> QED
  BY <1>1, <1>6, <1>7 DEF a

LEMMA RunSuccessGood ==
    ASSUME NEW s, Good(s), NEW op \in Ops
    PROVE  Good(runSuccess(s, op))
<1>1. s \in States /\ s.installQueue \in Seq(Apps) /\ s.uninstallQueue \in Seq(Apps)
  BY StateFields DEF Good
<1>2. /\ Sorted(Without(s.installQueue, {op.name}), DepsFirst)
      /\ Sorted(Without(s.uninstallQueue, {op.name}), DepsLast)
  BY <1>1, WithoutFacts DEF Good
<1>3. op.type \in {"install", "uninstall"}
  BY OpFacts
<1> QED
  BY <1>1, <1>2, <1>3, RunSuccessFacts DEF Good

(* The plan and its first operation. *)
LEMMA NextOpFacts ==
    ASSUME NEW s \in States
    PROVE  /\ s.uninstallQueue # <<>> => getNextAppOp(s) = Uninstall(s.uninstallQueue[1])
           /\ s.uninstallQueue = <<>> /\ s.installQueue # <<>>
                => getNextAppOp(s) = Install(s.installQueue[1])
           /\ getNextAppOp(s) = NoOp <=> s.uninstallQueue = <<>> /\ s.installQueue = <<>>
           /\ getActionPlan(s) = <<>> <=> s.uninstallQueue = <<>> /\ s.installQueue = <<>>
           /\ getNextAppOp(s) \in Ops \cup {NoOp}
<1> DEFINE u == s.uninstallQueue
           i == s.installQueue
           pu == [j \in 1..Len(u) |-> Uninstall(u[j])]
           pi == [j \in 1..Len(i) |-> Install(i[j])]
<1>1. u \in Seq(Apps) /\ i \in Seq(Apps)
  BY StateFields
<1> HIDE DEF u, i
<1>2. /\ Len(u) \in Nat /\ (u = <<>> <=> Len(u) = 0) /\ \A j \in 1..Len(u) : u[j] \in Apps
      /\ Len(i) \in Nat /\ (i = <<>> <=> Len(i) = 0) /\ \A j \in 1..Len(i) : i[j] \in Apps
  BY <1>1
<1>3. /\ pu \in Seq(Ops) /\ Len(pu) = Len(u) /\ \A j \in 1..Len(u) : pu[j] = Uninstall(u[j])
      /\ pi \in Seq(Ops) /\ Len(pi) = Len(i) /\ \A j \in 1..Len(i) : pi[j] = Install(i[j])
  BY <1>2, OpFacts
<1>4. getActionPlan(s) = pu \o pi
  BY DEF getActionPlan, u, i
<1> HIDE DEF pu, pi
<1>5. /\ pu \o pi \in Seq(Ops) /\ Len(pu \o pi) = Len(u) + Len(i)
      /\ u # <<>> => (pu \o pi)[1] = pu[1]
      /\ u = <<>> /\ i # <<>> => (pu \o pi)[1] = pi[1]
  BY <1>2, <1>3
<1>6. pu \o pi = <<>> <=> u = <<>> /\ i = <<>>
  <2>1. pu \o pi = <<>> <=> Len(pu \o pi) = 0
    BY <1>5
  <2> QED
    BY <1>2, <1>5, <2>1
<1>7. /\ u # <<>> => 1 \in 1..Len(u) /\ u[1] \in Apps
      /\ i # <<>> => 1 \in 1..Len(i) /\ i[1] \in Apps
  BY <1>2
<1>8. getNextAppOp(s) = IF pu \o pi = <<>> THEN NoOp ELSE (pu \o pi)[1]
  BY <1>4 DEF getNextAppOp
<1>9. CASE u # <<>>
  BY <1>3, <1>4, <1>5, <1>6, <1>7, <1>8, <1>9, OpFacts DEF u, i
<1>10. CASE u = <<>> /\ i # <<>>
  BY <1>3, <1>4, <1>5, <1>6, <1>7, <1>8, <1>10, OpFacts DEF u, i
<1>11. CASE u = <<>> /\ i = <<>>
  BY <1>4, <1>6, <1>8, <1>11 DEF u, i
<1> QED
  BY <1>9, <1>10, <1>11

-----------------------------------------------------------------------------
(* The applications to restore, and the prediction, one operation at a time. *)
Fresh(installed, outdated) ==
    [installed |-> installed, outdated |-> outdated, installQueue |-> <<>>,
     uninstallQueue |-> <<>>, updateAllQueue |-> <<>>,
     currentAppOp |-> NoOp, currentError |-> NoOp]

GoodStates == {s \in States : Good(s)}

LEMMA FreshIsGood ==
    ASSUME NEW installed \in Seq(Apps), NEW outdated \in SUBSET Apps
    PROVE  Fresh(installed, outdated) \in GoodStates
  BY EmptyQueue DEF Fresh, GoodStates, Good, States

LEMMA InstallSteps ==
    ASSUME NEW b0 \in GoodStates, NEW apps \in Seq(Known)
    PROVE  \E k \in [0..Len(apps) -> GoodStates] :
             /\ k[0] = b0
             /\ \A i \in 1..Len(apps) : k[i] = install(k[i-1], apps[i])
             /\ FoldLeft(install, b0, apps) = k[Len(apps)]
<1>0. PICK n \in Nat : n = Len(apps) /\ DOMAIN apps = 1..n /\ \A i \in 1..n : apps[i] \in Known
  OBVIOUS
<1>1. PICK W : W = GoodStates
  OBVIOUS
<1>2. PICK b : b = b0 /\ b \in W
  BY <1>1
<1> DEFINE next(q, i) == install(q, apps[i])
           Eq(it) == it = [s \in SUBSET DOMAIN apps |->
                             IF s = {} THEN b0
                             ELSE install(it[s \ {Max(s)}], apps[Max(s)])]
<1>3. \A i \in 1..n : \A q \in W : next(q, i) \in W
  BY <1>0, <1>1, InstallFacts DEF GoodStates, Good
<1> HIDE DEF next
<1>4. PICK F \in [1..n -> [W -> W]] : \A i \in 1..n : \A q \in W : F[i][q] = next(q, i)
  <2> DEFINE F == [i \in 1..n |-> [q \in W |-> next(q, i)]]
  <2>1. F \in [1..n -> [W -> W]]
    BY <1>3
  <2>2. \A i \in 1..n : \A q \in W : F[i][q] = next(q, i)
    OBVIOUS
  <2> HIDE DEF F
  <2> QED
    BY <2>1, <2>2
<1>5. PICK g \in Foldings(W, b, n, F) : TRUE
  BY <1>2, FoldExists
<1>6. ASSUME NEW s \in SUBSET (1..n), s # {}
      PROVE  Max(s) \in 1..n /\ g[s] = next(g[s \ {Max(s)}], Max(s))
  <2>1. Max(s) \in 1..n
    BY <1>6, MaxIn
  <2>2. g[s \ {Max(s)}] \in W /\ g[s] = F[Max(s)][g[s \ {Max(s)}]]
    BY <1>5, <1>6 DEF Foldings
  <2> QED
    BY <1>4, <2>1, <2>2
<1>7. PICK it : Eq(it) /\ FoldLeft(install, b0, apps) = it[DOMAIN apps]
  <2>1. Eq(g)
    BY <1>0, <1>2, <1>5, <1>6 DEF next, Foldings
  <2> QED
    BY <2>1 DEF FoldLeft, MapThenFoldSet
<1>8. FoldsBy(it, W, b, n, F)
  <2>1. ASSUME NEW s \in SUBSET (1..n), s # {}, it[s \ {Max(s)}] \in W
        PROVE  it[s] = F[Max(s)][it[s \ {Max(s)}]]
    <3>1. it[s] = next(it[s \ {Max(s)}], Max(s))
      BY <1>0, <1>7, <2>1 DEF next
    <3> QED
      BY <1>4, <1>6, <2>1, <3>1
  <2>2. it[{}] = b
    BY <1>0, <1>2, <1>7
  <2> QED
    BY <2>1, <2>2 DEF FoldsBy
<1>9. PICK k \in StepsBy(W, b, n, F) : it[1..n] = k[n]
  BY <1>2, <1>8, FoldSteps
<1>10. k \in [0..n -> W] /\ k[0] = b /\ \A i \in 1..n : k[i] = F[i][k[i-1]]
  BY <1>9 DEF StepsBy
<1>11. ASSUME NEW i \in 1..n PROVE k[i] = next(k[i-1], i)
  <2>1. k[i-1] \in W
    BY <1>10
  <2> QED
    BY <1>4, <1>10, <2>1
<1> QED
  BY <1>0, <1>1, <1>2, <1>7, <1>9, <1>10, <1>11 DEF next

LEMMA SuccessSteps ==
    ASSUME NEW b0 \in States, NEW plan \in Seq(Ops)
    PROVE  \E k \in [0..Len(plan) -> States] :
             /\ k[0] = b0
             /\ \A i \in 1..Len(plan) : k[i] = runSuccess(k[i-1], plan[i])
             /\ FoldLeft(runSuccess, b0, plan) = k[Len(plan)]
<1>0. PICK n \in Nat : n = Len(plan) /\ DOMAIN plan = 1..n /\ \A i \in 1..n : plan[i] \in Ops
  OBVIOUS
<1>1. PICK W : W = States
  OBVIOUS
<1>2. PICK b : b = b0 /\ b \in W
  BY <1>1
<1> DEFINE next(q, i) == runSuccess(q, plan[i])
           Eq(it) == it = [s \in SUBSET DOMAIN plan |->
                             IF s = {} THEN b0
                             ELSE runSuccess(it[s \ {Max(s)}], plan[Max(s)])]
<1>3. \A i \in 1..n : \A q \in W : next(q, i) \in W
  BY <1>0, <1>1, RunSuccessFacts
<1> HIDE DEF next
<1>4. PICK F \in [1..n -> [W -> W]] : \A i \in 1..n : \A q \in W : F[i][q] = next(q, i)
  <2> DEFINE F == [i \in 1..n |-> [q \in W |-> next(q, i)]]
  <2>1. F \in [1..n -> [W -> W]]
    BY <1>3
  <2>2. \A i \in 1..n : \A q \in W : F[i][q] = next(q, i)
    OBVIOUS
  <2> HIDE DEF F
  <2> QED
    BY <2>1, <2>2
<1>5. PICK g \in Foldings(W, b, n, F) : TRUE
  BY <1>2, FoldExists
<1>6. ASSUME NEW s \in SUBSET (1..n), s # {}
      PROVE  Max(s) \in 1..n /\ g[s] = next(g[s \ {Max(s)}], Max(s))
  <2>1. Max(s) \in 1..n
    BY <1>6, MaxIn
  <2>2. g[s \ {Max(s)}] \in W /\ g[s] = F[Max(s)][g[s \ {Max(s)}]]
    BY <1>5, <1>6 DEF Foldings
  <2> QED
    BY <1>4, <2>1, <2>2
<1>7. PICK it : Eq(it) /\ FoldLeft(runSuccess, b0, plan) = it[DOMAIN plan]
  <2>1. Eq(g)
    BY <1>0, <1>2, <1>5, <1>6 DEF next, Foldings
  <2> QED
    BY <2>1 DEF FoldLeft, MapThenFoldSet
<1>8. FoldsBy(it, W, b, n, F)
  <2>1. ASSUME NEW s \in SUBSET (1..n), s # {}, it[s \ {Max(s)}] \in W
        PROVE  it[s] = F[Max(s)][it[s \ {Max(s)}]]
    <3>1. it[s] = next(it[s \ {Max(s)}], Max(s))
      BY <1>0, <1>7, <2>1 DEF next
    <3> QED
      BY <1>4, <1>6, <2>1, <3>1
  <2>2. it[{}] = b
    BY <1>0, <1>2, <1>7
  <2> QED
    BY <2>1, <2>2 DEF FoldsBy
<1>9. PICK k \in StepsBy(W, b, n, F) : it[1..n] = k[n]
  BY <1>2, <1>8, FoldSteps
<1>10. k \in [0..n -> W] /\ k[0] = b /\ \A i \in 1..n : k[i] = F[i][k[i-1]]
  BY <1>9 DEF StepsBy
<1>11. ASSUME NEW i \in 1..n PROVE k[i] = next(k[i-1], i)
  <2>1. k[i-1] \in W
    BY <1>10
  <2> QED
    BY <1>4, <1>10, <2>1
<1> QED
  BY <1>0, <1>1, <1>2, <1>7, <1>9, <1>10, <1>11 DEF next

(* What initState leaves as in the first state, and its plan when nothing is  *)
(* outdated.                                                                 *)
Fits(s) ==
    LET I == ToSet(s.installQueue) IN
    /\ s.uninstallQueue = <<>>
    /\ I \subseteq Known /\ I \cap ToSet(s.installed) = {}
    /\ \A a \in I : Deps[a] \subseteq I \cup ToSet(s.installed)

Restoring(s, s0) ==
    /\ Good(s) /\ QueuesOnly(s0, s)
    /\ s.updateAllQueue = <<>>
    /\ s0.outdated = {} => Fits(s)

LEMMA RestoringStep ==
    ASSUME NEW s0, NEW s, Restoring(s, s0), NEW name \in Known
    PROVE  Restoring(install(s, name), s0)
<1> DEFINE t == install(s, name)
<1>1. /\ Good(t) /\ QueuesOnly(s, t) /\ t.updateAllQueue = s.updateAllQueue
      /\ NothingToInstall(s, name) => t = s
      /\ s.uninstallQueue = <<>> /\ ~NothingToInstall(s, name)
           => /\ ToSet(t.installQueue) =
                   ToSet(s.installQueue) \cup Around(s, name)
                     \cup (Deps[name] \ ToSet(s.installed)) \cup {name}
              /\ ToSet(t.uninstallQueue) = Around(s, name)
  BY InstallFacts DEF Restoring
<1> HIDE DEF t
<1>2. ASSUME s0.outdated = {} PROVE Fits(t)
  <2>1. CASE NothingToInstall(s, name)
    BY <1>1, <1>2, <2>1 DEF Restoring
  <2>2. CASE ~NothingToInstall(s, name)
    <3>1. s.uninstallQueue = <<>> /\ s.outdated = {} /\ t.installed = s.installed
      BY <1>1, <1>2 DEF Restoring, Fits, QueuesOnly
    <3>2. Around(s, name) = {}
      BY <3>1 DEF Around
    <3>3. t.uninstallQueue = <<>>
      <4>1. t.uninstallQueue \in Seq(Apps)
        BY <1>1, StateFields DEF Good
      <4> QED
        BY <1>1, <2>2, <3>1, <3>2, <4>1, ToSetIs
    <3>4. name \notin ToSet(s.installed)
      <4>1. s.installed \in Seq(Apps)
        BY StateFields DEF Restoring, Good
      <4> QED
        BY <2>2, <3>1, <4>1, ToSetIs DEF NothingToInstall, IsInstalled
    <3>5. Deps[name] \subseteq Known /\ \A d \in Deps[name] : Deps[d] = {}
      BY CatalogAssumption, OneLevelAssumption DEF Known
    <3>6. ToSet(t.installQueue) = ToSet(s.installQueue)
                                    \cup (Deps[name] \ ToSet(s.installed)) \cup {name}
      BY <1>1, <2>2, <3>1, <3>2
    <3>7. /\ ToSet(s.installQueue) \subseteq Known
          /\ ToSet(s.installQueue) \cap ToSet(s.installed) = {}
          /\ \A a \in ToSet(s.installQueue) :
               Deps[a] \subseteq ToSet(s.installQueue) \cup ToSet(s.installed)
      BY <1>2 DEF Restoring, Fits
    <3> QED
      BY <3>1, <3>3, <3>4, <3>5, <3>6, <3>7 DEF Fits
  <2> QED
    BY <2>1, <2>2
<1> QED
  BY <1>1, <1>2 DEF Restoring, QueuesOnly, t

LEMMA InitStateFacts ==
    ASSUME NEW installed \in Seq(Apps), NEW outdated \in SUBSET Apps, NEW restore \in Seq(Apps)
    PROVE  Restoring(initState(installed, outdated, restore), Fresh(installed, outdated))
<1> DEFINE apps == Without(Among(restore, Known), ToSet(installed))
           b == Fresh(installed, outdated)
<1>1. apps \in Seq(Known)
  <2> DEFINE p == Among(restore, Known)
  <2>1. p \in Seq(Apps) /\ ToSet(p) = ToSet(restore) \cap Known
    BY AmongFacts
  <2> HIDE DEF p
  <2>2. Without(p, ToSet(installed)) \in Seq(Apps)
        /\ ToSet(Without(p, ToSet(installed))) = ToSet(p) \ ToSet(installed)
    BY <2>1, WithoutFacts
  <2>3. apps \in Seq(Apps) /\ ToSet(apps) \subseteq Known
    BY <2>1, <2>2 DEF p
  <2> HIDE DEF apps
  <2> QED
    BY <2>3, SeqWithin
<1>2. initState(installed, outdated, restore) = FoldLeft(install, b, apps)
  BY DEF initState, Fresh
<1>3. b \in GoodStates
  BY FreshIsGood
<1> HIDE DEF apps, b
<1>4. PICK n \in Nat : n = Len(apps) /\ \A i \in 1..n : apps[i] \in Known
  BY <1>1
<1>5. PICK k \in [0..n -> GoodStates] :
        /\ k[0] = b
        /\ \A i \in 1..n : k[i] = install(k[i-1], apps[i])
        /\ FoldLeft(install, b, apps) = k[n]
  BY <1>1, <1>3, <1>4, InstallSteps
<1>6. Restoring(k[0], b)
  <2>1. /\ b.uninstallQueue = <<>> /\ b.installQueue = <<>> /\ b.updateAllQueue = <<>>
    BY DEF b, Fresh
  <2> QED
    BY <1>3, <1>5, <2>1, EmptyQueue DEF Restoring, QueuesOnly, GoodStates, Fits
<1>7. ASSUME NEW i \in 1..n, Restoring(k[i-1], b) PROVE Restoring(k[i], b)
  <2>1. k[i] = install(k[i-1], apps[i]) /\ apps[i] \in Known
    BY <1>4, <1>5
  <2> QED
    BY <1>7, <2>1, RestoringStep
<1>8. Restoring(k[n], b)
  <2> DEFINE T == {i \in 0..n : Restoring(k[i], b)}
  <2>1. 0 \in T
    BY <1>6
  <2>2. ASSUME NEW i \in 1..n, i - 1 \in T PROVE i \in T
    <3>1. Restoring(k[i-1], b) /\ i \in 0..n
      BY <2>2
    <3> QED
      BY <1>7, <3>1
  <2> HIDE DEF T
  <2>3. 0..n \subseteq T
    BY <2>1, <2>2, UpToInduction
  <2> QED
    BY <2>3 DEF T
<1> QED
  BY <1>2, <1>5, <1>8 DEF b

-----------------------------------------------------------------------------
(* What a rendered state is, whatever the device does: its queues are in      *)
(* order, an operation under way is that of a known application, and no       *)
(* "update all" outlives its queues.                                         *)
EndsUpdateAll(s) ==
    s.currentAppOp = NoOp /\ s.installQueue = <<>> /\ s.uninstallQueue = <<>>
      => s.updateAllQueue = <<>>

Sound(s) ==
    /\ Good(s) /\ EndsUpdateAll(s)
    /\ s.currentAppOp # NoOp => s.currentAppOp \in Ops /\ s.currentAppOp.name \in Known

Bounded ==
    /\ device \in [Apps -> {"absent", "outdated", "updated"}]
    /\ actions \in 0..MaxActions
    /\ disturbed \subseteq {"user", "mixed", "lost"}

Rendered ==
    /\ Sound(state) /\ Bounded
    /\ effect = IF state.currentAppOp = NoOp THEN getNextAppOp(state) ELSE NoOp

LEMMA RenderedImplies ==
    ASSUME Rendered
    PROVE  TypeOK /\ QueuesInOrder /\ NothingIsForgotten
<1>1. state \in States /\ effect \in Ops \cup {NoOp}
  BY NextOpFacts DEF Rendered, Sound, Good
<1>2. TypeOK
  BY <1>1 DEF TypeOK, Rendered, Bounded
<1>3. QueuesInOrder
  <2>1. state.installQueue \in Seq(Apps) /\ state.uninstallQueue \in Seq(Apps)
    BY <1>1, StateFields
  <2>2. InOrder(state.installQueue)
    BY <2>1, InOrderIsSorted DEF Rendered, Sound, Good
  <2>3. Reverse(state.uninstallQueue) \in Seq(Apps)
    BY <2>1, ReverseFacts
  <2>4. InOrder(Reverse(state.uninstallQueue))
    BY <2>1, <2>3, InOrderIsSorted, ReverseSorted DEF Rendered, Sound, Good
  <2> QED
    BY <2>2, <2>4 DEF QueuesInOrder
<1>4. NothingIsForgotten
  BY <1>1, NextOpFacts DEF NothingIsForgotten, Idle, Rendered, Sound, EndsUpdateAll
<1> QED
  BY <1>2, <1>3, <1>4

LEMMA RunSuccessSound ==
    ASSUME NEW s, Good(s), NEW op \in Ops
    PROVE  Sound(runSuccess(s, op))
<1> DEFINE t == runSuccess(s, op)
<1>1. /\ Good(t) /\ t.currentAppOp = NoOp
      /\ t.updateAllQueue = IF t.installQueue = <<>> /\ t.uninstallQueue = <<>>
                            THEN <<>> ELSE s.updateAllQueue
  BY RunSuccessFacts, RunSuccessGood DEF Good
<1> HIDE DEF t
<1>2. Sound(t)
  BY <1>1 DEF Sound, EndsUpdateAll
<1> QED
  BY <1>2 DEF t

LEMMA StartedFacts ==
    ASSUME NEW s, Good(s), NEW op \in Ops
    PROVE  /\ Sound(Started(s, op))
           /\ op.name \in Known => Started(s, op) = [s EXCEPT !.currentAppOp = op]
           /\ op.name \notin Known =>
                Started(s, op) = runSuccess([s EXCEPT !.currentAppOp = op], op)
<1> DEFINE r == [s EXCEPT !.currentAppOp = op]
<1>1. Good(r) /\ r.currentAppOp = op /\ r \in States
  BY DEF Good, States
<1>2. op # NoOp
  BY OpFacts
<1>3. Started(s, op) = IF op.name \in Known THEN r ELSE runSuccess(r, op)
  BY DEF Started, runStart
<1> HIDE DEF r
<1>4. Sound(Started(s, op))
  <2>1. CASE op.name \in Known
    BY <1>1, <1>2, <1>3, <2>1 DEF Sound, EndsUpdateAll
  <2>2. CASE op.name \notin Known
    BY <1>1, <1>3, <2>2, RunSuccessSound
  <2> QED
    BY <2>1, <2>2
<1> QED
  BY <1>3, <1>4 DEF r

LEMMA RunErrorFacts ==
    ASSUME NEW s, Good(s), NEW op \in Ops
    PROVE  /\ Sound(runError(s, op))
           /\ runError(s, op).installed = s.installed /\ runError(s, op).outdated = s.outdated
           /\ runError(s, op).installQueue = <<>> /\ runError(s, op).uninstallQueue = <<>>
           /\ runError(s, op).currentAppOp = NoOp /\ runError(s, op).currentError = op
  BY EmptyQueue DEF runError, Sound, EndsUpdateAll, Good, States

(* A dispatched action keeps the state sound.                                *)
LEMMA DispatchSound ==
    ASSUME Rendered, NEW action \in UserActions
    PROVE  Sound(IF effect = NoOp THEN reducer(state, action)
                 ELSE Started(reducer(state, action), effect))
<1> DEFINE r == reducer(state, action)
<1>1. /\ Good(r) /\ QueuesOnly(state, r)
      /\ r.updateAllQueue = state.updateAllQueue \/ r.updateAllQueue = r.installQueue
  BY ReducerFacts DEF Rendered, Sound
<1>2. state \in States /\ effect \in Ops \cup {NoOp}
  BY NextOpFacts DEF Rendered, Sound, Good
<1> HIDE DEF r
<1>3. CASE effect = NoOp
  <2>1. state.currentAppOp = NoOp => state.installQueue = <<>> /\ state.uninstallQueue = <<>>
    BY <1>2, <1>3, NextOpFacts DEF Rendered
  <2>2. EndsUpdateAll(r)
    BY <1>1, <2>1 DEF Rendered, Sound, EndsUpdateAll, QueuesOnly
  <2> QED
    BY <1>1, <1>3, <2>2 DEF Rendered, Sound, QueuesOnly, r
<1>4. CASE effect # NoOp
  BY <1>1, <1>2, <1>4, StartedFacts DEF r
<1> QED
  BY <1>3, <1>4

LEMMA StructureInitial == Init => Rendered
<1> SUFFICES ASSUME Init PROVE Rendered
  OBVIOUS
<1>1. PICK order \in InitialOrders, restore \in Restores :
        /\ device \in [Apps -> {"absent", "outdated", "updated"}]
        /\ state = initState(Among(order, OnDevice),
                             {a \in Apps : device[a] = "outdated"}, restore)
        /\ effect = getNextAppOp(state)
        /\ actions = 0
        /\ disturbed = {x \in {"mixed"} : effect # NoOp /\ state.outdated # {}}
  BY DEF Init
<1> DEFINE installed == Among(order, OnDevice)
           outdated == {a \in Apps : device[a] = "outdated"}
<1>2. installed \in Seq(Apps) /\ restore \in Seq(Apps) /\ outdated \in SUBSET Apps
  BY InitialAssumption, AmongFacts
<1> HIDE DEF installed, outdated
<1>3. Restoring(state, Fresh(installed, outdated))
  BY <1>1, <1>2, InitStateFacts DEF installed, outdated
<1>4. Sound(state) /\ state.currentAppOp = NoOp
  BY <1>3 DEF Restoring, QueuesOnly, Fresh, Sound, EndsUpdateAll
<1>5. Bounded
  BY <1>1, BoundAssumption DEF Bounded
<1> QED
  BY <1>1, <1>4, <1>5 DEF Rendered

LEMMA DisturbedFacts ==
    ASSUME NEW d, DisturbedBy(d)
    PROVE  /\ "lost" \notin disturbed' => "lost" \notin disturbed /\ "lost" \notin d
           /\ disturbed' = {} /\ ~(effect' = NoOp /\ state'.currentAppOp = NoOp)
                => disturbed = {} /\ d = {}
           /\ disturbed' \subseteq disturbed \cup d
  BY DEF DisturbedBy

LEMMA StructureStep == Rendered /\ [Next]_vars => Rendered'
<1> SUFFICES ASSUME Rendered, [Next]_vars PROVE Rendered'
  OBVIOUS
<1>1. state \in States /\ effect \in Ops \cup {NoOp} /\ Bounded /\ Good(state)
  BY NextOpFacts DEF Rendered, Sound, Good
<1>2. ASSUME NEW s, Render(s), Sound(s), Bounded' PROVE Rendered'
  BY <1>2 DEF Rendered, Render
<1>4. ASSUME NEW action \in UserActions, Dispatch(action) PROVE Rendered'
  <2>1. Bounded'
    <3>1. device' = device /\ actions' = actions + 1 /\ actions < MaxActions
      BY <1>4 DEF Dispatch
    <3>2. disturbed' \subseteq disturbed \cup Disturbance(action)
      BY <1>4, DisturbedFacts DEF Dispatch
    <3>3. Disturbance(action) \subseteq {"user", "mixed", "lost"}
      BY DEF Disturbance
    <3>4. actions' \in 0..MaxActions
      BY <1>1, <3>1, BoundAssumption DEF Bounded
    <3> QED
      BY <1>1, <3>1, <3>2, <3>3, <3>4 DEF Bounded
  <2> QED
    BY <1>2, <1>4, <2>1, DispatchSound DEF Dispatch
<1>5. CASE RunEffect
  <2>1. Bounded'
    <3>1. disturbed' \subseteq disturbed \cup {}
      BY <1>5, DisturbedFacts DEF RunEffect
    <3> QED
      BY <1>1, <1>5, <3>1 DEF RunEffect, Bounded
  <2>2. Sound(Started(state, effect))
    BY <1>1, <1>5, StartedFacts DEF RunEffect
  <2> QED
    BY <1>2, <1>5, <2>1, <2>2 DEF RunEffect
<1>6. CASE OpSucceeds \/ OpFails
  <2> DEFINE op == state.currentAppOp
  <2>1. op \in Ops /\ op.name \in Known
    BY <1>6 DEF OpSucceeds, OpFails, Rendered, Sound
  <2>2. DoneBy(op) \in [Apps -> {"absent", "outdated", "updated"}]
    BY <1>1 DEF DoneBy, Bounded
  <2>3. Bounded'
    <3>1. DisturbedBy({}) \/ DisturbedBy({"lost"})
      BY <1>6 DEF OpSucceeds, OpFails
    <3>2. disturbed' \subseteq disturbed \cup {"lost"}
      BY <3>1, DisturbedFacts
    <3>3. actions' = actions /\ device' \in {device, DoneBy(op)}
      BY <1>6 DEF OpSucceeds, OpFails
    <3> QED
      BY <1>1, <2>2, <3>2, <3>3 DEF Bounded
  <2>4. Sound(runSuccess(state, op)) /\ Sound(runError(state, op))
    BY <1>1, <2>1, RunSuccessSound, RunErrorFacts
  <2> QED
    BY <1>2, <1>6, <2>3, <2>4 DEF OpSucceeds, OpFails
<1>7. CASE UNCHANGED vars
  BY <1>7 DEF vars, Rendered, Bounded
<1> QED
  BY <1>4, <1>5, <1>6, <1>7 DEF Next

THEOREM Structure == Spec => []Rendered
  BY StructureInitial, StructureStep, PTL DEF Spec

-----------------------------------------------------------------------------
(* What the manager knows of the device, and why it accepts the plan.         *)
On(dev) == {a \in Apps : dev[a] # "absent"}

Mirrors(s, dev) ==
    /\ ToSet(s.installed) \cap Known = On(dev) \cap Known
    /\ s.outdated \cap Known = {a \in Known : dev[a] = "outdated"}

(* What depends on an application to remove is to be removed too; what is to  *)
(* be installed is not on the device, or removed before, and what it depends  *)
(* on is up to date and stays, or is installed too.                          *)
Suits(U, I, dev) ==
    /\ I \subseteq Known /\ I \cap On(dev) \subseteq U
    /\ \A u \in U : Dependents(u) \cap On(dev) \subseteq U
    /\ \A a \in I : \A d \in Deps[a] : d \in I \/ (dev[d] = "updated" /\ d \notin U)

Planned(s, dev) ==
    /\ s.currentAppOp # NoOp => s.currentAppOp = getNextAppOp(s)
    /\ Suits(ToSet(s.uninstallQueue), ToSet(s.installQueue), dev)

DInv ==
    /\ Rendered
    /\ Closed(OnDevice)
    /\ "lost" \notin disturbed => Mirrors(state, device)
    /\ disturbed = {} => Planned(state, device)

LEMMA NothingPlanned ==
    ASSUME NEW s, NEW dev, s.currentAppOp = NoOp,
           s.uninstallQueue = <<>>, s.installQueue = <<>>
    PROVE  Planned(s, dev)
  BY EmptyQueue DEF Planned, Suits

LEMMA InstallSuits ==
    ASSUME NEW s, Good(s), NEW dev \in [Apps -> {"absent", "outdated", "updated"}],
           Mirrors(s, dev), Closed(On(dev)), NEW name \in Known, ~Mixed(s),
           s.installQueue = <<>>, s.uninstallQueue = <<>>, ~NothingToInstall(s, name)
    PROVE  LET t == install(s, name) IN
           Suits(ToSet(t.uninstallQueue), ToSet(t.installQueue), dev)
<1> DEFINE t == install(s, name)
           inst == ToSet(s.installed)
           around == Around(s, name)
           missing == Deps[name] \ inst
<1>1. /\ ToSet(t.installQueue) = around \cup missing \cup {name}
      /\ ToSet(t.uninstallQueue) = around
  BY InstallFacts, EmptyQueue
<1> HIDE DEF t
<1>2. /\ \A a \in Known : Deps[a] \subseteq Known /\ a \in Apps
      /\ \A a \in Known : \A d \in Deps[a] : Deps[d] = {}
      /\ \A a \in Known : \A d, e \in Deps[a] : d = e
      /\ \A a, d : a \in Dependents(d) <=> a \in Known /\ d \in Deps[a]
  BY CatalogAssumption, OneLevelAssumption, OneFamilyAssumption DEF Known, Apps, Dependents
<1>3. /\ \A a \in Known : a \in inst <=> dev[a] # "absent"
      /\ \A a \in Known : a \in s.outdated <=> dev[a] = "outdated"
      /\ \A a \in Known : dev[a] \in {"absent", "outdated", "updated"}
  BY <1>2 DEF Mirrors, On
<1>4. \A a \in Known : dev[a] # "absent" => \A d \in Deps[a] : dev[d] # "absent"
  BY <1>2 DEF Closed, On, DepsOf
<1>5. \A d \in s.outdated : \A a \in Dependents(d) : a \in inst => a \in s.outdated
  BY DEF Mixed
<1>6. name \in inst => name \in s.outdated
  <2>1. s.installed \in Seq(Apps)
    BY StateFields DEF Good
  <2> QED
    BY <2>1, ToSetIs DEF NothingToInstall, IsInstalled
<1>7. /\ around \subseteq inst \cap s.outdated \cap Known
      /\ \A a : a \in around <=>
           /\ name \in s.outdated \/ \E d \in Deps[name] : d \in s.outdated
           /\ a \in inst /\ a \in s.outdated
           /\ \/ a = name \/ a \in Deps[name] \/ a \in Dependents(name)
              \/ \E d \in Deps[name] : a \in Dependents(d)
  BY <1>2 DEF Around
<1> HIDE DEF inst, around
<1>8. around \cup missing \cup {name} \subseteq Known
  BY <1>2, <1>7
<1>9. ASSUME NEW a \in around \cup missing \cup {name}, a \in On(dev) PROVE a \in around
  <2>1. CASE a \in missing
    BY <1>2, <1>3, <1>9, <2>1 DEF On
  <2>2. CASE a = name
    BY <1>3, <1>6, <1>7, <1>9, <2>2 DEF On
  <2> QED
    BY <1>9, <2>1, <2>2
<1>10. ASSUME NEW u \in around, NEW a \in Dependents(u), a \in On(dev) PROVE a \in around
  <2>1. a \in Known /\ u \in Deps[a] /\ Deps[u] = {} /\ u \in Known
    BY <1>2, <1>7
  <2>2. a \in inst /\ a \in s.outdated
    BY <1>3, <1>5, <1>7, <1>10, <2>1 DEF On
  <2>3. u = name \/ u \in Deps[name]
    BY <1>2, <1>7, <2>1
  <2>4. a \in Dependents(name) \/ \E d \in Deps[name] : a \in Dependents(d)
    BY <2>3
  <2> QED
    BY <1>7, <2>2, <2>4
<1>11. ASSUME NEW a \in around \cup missing \cup {name}, NEW d \in Deps[a]
       PROVE  d \in around \cup missing \cup {name} \/ (dev[d] = "updated" /\ d \notin around)
  <2>1. a \in Known /\ d \in Known
    BY <1>2, <1>8
  <2>2. CASE a = name
    <3>1. d \notin inst => d \in missing
      BY <2>2
    <3>2. d \in inst /\ d \in s.outdated => d \in around
      BY <1>7, <2>2
    <3>3. d \in inst /\ d \notin s.outdated => dev[d] = "updated" /\ d \notin around
      BY <1>3, <1>7, <2>1
    <3> QED
      BY <3>1, <3>2, <3>3
  <2>3. CASE a \in missing
    BY <1>2, <2>3
  <2>4. CASE a \in around
    <3>1. dev[d] # "absent"
      BY <1>3, <1>4, <1>7, <2>1, <2>4
    <3>2. CASE dev[d] = "updated"
      BY <1>3, <1>7, <2>1, <3>2
    <3>3. CASE dev[d] = "outdated"
      <4>1. d \in inst /\ d \in s.outdated
        BY <1>3, <2>1, <3>3
      <4>2. d = name \/ d \in Deps[name]
        <5>1. a = name \/ a \in Deps[name] \/ name \in Deps[a] \/ \E e \in Deps[name] : e \in Deps[a]
          BY <1>2, <1>7, <2>4
        <5> QED
          BY <1>2, <2>1, <5>1
      <4>3. d \in around \/ d = name
        BY <1>7, <2>4, <4>1, <4>2
      <4> QED
        BY <4>3
    <3> QED
      BY <1>3, <2>1, <3>1, <3>2, <3>3
  <2> QED
    BY <2>2, <2>3, <2>4
<1> HIDE DEF missing
<1> QED
  BY <1>1, <1>8, <1>9, <1>10, <1>11 DEF Suits, t

LEMMA UninstallSuits ==
    ASSUME NEW s, Good(s), NEW dev \in [Apps -> {"absent", "outdated", "updated"}],
           Mirrors(s, dev), NEW name \in Apps, NEW force \in BOOLEAN,
           s.installQueue = <<>>, s.uninstallQueue = <<>>
    PROVE  LET t == uninstall(s, name, force) IN
           Suits(ToSet(t.uninstallQueue), ToSet(t.installQueue), dev)
<1> DEFINE t == uninstall(s, name, force)
           U == ToSet(t.uninstallQueue)
<1>0. /\ s.uninstallQueue = <<>> =>
           /\ ToSet(t.installQueue) = ToSet(s.installQueue) \ {name}
           /\ \/ /\ ToSet(t.uninstallQueue) =
                       {name} \cup (Dependents(name) \cap ToSet(s.installed))
              \/ t.uninstallQueue = <<>> /\ name \notin ToSet(s.installed)
  BY UninstallFacts, ZenonT(60)
<1>1. /\ ToSet(t.installQueue) = {}
      /\ \/ U = {name} \cup (Dependents(name) \cap ToSet(s.installed))
         \/ U = {}
  <2> HIDE DEF t
  <2> QED
    BY <1>0, EmptyQueue DEF U
<1>2. ASSUME NEW u \in U, NEW a \in Dependents(u), a \in On(dev) PROVE a \in U
  <2>1. u = name \/ u \in Dependents(name)
    BY <1>1
  <2>2. a \in Known /\ a \in ToSet(s.installed) /\ u \in DepsOf(a)
    BY <1>2, DepsFacts DEF Mirrors
  <2>3. u = name
    BY <2>1, <2>2, DepsFacts DEF Apps
  <2> QED
    BY <1>1, <2>2, <2>3
<1> HIDE DEF t
<1> QED
  BY <1>1, <1>2 DEF Suits, t

LEMMA WipeSuits ==
    ASSUME NEW s, Good(s), NEW dev, Mirrors(s, dev)
    PROVE  Suits(ToSet(wipe(s).uninstallQueue), ToSet(wipe(s).installQueue), dev)
<1>1. ToSet(wipe(s).uninstallQueue) = ToSet(s.installed) /\ ToSet(wipe(s).installQueue) = {}
  BY WipeFacts, EmptyQueue
<1>2. \A u : Dependents(u) \subseteq Known
  BY DEF Dependents
<1> QED
  BY <1>1, <1>2 DEF Suits, Mirrors

LEMMA UpdateAllSuits ==
    ASSUME NEW s, Good(s), NEW dev \in [Apps -> {"absent", "outdated", "updated"}],
           Mirrors(s, dev), Closed(On(dev)),
           s.installQueue = <<>>, s.uninstallQueue = <<>>
    PROVE  Suits(ToSet(updateAll(s).uninstallQueue), ToSet(updateAll(s).installQueue), dev)
<1> DEFINE inst == ToSet(s.installed)
           X == ToSet(Targets(s))
<1>1. ToSet(updateAll(s).uninstallQueue) = X /\ ToSet(updateAll(s).installQueue) = X
  BY UpdateAllFacts
<1>2. \A x : x \in X <=> \E a \in inst \cap s.outdated \cap Known :
                             x = a \/ (x \in inst /\ x \in Dependents(a))
  <2>1. X = UNION {{a} \cup (inst \cap Dependents(a)) : a \in inst \cap s.outdated \cap Known}
    BY TargetsFacts DEF Good
  <2> DEFINE R == UNION {{a} \cup (inst \cap Dependents(a)) : a \in inst \cap s.outdated \cap Known}
  <2>2. X = R
    BY <2>1
  <2>3. ASSUME NEW x \in R
        PROVE  \E a \in inst \cap s.outdated \cap Known :
                 x = a \/ (x \in inst /\ x \in Dependents(a))
    <3>1. PICK a \in inst \cap s.outdated \cap Known : x \in {a} \cup (inst \cap Dependents(a))
      OBVIOUS
    <3> QED
      BY <3>1
  <2>4. ASSUME NEW x, NEW a \in inst \cap s.outdated \cap Known,
               x = a \/ (x \in inst /\ x \in Dependents(a))
        PROVE  x \in R
    BY <2>4
  <2> HIDE DEF X, R
  <2> QED
    BY <2>2, <2>3, <2>4
<1> HIDE DEF inst, X
<1>3. /\ \A a \in Known : a \in inst <=> dev[a] # "absent"
      /\ \A a \in Known : a \in s.outdated <=> dev[a] = "outdated"
      /\ \A a \in Known : dev[a] \in {"absent", "outdated", "updated"}
  BY DEF Mirrors, On, Apps, inst
<1>4. /\ \A a \in Known : Deps[a] \subseteq Known /\ a \in Apps
      /\ \A a \in Known : \A d \in Deps[a] : Deps[d] = {}
      /\ \A a, d : a \in Dependents(d) <=> a \in Known /\ d \in Deps[a]
  BY CatalogAssumption, OneLevelAssumption DEF Known, Apps, Dependents
<1>5. X \subseteq Known /\ X \subseteq inst
  BY <1>2, <1>4
<1>6. ASSUME NEW u \in X, NEW a \in Dependents(u), a \in On(dev) PROVE a \in X
  <2>1. a \in Known /\ a \in inst /\ u \in Deps[a] /\ Deps[u] = {}
    BY <1>3, <1>4, <1>6 DEF On
  <2>2. u \in inst \cap s.outdated \cap Known
    BY <1>2, <1>4, <2>1
  <2> QED
    BY <1>2, <2>1, <2>2
<1>7. ASSUME NEW a \in X, NEW d \in Deps[a]
      PROVE  d \in X \/ (dev[d] = "updated" /\ d \notin X)
  <2>1. a \in Known /\ d \in Known /\ dev[a] # "absent"
    BY <1>3, <1>4, <1>5
  <2>2. dev[d] # "absent"
    BY <1>4, <2>1 DEF Closed, On, DepsOf
  <2>3. ASSUME dev[d] = "outdated" PROVE d \in X
    <3>1. d \in inst /\ d \in s.outdated
      BY <1>3, <2>1, <2>2, <2>3
    <3>2. \E b \in inst \cap s.outdated \cap Known :
            d = b \/ (d \in inst /\ d \in Dependents(b))
      BY <2>1, <3>1
    <3> QED
      BY <1>2, <3>2
  <2> QED
    BY <1>3, <2>1, <2>2, <2>3
<1> QED
  BY <1>1, <1>5, <1>6, <1>7 DEF Suits

LEMMA ReducerSuits ==
    ASSUME NEW s, Good(s), NEW dev \in [Apps -> {"absent", "outdated", "updated"}],
           Mirrors(s, dev), Closed(On(dev)), s.currentAppOp = NoOp,
           s.installQueue = <<>>, s.uninstallQueue = <<>>,
           NEW action \in UserActions, ~(action.type = "install" /\ Mixed(s))
    PROVE  Planned(reducer(s, action), dev)
<1> DEFINE t == reducer(s, action)
<1>1. t.currentAppOp = NoOp
  BY ReducerFacts DEF QueuesOnly
<1>2. SUFFICES Suits(ToSet(t.uninstallQueue), ToSet(t.installQueue), dev)
  <2> HIDE DEF t
  <2> QED
    BY <1>1, <1>2 DEF Planned, t
<1>3. \/ action.type = "install" /\ action.name \in Known
      \/ action.type \in {"uninstall", "force uninstall"} /\ action.name \in Apps
      \/ action.type \in {"wipe", "updateAll", "recover"}
  BY DEF UserActions
<1>4. Suits(ToSet(s.uninstallQueue), ToSet(s.installQueue), dev)
  BY NothingPlanned DEF Planned
<1>5. CASE action.type = "install"
  <2>1. t = install(s, action.name)
    BY <1>5 DEF reducer
  <2> HIDE DEF t
  <2>2. CASE NothingToInstall(s, action.name)
    <3>1. t = s
      BY <1>3, <1>5, <2>1, <2>2, InstallFacts
    <3> QED
      BY <1>4, <3>1
  <2>3. CASE ~NothingToInstall(s, action.name)
    BY <1>3, <1>5, <2>1, <2>3, InstallSuits
  <2> QED
    BY <2>2, <2>3
<1>6. CASE action.type = "uninstall"
  <2>1. t = uninstall(s, action.name, FALSE)
    BY <1>6 DEF reducer
  <2> HIDE DEF t
  <2> QED
    BY <1>3, <1>6, <2>1, UninstallSuits
<1>7. CASE action.type = "force uninstall"
  <2>1. t = uninstall(s, action.name, TRUE)
    BY <1>7 DEF reducer
  <2> HIDE DEF t
  <2> QED
    BY <1>3, <1>7, <2>1, UninstallSuits
<1>8. CASE action.type = "wipe"
  <2>1. t = wipe(s)
    BY <1>8 DEF reducer
  <2> HIDE DEF t
  <2> QED
    BY <2>1, WipeSuits
<1>9. CASE action.type = "updateAll"
  <2>1. t = updateAll(s)
    BY <1>9 DEF reducer
  <2> HIDE DEF t
  <2> QED
    BY <2>1, UpdateAllSuits
<1>10. CASE action.type = "recover"
  <2>1. t.installQueue = <<>> /\ t.uninstallQueue = <<>>
    BY <1>10 DEF reducer, recover, Good, States
  <2> HIDE DEF t
  <2> QED
    BY <1>1, <2>1, NothingPlanned DEF Planned
<1> HIDE DEF t
<1> QED
  BY <1>3, <1>5, <1>6, <1>7, <1>8, <1>9, <1>10

(* What the device accepts next to a plan that suits it. *)
LEMMA HeadIsAccepted ==
    ASSUME NEW s, Good(s), Suits(ToSet(s.uninstallQueue), ToSet(s.installQueue), device),
           device \in [Apps -> {"absent", "outdated", "updated"}],
           NEW op \in Ops, op = getNextAppOp(s)
    PROVE  /\ Accepts(op)
           /\ op.type = "install" => \A d \in Deps[op.name] : device[d] = "updated"
<1>1. /\ s.installQueue \in Seq(Apps) /\ s.uninstallQueue \in Seq(Apps)
      /\ Sorted(s.installQueue, DepsFirst) /\ Sorted(s.uninstallQueue, DepsLast)
  BY StateFields DEF Good
<1>2. op # NoOp
  BY OpFacts
<1>3. \A a \in Apps : /\ Install(a).type = "install" /\ Install(a).name = a
                      /\ Uninstall(a).type = "uninstall" /\ Uninstall(a).name = a
  BY DEF Install, Uninstall
<1>4. CASE s.uninstallQueue # <<>>
  <2> DEFINE q == s.uninstallQueue
             a == q[1]
  <2>1. 1 \in 1..Len(q) /\ a \in Apps /\ a \in ToSet(q)
    BY <1>1, <1>4, ToSetIs
  <2>2. op = Uninstall(a)
    BY <1>4, NextOpFacts DEF Good
  <2>3. ASSUME NEW b \in Dependents(a), b \in On(device) PROVE FALSE
    <3>1. b \in ToSet(q)
      BY <2>1, <2>3 DEF Suits
    <3>2. PICK j \in 1..Len(q) : q[j] = b
      BY <1>1, <3>1, ToSetIs
    <3>3. b \in Known /\ b \in Apps /\ a \in DepsOf(b)
      BY <2>3, DepsFacts DEF Apps
    <3>4. <<q[j], q[1]>> \in DepsLast
      BY <2>1, <3>2, <3>3 DEF DepsLast
    <3>5. j < 1
      BY <1>1, <2>1, <3>2, <3>4 DEF Sorted
    <3> QED
      BY <3>2, <3>5
  <2> HIDE DEF q, a
  <2> QED
    BY <1>3, <2>1, <2>2, <2>3 DEF Accepts, OnDevice, On
<1>5. CASE s.uninstallQueue = <<>>
  <2> DEFINE q == s.installQueue
             a == q[1]
  <2>1. q # <<>>
    BY <1>2, <1>5, NextOpFacts DEF Good
  <2>2. 1 \in 1..Len(q) /\ a \in Apps /\ a \in ToSet(q)
    BY <1>1, <2>1, ToSetIs
  <2>3. op = Install(a)
    BY <1>5, <2>1, NextOpFacts DEF Good
  <2>4. ToSet(s.uninstallQueue) = {}
    BY <1>5, EmptyQueue
  <2>5. a \in Known /\ a \notin On(device)
    BY <2>2, <2>4 DEF Suits
  <2>6. ASSUME NEW d \in Deps[a] PROVE device[d] = "updated" /\ d \in Apps
    <3>1. d \in DepsOf(a) /\ d \in Known /\ d \in Apps
      BY <2>2, <2>5, DepsFacts DEF DepsOf, Apps
    <3>2. CASE d \in ToSet(q)
      <4>1. PICK j \in 1..Len(q) : q[j] = d
        BY <1>1, <3>2, ToSetIs
      <4>2. <<q[j], q[1]>> \in DepsFirst
        BY <2>2, <3>1, <4>1 DEF DepsFirst
      <4>3. j < 1
        BY <1>1, <2>2, <4>1, <4>2 DEF Sorted
      <4> QED
        BY <4>1, <4>3
    <3> QED
      BY <2>2, <3>1, <3>2 DEF Suits
  <2> HIDE DEF q, a
  <2> QED
    BY <1>3, <2>2, <2>3, <2>5, <2>6 DEF Accepts, OnDevice, On
<1> QED
  BY <1>4, <1>5

LEMMA PlannedIsAccepted ==
    ASSUME DInv
    PROVE  PlanIsAccepted /\ MirrorsDevice
<1>1. MirrorsDevice
  BY DEF DInv, Mirrors, MirrorsDevice, OnDevice, On
<1>2. ASSUME state.currentAppOp # NoOp, disturbed = {}
      PROVE  /\ Accepts(state.currentAppOp)
             /\ state.currentAppOp.type = "install" =>
                  \A d \in Deps[state.currentAppOp.name] : device[d] = "updated"
  <2>1. /\ Good(state) /\ state.currentAppOp \in Ops
        /\ state.currentAppOp = getNextAppOp(state)
        /\ Suits(ToSet(state.uninstallQueue), ToSet(state.installQueue), device)
        /\ device \in [Apps -> {"absent", "outdated", "updated"}]
    BY <1>2 DEF DInv, Rendered, Sound, Bounded, Planned
  <2> QED
    BY <2>1, HeadIsAccepted
<1> QED
  BY <1>1, <1>2 DEF PlanIsAccepted

LEMMA PlannedInitial == Init => DInv
<1> SUFFICES ASSUME Init PROVE DInv
  OBVIOUS
<1>0. Rendered
  BY StructureInitial
<1>1. PICK order \in InitialOrders, restore \in Restores :
        /\ device \in [Apps -> {"absent", "outdated", "updated"}]
        /\ Closed(OnDevice)
        /\ state = initState(Among(order, OnDevice),
                             {a \in Apps : device[a] = "outdated"}, restore)
        /\ effect = getNextAppOp(state)
        /\ disturbed = {x \in {"mixed"} : effect # NoOp /\ state.outdated # {}}
  BY DEF Init
<1> DEFINE installed == Among(order, OnDevice)
           outdated == {a \in Apps : device[a] = "outdated"}
<1>2. /\ order \in Seq(Apps) /\ ToSet(order) = Apps
      /\ restore \in Seq(Apps) /\ outdated \in SUBSET Apps
  BY InitialAssumption
<1>3. installed \in Seq(Apps) /\ ToSet(installed) = OnDevice
  <2>1. ToSet(order) \cap OnDevice = OnDevice
    BY <1>2 DEF OnDevice
  <2> QED
    BY <1>2, <2>1, AmongFacts
<1> HIDE DEF installed
<1>4. Restoring(state, Fresh(installed, outdated))
  <2> HIDE DEF outdated
  <2> QED
    BY <1>1, <1>2, <1>3, InitStateFacts DEF installed, outdated
<1>5. /\ state.installed = installed /\ state.outdated = outdated
      /\ state.currentAppOp = NoOp
      /\ outdated = {} => Fits(state)
  <2> HIDE DEF outdated
  <2> QED
    BY <1>4 DEF Restoring, QueuesOnly, Fresh
<1>6. Mirrors(state, device)
  BY <1>3, <1>5 DEF Mirrors, OnDevice, On, Apps
<1>7. ASSUME disturbed = {} PROVE Planned(state, device)
  <2>1. effect = NoOp \/ state.outdated = {}
    BY <1>1, <1>7
  <2>2. CASE effect = NoOp
    <3>1. state.uninstallQueue = <<>> /\ state.installQueue = <<>>
      BY <1>0, <1>1, <2>2, NextOpFacts DEF Rendered, Sound, Good
    <3> QED
      BY <1>5, <3>1, NothingPlanned
  <2>3. CASE state.outdated = {}
    <3> DEFINE I == ToSet(state.installQueue)
    <3>1. /\ state.uninstallQueue = <<>>
          /\ I \subseteq Known /\ I \cap OnDevice = {}
          /\ \A a \in I : Deps[a] \subseteq I \cup OnDevice
      BY <1>3, <1>5, <2>3 DEF Fits
    <3>2. ToSet(state.uninstallQueue) = {}
      BY <3>1, EmptyQueue
    <3>3. \A d \in OnDevice : device[d] = "updated"
      BY <1>1, <1>5, <2>3 DEF OnDevice
    <3> HIDE DEF I
    <3>4. OnDevice = On(device)
      BY DEF OnDevice, On
    <3> QED
      BY <1>5, <3>1, <3>2, <3>3, <3>4 DEF Planned, Suits, I
  <2> QED
    BY <2>1, <2>2, <2>3
<1> QED
  BY <1>0, <1>1, <1>6, <1>7 DEF DInv

(* What is at once over changes nothing to what the manager knows.           *)
LEMMA StartedMirrors ==
    ASSUME NEW s, Good(s), NEW op \in Ops, NEW dev, Mirrors(s, dev)
    PROVE  Mirrors(Started(s, op), dev)
<1> DEFINE b == [s EXCEPT !.currentAppOp = op]
           t == runSuccess(b, op)
<1>0. b \in States /\ b.installed = s.installed /\ b.outdated = s.outdated
  BY DEF Good, States
<1>1. CASE op.name \in Known
  <2>1. Started(s, op) = b
    BY <1>1, StartedFacts
  <2> HIDE DEF b
  <2> QED
    BY <1>0, <2>1 DEF Mirrors
<1>2. CASE op.name \notin Known
  <2>1. b \in States /\ b.installed = s.installed /\ b.outdated = s.outdated
    BY <1>0
  <2>2. Started(s, op) = t
    BY <1>2, StartedFacts
  <2> HIDE DEF b
  <2>3. /\ t.outdated = b.outdated \ {op.name}
        /\ op.type = "install" => ToSet(t.installed) = ToSet(b.installed) \cup {op.name}
        /\ op.type = "uninstall" => ToSet(t.installed) = ToSet(b.installed) \ {op.name}
    BY <2>1, RunSuccessFacts
  <2>4. op.type \in {"install", "uninstall"}
    BY OpFacts
  <2> HIDE DEF t
  <2>5. ToSet(t.installed) \cap Known = ToSet(b.installed) \cap Known
    BY <1>2, <2>3, <2>4
  <2>6. t.outdated \cap Known = b.outdated \cap Known
    BY <1>2, <2>3
  <2> QED
    BY <2>1, <2>2, <2>5, <2>6 DEF Mirrors
<1> QED
  BY <1>1, <1>2

(* With no operation under way and nothing scheduled, nothing is planned.    *)
LEMMA OverIsPlanned ==
    ASSUME NEW s, s \in States, s.currentAppOp = NoOp, getNextAppOp(s) = NoOp, NEW dev
    PROVE  Planned(s, dev)
<1>1. s.uninstallQueue = <<>> /\ s.installQueue = <<>>
  BY NextOpFacts
<1> QED
  BY <1>1, NothingPlanned

LEMMA DoneKeepsClosed ==
    ASSUME Rendered, Closed(OnDevice), NEW op \in Ops, op.name \in Known, Accepts(op)
    PROVE  /\ On(DoneBy(op)) = IF op.type = "install" THEN On(device) \cup {op.name}
                                                      ELSE On(device) \ {op.name}
           /\ Closed(On(DoneBy(op)))
<1>1. device \in [Apps -> {"absent", "outdated", "updated"}]
  BY DEF Rendered, Bounded
<1>2. On(DoneBy(op)) = IF op.type = "install" THEN On(device) \cup {op.name}
                                              ELSE On(device) \ {op.name}
  BY <1>1 DEF On, DoneBy, Apps
<1>3. OnDevice = On(device) /\ op.name \in Apps /\ \A a \in On(device) : a \in Apps
  BY DEF OnDevice, On, Apps
<1>4. CASE op.type = "install"
  <2>1. DepsOf(op.name) \subseteq On(device)
    BY <1>3, <1>4 DEF Accepts, DepsOf
  <2> QED
    BY <1>2, <1>3, <1>4, <2>1 DEF Closed
<1>5. CASE op.type # "install"
  <2>1. Dependents(op.name) \cap On(device) = {}
    BY <1>3, <1>5 DEF Accepts
  <2>2. ASSUME NEW a \in On(device) PROVE op.name \notin DepsOf(a)
    BY <1>3, <2>1, <2>2, DepsFacts DEF DepsOf
  <2> QED
    BY <1>2, <1>3, <1>5, <2>2 DEF Closed
<1> QED
  BY <1>2, <1>4, <1>5

LEMMA DoneMirrors ==
    ASSUME Rendered, Closed(OnDevice), NEW op \in Ops, op.name \in Known, Accepts(op),
           Mirrors(state, device)
    PROVE  Mirrors(runSuccess(state, op), DoneBy(op))
<1> DEFINE t == runSuccess(state, op)
           dev == DoneBy(op)
<1>1. /\ state \in States /\ op.type \in {"install", "uninstall"} /\ op.name \in Apps
      /\ device \in [Apps -> {"absent", "outdated", "updated"}]
  BY OpFacts DEF Rendered, Sound, Good, Bounded
<1>2. /\ t.outdated = state.outdated \ {op.name}
      /\ op.type = "install" => ToSet(t.installed) = ToSet(state.installed) \cup {op.name}
      /\ op.type = "uninstall" => ToSet(t.installed) = ToSet(state.installed) \ {op.name}
  BY <1>1, RunSuccessFacts
<1>3. On(dev) = IF op.type = "install" THEN On(device) \cup {op.name}
                                       ELSE On(device) \ {op.name}
  BY DoneKeepsClosed
<1>4. \A a \in Known : dev[a] = "outdated" <=> device[a] = "outdated" /\ a # op.name
  BY <1>1 DEF DoneBy, Apps
<1> HIDE DEF t, dev
<1>5. ToSet(t.installed) \cap Known = On(dev) \cap Known
  BY <1>1, <1>2, <1>3 DEF Mirrors
<1>6. t.outdated \cap Known = {a \in Known : dev[a] = "outdated"}
  BY <1>2, <1>4 DEF Mirrors
<1> QED
  BY <1>5, <1>6 DEF Mirrors, t, dev

(* The plan without its first operation suits the device once that is done.  *)
LEMMA RestSuits ==
    ASSUME Rendered, NEW op \in Ops, op.name \in Known, op = getNextAppOp(state),
           Suits(ToSet(state.uninstallQueue), ToSet(state.installQueue), device),
           Closed(OnDevice), Accepts(op)
    PROVE  Suits(ToSet(runSuccess(state, op).uninstallQueue),
                 ToSet(runSuccess(state, op).installQueue), DoneBy(op))
<1> DEFINE t == runSuccess(state, op)
           U == ToSet(state.uninstallQueue)
           I == ToSet(state.installQueue)
           n == op.name
           dev == DoneBy(op)
<1>1. /\ state \in States /\ state.installQueue \in Seq(Apps) /\ state.uninstallQueue \in Seq(Apps)
      /\ device \in [Apps -> {"absent", "outdated", "updated"}]
      /\ op # NoOp /\ op.type \in {"install", "uninstall"} /\ n \in Apps
  BY StateFields, OpFacts DEF Rendered, Sound, Good, Bounded
<1>2. /\ op.type = "install" => /\ t.uninstallQueue = state.uninstallQueue
                                /\ t.installQueue = Without(state.installQueue, {n})
      /\ op.type = "uninstall" => /\ t.installQueue = state.installQueue
                                  /\ t.uninstallQueue = Without(state.uninstallQueue, {n})
  BY <1>1, RunSuccessFacts
<1>3. /\ On(dev) = IF op.type = "install" THEN On(device) \cup {n} ELSE On(device) \ {n}
      /\ \A a \in Apps : dev[a] = IF a # n THEN device[a]
                                  ELSE IF op.type = "install" THEN "updated" ELSE "absent"
  BY <1>1, DoneKeepsClosed DEF DoneBy
<1>4. \A a \in Known : \A d \in Deps[a] : d \in Apps
  BY CatalogAssumption DEF Known, Apps
<1> HIDE DEF t, dev
<1>5. CASE state.uninstallQueue # <<>>
  <2>1. op.type = "uninstall"
    BY <1>1, <1>5, NextOpFacts DEF Uninstall
  <2>2. ToSet(t.uninstallQueue) = U \ {n} /\ ToSet(t.installQueue) = I
    BY <1>1, <1>2, <2>1, WithoutFacts
  <2>3. On(dev) = On(device) \ {n}
    BY <1>3, <2>1
  <2> DEFINE V == ToSet(t.uninstallQueue)
  <2> HIDE DEF U, I, V
  <2>4. I \subseteq Known /\ I \cap On(dev) \subseteq V
    BY <2>2, <2>3 DEF Suits, U, I, V
  <2>5. \A u \in V : Dependents(u) \cap On(dev) \subseteq V
    <3>1. \A u \in U : Dependents(u) \cap On(device) \subseteq U
      BY DEF Suits, U
    <3> QED
      BY <2>2, <2>3, <3>1 DEF V
  <2>6. ASSUME NEW a \in I, NEW d \in Deps[a] PROVE d \in I \/ (dev[d] = "updated" /\ d \notin V)
    <3>1. d \in I \/ (device[d] = "updated" /\ d \notin U)
      BY <2>6 DEF Suits, U, I
    <3>2. n \in U
      <4>1. n = state.uninstallQueue[1]
        BY <1>1, <1>5, NextOpFacts DEF Uninstall
      <4>2. 1 \in 1..Len(state.uninstallQueue)
        BY <1>1, <1>5
      <4> QED
        BY <1>1, <4>1, <4>2, ToSetIs DEF U
    <3>3. d \in Apps
      BY <1>4, <2>4, <2>6
    <3> QED
      BY <1>3, <2>2, <3>1, <3>2, <3>3 DEF V
  <2> QED
    BY <2>2, <2>4, <2>5, <2>6 DEF Suits, V, t, dev
<1>6. CASE state.uninstallQueue = <<>>
  <2>1. op.type = "install"
    BY <1>1, <1>6, NextOpFacts DEF Install
  <2>2. ToSet(t.uninstallQueue) = {} /\ U = {} /\ ToSet(t.installQueue) = I \ {n}
    BY <1>1, <1>2, <1>6, <2>1, EmptyQueue, WithoutFacts
  <2>3. On(dev) = On(device) \cup {n}
    BY <1>3, <2>1
  <2> DEFINE J == ToSet(t.installQueue)
  <2> HIDE DEF U, I, J
  <2>4. J \subseteq Known /\ J \cap On(dev) = {}
    BY <2>2, <2>3 DEF Suits, U, I, J
  <2>5. ASSUME NEW a \in J, NEW d \in Deps[a] PROVE d \in J \/ dev[d] = "updated"
    <3>1. d \in I \/ device[d] = "updated"
      BY <2>2, <2>5 DEF Suits, U, I, J
    <3>2. d \in Apps
      BY <1>4, <2>4, <2>5
    <3> QED
      BY <1>3, <2>1, <2>2, <3>1, <3>2 DEF J
  <2> QED
    BY <2>2, <2>4, <2>5 DEF Suits, J, t, dev
<1> QED
  BY <1>5, <1>6

(* An application out of the catalog leaves the plan, which still suits.      *)
LEMMA StartedPlanned ==
    ASSUME NEW s, Good(s), NEW dev, Planned(s, dev), s.currentAppOp = NoOp,
           NEW op \in Ops, op = getNextAppOp(s)
    PROVE  Planned(Started(s, op), dev)
<1> DEFINE b == [s EXCEPT !.currentAppOp = op]
           t == runSuccess(b, op)
           n == op.name
<1>1. /\ s \in States /\ s.installQueue \in Seq(Apps) /\ s.uninstallQueue \in Seq(Apps)
      /\ op # NoOp /\ n \in Apps
  BY StateFields, OpFacts DEF Good
<1>2. /\ b \in States /\ b.currentAppOp = op
      /\ b.installQueue = s.installQueue /\ b.uninstallQueue = s.uninstallQueue
  BY <1>1 DEF States
<1>3. CASE op.name \in Known
  <2>1. Started(s, op) = b
    BY <1>3, StartedFacts
  <2> HIDE DEF b
  <2>2. getNextAppOp(b) = getNextAppOp(s)
    BY <1>2 DEF getNextAppOp, getActionPlan
  <2> QED
    BY <1>2, <2>1, <2>2 DEF Planned
<1>4. CASE op.name \notin Known
  <2>1. Started(s, op) = t
    BY <1>4, StartedFacts
  <2>2. Suits(ToSet(s.uninstallQueue), ToSet(s.installQueue), dev)
    BY DEF Planned
  <2>3. op.type = "uninstall"
    <3>1. CASE s.uninstallQueue # <<>>
      BY <1>1, <3>1, NextOpFacts DEF Uninstall
    <3>2. CASE s.uninstallQueue = <<>>
      <4>1. s.installQueue # <<>> /\ op = Install(s.installQueue[1])
        BY <1>1, <3>2, NextOpFacts
      <4>2. 1 \in 1..Len(s.installQueue) /\ n = s.installQueue[1]
        BY <1>1, <4>1 DEF Install
      <4>3. n \in ToSet(s.installQueue)
        BY <1>1, <4>2, ToSetIs
      <4> QED
        BY <1>4, <2>2, <4>3 DEF Suits
    <3> QED
      BY <3>1, <3>2
  <2> HIDE DEF b
  <2>4. /\ t.currentAppOp = NoOp /\ t.installQueue = b.installQueue
        /\ t.uninstallQueue = Without(b.uninstallQueue, {n})
    BY <1>2, <2>3, RunSuccessFacts
  <2>5. ToSet(t.uninstallQueue) = ToSet(s.uninstallQueue) \ {n}
    BY <1>1, <1>2, <2>4, WithoutFacts
  <2> HIDE DEF t, n
  <2> DEFINE U == ToSet(s.uninstallQueue)
             I == ToSet(s.installQueue)
  <2>6. n \notin Known
    BY <1>4 DEF n
  <2>7. /\ I \subseteq Known /\ I \cap On(dev) \subseteq U
        /\ \A u \in U : Dependents(u) \cap On(dev) \subseteq U
        /\ \A a \in I : \A d \in Deps[a] : d \in I \/ (dev[d] = "updated" /\ d \notin U)
    BY <2>2 DEF Suits
  <2>8. \A u : Dependents(u) \subseteq Known
    BY DEF Dependents
  <2> HIDE DEF U, I
  <2>9. Suits(U \ {n}, I, dev)
    BY <2>6, <2>7, <2>8 DEF Suits
  <2> QED
    BY <1>2, <2>1, <2>4, <2>5, <2>9 DEF Planned, U, I, n
<1> QED
  BY <1>3, <1>4

LEMMA PlannedStep == DInv /\ [Next]_vars => DInv'
<1> SUFFICES ASSUME DInv, [Next]_vars PROVE DInv'
  OBVIOUS
<1>1. Rendered /\ Rendered'
  BY StructureStep DEF DInv
<1>2. /\ Good(state) /\ state \in States /\ state' \in States
      /\ effect \in Ops \cup {NoOp}
      /\ effect = IF state.currentAppOp = NoOp THEN getNextAppOp(state) ELSE NoOp
      /\ effect' = IF state'.currentAppOp = NoOp THEN getNextAppOp(state') ELSE NoOp
      /\ device \in [Apps -> {"absent", "outdated", "updated"}]
  BY <1>1, NextOpFacts DEF Rendered, Sound, Good, Bounded
<1>3. /\ Closed(OnDevice) /\ Closed(On(device))
      /\ "lost" \notin disturbed => Mirrors(state, device)
      /\ disturbed = {} => Planned(state, device)
  BY DEF DInv, OnDevice, On
<1>4. ASSUME NEW d, DisturbedBy(d), disturbed' = {}, disturbed = {} /\ d = {} => Planned(state', device')
      PROVE  Planned(state', device')
  <2>1. CASE effect' = NoOp /\ state'.currentAppOp = NoOp
    <3>1. getNextAppOp(state') = NoOp
      BY <1>2, <2>1
    <3> QED
      BY <1>2, <2>1, <3>1, OverIsPlanned
  <2>2. CASE ~(effect' = NoOp /\ state'.currentAppOp = NoOp)
    BY <1>4, <2>2, DisturbedFacts
  <2> QED
    BY <2>1, <2>2
<1>5. ASSUME Closed(On(device')),
             "lost" \notin disturbed' => Mirrors(state', device'),
             disturbed' = {} => Planned(state', device')
      PROVE  DInv'
  BY <1>1, <1>5 DEF DInv, OnDevice, On
<1>6. ASSUME NEW action \in UserActions, Dispatch(action) PROVE DInv'
  <2> DEFINE r == reducer(state, action)
  <2>1. /\ device' = device /\ DisturbedBy(Disturbance(action))
        /\ state' = IF effect = NoOp THEN r ELSE Started(r, effect)
    BY <1>6 DEF Dispatch, Render
  <2>2. Good(r) /\ QueuesOnly(state, r)
    BY <1>2, ReducerFacts
  <2>3. ASSUME "lost" \notin disturbed' PROVE Mirrors(state', device')
    <3>1. Mirrors(state, device)
      BY <1>3, <2>1, <2>3, DisturbedFacts
    <3> HIDE DEF r
    <3>2. Mirrors(r, device)
      BY <2>2, <3>1 DEF Mirrors, QueuesOnly
    <3> QED
      BY <1>2, <2>1, <2>2, <3>2, StartedMirrors
  <2>4. ASSUME disturbed = {}, Disturbance(action) = {} PROVE Planned(state', device')
    <3>1. Idle /\ ~(action.type = "install" /\ Mixed(state))
      BY <2>4 DEF Disturbance
    <3>2. state.currentAppOp = NoOp /\ effect = NoOp /\ getNextAppOp(state) = NoOp
      BY <1>2, <3>1 DEF Idle
    <3>3. state.uninstallQueue = <<>> /\ state.installQueue = <<>>
      BY <1>2, <3>2, NextOpFacts
    <3>4. Mirrors(state, device)
      BY <1>3, <2>4
    <3>5. Planned(r, device)
      BY <1>2, <1>3, <3>1, <3>2, <3>3, <3>4, ReducerSuits
    <3> QED
      BY <2>1, <3>2, <3>5
  <2> HIDE DEF r
  <2>5. disturbed' = {} => Planned(state', device')
    BY <1>4, <2>1, <2>4
  <2> QED
    BY <1>3, <1>5, <2>1, <2>3, <2>5
<1>7. CASE RunEffect
  <2>1. /\ effect # NoOp /\ device' = device /\ DisturbedBy({})
        /\ state' = Started(state, effect)
    BY <1>7 DEF RunEffect, Render
  <2>2. state.currentAppOp = NoOp /\ effect \in Ops /\ effect = getNextAppOp(state)
    BY <1>2, <2>1
  <2>3. "lost" \notin disturbed' => Mirrors(state', device')
    BY <1>2, <1>3, <2>1, <2>2, DisturbedFacts, StartedMirrors
  <2>4. disturbed = {} => Planned(state', device')
    BY <1>2, <1>3, <2>1, <2>2, StartedPlanned
  <2>5. disturbed' = {} => Planned(state', device')
    BY <1>4, <2>1, <2>4
  <2> QED
    BY <1>3, <1>5, <2>1, <2>3, <2>5
<1>8. CASE OpSucceeds
  <2> DEFINE op == state.currentAppOp
  <2>1. /\ op # NoOp /\ Accepts(op) /\ device' = DoneBy(op)
        /\ state' = runSuccess(state, op) /\ DisturbedBy({})
    BY <1>8 DEF OpSucceeds, Render
  <2>2. op \in Ops /\ op.name \in Known
    BY <1>1, <2>1 DEF Rendered, Sound
  <2> HIDE DEF op
  <2>3. Closed(On(device'))
    BY <1>1, <1>3, <2>1, <2>2, DoneKeepsClosed
  <2>4. "lost" \notin disturbed' => Mirrors(state', device')
    BY <1>1, <1>3, <2>1, <2>2, DisturbedFacts, DoneMirrors
  <2>5. ASSUME disturbed = {} PROVE Planned(state', device')
    <3>1. Planned(state, device)
      BY <1>3, <2>5
    <3>2. Suits(ToSet(state'.uninstallQueue), ToSet(state'.installQueue), device')
      BY <1>1, <1>3, <2>1, <2>2, <3>1, RestSuits DEF Planned, op
    <3>3. state'.currentAppOp = NoOp
      BY <1>2, <2>1, <2>2, RunSuccessFacts
    <3> QED
      BY <3>2, <3>3 DEF Planned
  <2>6. disturbed' = {} => Planned(state', device')
    BY <1>4, <2>1, <2>5
  <2> QED
    BY <1>5, <2>3, <2>4, <2>6
<1>9. CASE OpFails
  <2> DEFINE op == state.currentAppOp
  <2>1. /\ op # NoOp /\ state' = runError(state, op)
        /\ \/ device' = device /\ DisturbedBy({})
           \/ Accepts(op) /\ device' = DoneBy(op) /\ DisturbedBy({"lost"})
    BY <1>9 DEF OpFails, Render
  <2>2. op \in Ops /\ op.name \in Known
    BY <1>1, <2>1 DEF Rendered, Sound
  <2> HIDE DEF op
  <2>3. Closed(On(device'))
    BY <1>1, <1>3, <2>1, <2>2, DoneKeepsClosed
  <2>4. /\ state'.installed = state.installed /\ state'.outdated = state.outdated
        /\ state'.installQueue = <<>> /\ state'.uninstallQueue = <<>>
        /\ state'.currentAppOp = NoOp
    BY <1>2, <2>1, <2>2, RunErrorFacts
  <2>5. ASSUME "lost" \notin disturbed' PROVE Mirrors(state', device')
    <3>1. device' = device /\ "lost" \notin disturbed
      BY <2>1, <2>5, DisturbedFacts
    <3> QED
      BY <1>3, <2>4, <3>1 DEF Mirrors
  <2>6. Planned(state', device')
    BY <2>4, NothingPlanned
  <2> QED
    BY <1>5, <2>3, <2>5, <2>6
<1>10. CASE UNCHANGED vars
  BY <1>1, <1>3, <1>5, <1>10 DEF vars
<1> QED
  BY <1>6, <1>7, <1>8, <1>9, <1>10 DEF Next

THEOREM PlansMatchDevice == Spec => []DInv
  BY PlannedInitial, PlannedStep, PTL DEF Spec

-----------------------------------------------------------------------------
(* What is predicted for the end of the plan: the applications installed but  *)
(* for those to uninstall, and those to install.                             *)
LEMMA PlanFacts ==
    ASSUME NEW s \in States
    PROVE  LET m == Len(s.uninstallQueue)
               n == Len(s.installQueue)
               plan == getActionPlan(s)
           IN /\ plan \in Seq(Ops) /\ Len(plan) = m + n
              /\ \A i \in 1..m : plan[i] = Uninstall(s.uninstallQueue[i])
              /\ \A i \in 1..n : plan[m + i] = Install(s.installQueue[i])
<1> DEFINE u == s.uninstallQueue
           q == s.installQueue
           pu == [j \in 1..Len(u) |-> Uninstall(u[j])]
           pi == [j \in 1..Len(q) |-> Install(q[j])]
<1>1. u \in Seq(Apps) /\ q \in Seq(Apps)
  BY StateFields
<1> HIDE DEF u, q
<1>2. /\ Len(u) \in Nat /\ \A j \in 1..Len(u) : u[j] \in Apps
      /\ Len(q) \in Nat /\ \A j \in 1..Len(q) : q[j] \in Apps
  BY <1>1
<1>3. /\ pu \in Seq(Ops) /\ Len(pu) = Len(u) /\ \A j \in 1..Len(u) : pu[j] = Uninstall(u[j])
      /\ pi \in Seq(Ops) /\ Len(pi) = Len(q) /\ \A j \in 1..Len(q) : pi[j] = Install(q[j])
  BY <1>2, OpFacts
<1>4. getActionPlan(s) = pu \o pi
  BY DEF getActionPlan, u, q
<1> HIDE DEF pu, pi
<1>5. /\ pu \o pi \in Seq(Ops) /\ Len(pu \o pi) = Len(u) + Len(q)
      /\ \A j \in 1..Len(u) : (pu \o pi)[j] = pu[j]
      /\ \A j \in 1..Len(q) : (pu \o pi)[Len(u) + j] = pi[j]
  BY <1>2, <1>3
<1> QED
  BY <1>3, <1>4, <1>5 DEF u, q

LEMMA PredictedFacts ==
    ASSUME NEW s \in States
    PROVE  Predicted(s) = (ToSet(s.installed) \ ToSet(s.uninstallQueue)) \cup ToSet(s.installQueue)
<1> DEFINE u == s.uninstallQueue
           q == s.installQueue
           inst == ToSet(s.installed)
           plan == getActionPlan(s)
<1>0. PICK m \in Nat, n \in Nat : m = Len(u) /\ n = Len(q)
  BY StateFields
<1>1. u \in Seq(Apps) /\ q \in Seq(Apps)
  BY StateFields
<1>2. /\ plan \in Seq(Ops) /\ Len(plan) = m + n
      /\ \A i \in 1..m : plan[i] = Uninstall(u[i]) /\ u[i] \in Apps
      /\ \A i \in 1..n : plan[m + i] = Install(q[i]) /\ q[i] \in Apps
  <2>1. /\ plan \in Seq(Ops) /\ Len(plan) = Len(u) + Len(q)
        /\ \A i \in 1..Len(u) : plan[i] = Uninstall(u[i])
        /\ \A i \in 1..Len(q) : plan[Len(u) + i] = Install(q[i])
    BY PlanFacts
  <2> HIDE DEF plan, u, q
  <2> QED
    BY <1>0, <1>1, <2>1
<1> HIDE DEF u, q, inst, plan
<1>3. PICK k \in [0..Len(plan) -> States] :
        /\ k[0] = s
        /\ \A i \in 1..Len(plan) : k[i] = runSuccess(k[i-1], plan[i])
        /\ FoldLeft(runSuccess, s, plan) = k[Len(plan)]
  BY <1>2, SuccessSteps
<1>4. /\ \A i \in 0..(m + n) : k[i] \in States
      /\ \A i \in 1..(m + n) : i - 1 \in 0..(m + n) /\ k[i] = runSuccess(k[i-1], plan[i])
      /\ \A i \in 1..(m + n) : plan[i] \in Ops
  BY <1>2, <1>3
<1> DEFINE In(i) == ToSet(k[i].installed)
           Gone(i) == {u[j] : j \in {l \in 1..m : l <= i}}
           New(i) == {q[j] : j \in {l \in 1..n : m + l <= i}}
           T == {i \in 0..(m + n) : In(i) = (inst \ Gone(i)) \cup New(i)}
<1>5. 0 \in T
  <2>1. In(0) = inst
    BY <1>3 DEF inst
  <2>2. Gone(0) = {} /\ New(0) = {}
    OBVIOUS
  <2> QED
    BY <2>1, <2>2
<1>6. ASSUME NEW i \in 1..(m + n), i - 1 \in T PROVE i \in T
  <2>1. /\ In(i - 1) = (inst \ Gone(i - 1)) \cup New(i - 1)
        /\ k[i - 1] \in States /\ plan[i] \in Ops /\ k[i] = runSuccess(k[i - 1], plan[i])
    BY <1>4, <1>6
  <2>2. /\ plan[i].type = "install" => In(i) = In(i - 1) \cup {plan[i].name}
        /\ plan[i].type = "uninstall" => In(i) = In(i - 1) \ {plan[i].name}
    BY <2>1, RunSuccessFacts
  <2>3. CASE i <= m
    <3>1. i \in 1..m /\ plan[i] = Uninstall(u[i])
      BY <1>2, <2>3
    <3>2. In(i) = In(i - 1) \ {u[i]}
      BY <2>2, <3>1 DEF Uninstall
    <3>3. Gone(i) = Gone(i - 1) \cup {u[i]}
      <4>1. {l \in 1..m : l <= i} = {l \in 1..m : l <= i - 1} \cup {i}
        BY <3>1
      <4> QED
        BY <4>1
    <3>4. New(i) = {} /\ New(i - 1) = {}
      BY <2>3
    <3> HIDE DEF In, Gone, New
    <3>5. In(i) = (inst \ Gone(i)) \cup New(i)
      BY <2>1, <3>2, <3>3, <3>4
    <3> QED
      BY <3>5
  <2>4. CASE i > m
    <3>0. PICK j \in 1..n : i = m + j
      <4>1. i - m \in 1..n /\ i = m + (i - m)
        BY <2>4
      <4> QED
        BY <4>1
    <3>1. plan[i] = Install(q[j])
      BY <1>2, <3>0
    <3>2. In(i) = In(i - 1) \cup {q[j]}
      BY <2>2, <3>1 DEF Install
    <3>3. Gone(i) = Gone(i - 1)
      <4>1. {l \in 1..m : l <= i} = {l \in 1..m : l <= i - 1}
        BY <2>4
      <4> QED
        BY <4>1
    <3>4. New(i) = New(i - 1) \cup {q[j]}
      <4>1. {l \in 1..n : m + l <= i} = {l \in 1..n : m + l <= i - 1} \cup {j}
        BY <3>0
      <4> QED
        BY <4>1
    <3> HIDE DEF In, Gone, New
    <3>5. In(i) = (inst \ Gone(i)) \cup New(i)
      BY <2>1, <3>2, <3>3, <3>4
    <3> QED
      BY <3>5
  <2> QED
    BY <2>3, <2>4
<1> HIDE DEF T
<1>7. m + n \in T
  <2>1. m + n \in Nat /\ m + n \in 0..(m + n)
    OBVIOUS
  <2>2. 0..(m + n) \subseteq T
    BY <1>5, <1>6, <2>1, UpToInduction
  <2> QED
    BY <2>1, <2>2
<1>8. Gone(m + n) = ToSet(u)
  <2>1. {l \in 1..m : l <= m + n} = 1..Len(u)
    BY <1>0
  <2>2. Gone(m + n) = {u[j] : j \in 1..Len(u)}
    BY <2>1
  <2>3. ToSet(u) = {u[j] : j \in 1..Len(u)}
    BY <1>1, ToSetIs
  <2> QED
    BY <2>2, <2>3
<1>9. New(m + n) = ToSet(q)
  <2>1. {l \in 1..n : m + l <= m + n} = 1..Len(q)
    BY <1>0
  <2>2. New(m + n) = {q[j] : j \in 1..Len(q)}
    BY <2>1
  <2>3. ToSet(q) = {q[j] : j \in 1..Len(q)}
    BY <1>1, ToSetIs
  <2> QED
    BY <2>2, <2>3
<1>10. Predicted(s) = In(m + n)
  BY <1>2, <1>3 DEF Predicted, predictOptimisticState, plan
<1> HIDE DEF In, Gone, New
<1> QED
  BY <1>7, <1>8, <1>9, <1>10 DEF T, u, q, inst

(* The step the prediction is about.                                         *)
LEMMA StableStep ==
    ASSUME Rendered, Next, state.currentAppOp # NoOp, state'.currentAppOp = NoOp,
           state'.currentError = NoOp, state.currentAppOp = getNextAppOp(state)
    PROVE  Predicted(state') = Predicted(state)
<1> DEFINE op == state.currentAppOp
<1>1. /\ Good(state) /\ state \in States /\ op \in Ops /\ op # NoOp /\ effect = NoOp
  BY DEF Rendered, Sound, Good
<1>2. state' = runSuccess(state, op)
  <2>1. ASSUME NEW action \in UserActions, Dispatch(action) PROVE FALSE
    <3>1. state' = reducer(state, action)
      BY <1>1, <2>1 DEF Dispatch, Render
    <3>2. state'.currentAppOp = state.currentAppOp
      BY <1>1, <3>1, ReducerFacts DEF QueuesOnly
    <3> QED
      BY <3>2
  <2>2. CASE RunEffect
    BY <1>1, <2>2 DEF RunEffect
  <2>3. CASE OpFails
    <3>1. state' = runError(state, op)
      BY <2>3 DEF OpFails, Render
    <3>2. state'.currentError = op
      BY <1>1, <3>1, RunErrorFacts
    <3> QED
      BY <1>1, <3>2
  <2>4. CASE OpSucceeds
    BY <2>4 DEF OpSucceeds, Render
  <2> QED
    BY <2>1, <2>2, <2>3, <2>4 DEF Next
<1> DEFINE t == runSuccess(state, op)
           U == ToSet(state.uninstallQueue)
           I == ToSet(state.installQueue)
           inst == ToSet(state.installed)
           n == op.name
<1>3. /\ state.installQueue \in Seq(Apps) /\ state.uninstallQueue \in Seq(Apps)
      /\ op.type \in {"install", "uninstall"}
  BY <1>1, StateFields, OpFacts
<1>4. /\ t \in States
      /\ op.type = "install" => /\ ToSet(t.installed) = inst \cup {n}
                                /\ t.uninstallQueue = state.uninstallQueue
                                /\ t.installQueue = Without(state.installQueue, {n})
      /\ op.type = "uninstall" => /\ ToSet(t.installed) = inst \ {n}
                                  /\ t.installQueue = state.installQueue
                                  /\ t.uninstallQueue = Without(state.uninstallQueue, {n})
  BY <1>1, RunSuccessFacts
<1> HIDE DEF t
<1>5. /\ Predicted(state) = (inst \ U) \cup I
      /\ Predicted(t) = (ToSet(t.installed) \ ToSet(t.uninstallQueue)) \cup ToSet(t.installQueue)
  BY <1>1, <1>4, PredictedFacts
<1>6. CASE state.uninstallQueue # <<>>
  <2>1. op = Uninstall(state.uninstallQueue[1]) /\ 1 \in 1..Len(state.uninstallQueue)
    BY <1>1, <1>3, <1>6, NextOpFacts
  <2>2. op.type = "uninstall" /\ n \in U
    BY <1>3, <2>1, ToSetIs DEF Uninstall
  <2>3. ToSet(t.uninstallQueue) = U \ {n}
    BY <1>3, <1>4, <2>2, WithoutFacts
  <2>4. ToSet(t.installed) = inst \ {n} /\ ToSet(t.installQueue) = I
    BY <1>4, <2>2
  <2> HIDE DEF U, I, inst, n
  <2>5. Predicted(t) = ((inst \ {n}) \ (U \ {n})) \cup I
    BY <1>5, <2>3, <2>4
  <2>6. (inst \ {n}) \ (U \ {n}) = inst \ U
    BY <2>2
  <2> QED
    BY <1>2, <1>5, <2>5, <2>6 DEF t
<1>7. CASE state.uninstallQueue = <<>>
  <2>1. state.installQueue # <<>>
    BY <1>1, <1>7, NextOpFacts
  <2>2. op = Install(state.installQueue[1]) /\ 1 \in 1..Len(state.installQueue)
    BY <1>1, <1>3, <1>7, <2>1, NextOpFacts
  <2>3. op.type = "install" /\ n \in I /\ U = {}
    BY <1>3, <1>7, <2>2, ToSetIs, EmptyQueue DEF Install
  <2>4. ToSet(t.installQueue) = I \ {n}
    BY <1>3, <1>4, <2>3, WithoutFacts
  <2>5. ToSet(t.installed) = inst \cup {n} /\ ToSet(t.uninstallQueue) = U
    BY <1>4, <2>3
  <2> HIDE DEF U, I, inst, n
  <2>6. Predicted(t) = ((inst \cup {n}) \ U) \cup (I \ {n})
    BY <1>5, <2>4, <2>5
  <2>7. ((inst \cup {n}) \ U) \cup (I \ {n}) = (inst \ U) \cup I
    BY <2>3
  <2> QED
    BY <1>2, <1>5, <2>6, <2>7 DEF t
<1> QED
  BY <1>6, <1>7

(* An action on empty queues predicts a closed set of applications.           *)
LEMMA ReducerClosed ==
    ASSUME NEW s, Good(s), Closed(ToSet(s.installed)),
           s.installQueue = <<>>, s.uninstallQueue = <<>>, NEW action \in UserActions
    PROVE  Closed(Predicted(reducer(s, action)))
<1> DEFINE t == reducer(s, action)
           U == ToSet(t.uninstallQueue)
           I == ToSet(t.installQueue)
           inst == ToSet(s.installed)
<1>0. SUFFICES Closed(Predicted(t))
  OBVIOUS
<1>1. Good(t) /\ t \in States /\ t.installed = s.installed
  BY ReducerFacts DEF Good, QueuesOnly
<1>2. Predicted(t) = (inst \ U) \cup I
  <2> HIDE DEF t
  <2> QED
    BY <1>1, PredictedFacts
<1>3. \/ action.type = "install" /\ action.name \in Known
      \/ action.type \in {"uninstall", "force uninstall"} /\ action.name \in Apps
      \/ action.type \in {"wipe", "updateAll", "recover"}
  BY DEF UserActions
<1>4. inst \subseteq Apps /\ s.installed \in Seq(Apps)
  BY StateFields, ToSetIs DEF Good
<1>5. \A a \in inst : DepsOf(a) \subseteq inst
  BY DEF Closed
<1>6. ASSUME U = {}, I = {} PROVE Closed(Predicted(t))
  <2> HIDE DEF t, U, I, inst
  <2> QED
    BY <1>2, <1>5, <1>6 DEF Closed
<1>7. ASSUME t = s PROVE Closed(Predicted(t))
  <2> HIDE DEF t
  <2> QED
    BY <1>6, <1>7, EmptyQueue
<1>8. CASE action.type = "install"
  <2> DEFINE a == action.name
  <2>1. t = install(s, a) /\ a \in Known
    BY <1>3, <1>8 DEF reducer
  <2> HIDE DEF t
  <2>2. CASE NothingToInstall(s, a)
    <3>1. t = s
      BY <2>1, <2>2, InstallFacts
    <3> QED
      BY <1>7, <3>1
  <2>3. CASE ~NothingToInstall(s, a)
    <3>1. /\ I = Around(s, a) \cup (Deps[a] \ inst) \cup {a}
          /\ U = Around(s, a)
      BY <2>1, <2>3, InstallFacts, EmptyQueue
    <3>2. Around(s, a) \subseteq inst
      BY DEF Around
    <3>3. /\ DepsOf(a) = Deps[a]
          /\ \A d \in Deps[a] : DepsOf(d) = {}
      BY <2>1, DepsFacts DEF DepsOf, Apps
    <3> DEFINE A == Around(s, a)
    <3> HIDE DEF A, U, I, inst, a
    <3>4. Predicted(t) = inst \cup (Deps[a] \ inst) \cup {a}
      BY <1>2, <3>1, <3>2 DEF A
    <3> QED
      BY <1>5, <3>3, <3>4 DEF Closed
  <2> QED
    BY <2>2, <2>3
<1>9. ASSUME NEW force \in BOOLEAN, NEW a \in Apps, t = uninstall(s, a, force)
      PROVE  Closed(Predicted(t))
  <2> DEFINE r == uninstall(s, a, force)
  <2>1. /\ ToSet(r.installQueue) = ToSet(s.installQueue) \ {a}
        /\ \/ /\ ToSet(r.uninstallQueue) = {a} \cup (Dependents(a) \cap inst)
           \/ r.uninstallQueue = <<>> /\ a \notin inst
    BY UninstallFacts
  <2> HIDE DEF r, t
  <2>2. I = {} /\ (U = {a} \cup (Dependents(a) \cap inst) \/ U = {})
    BY <1>9, <2>1, EmptyQueue DEF r
  <2>3. CASE U = {}
    BY <1>6, <2>2, <2>3
  <2>4. CASE U = {a} \cup (Dependents(a) \cap inst)
    <3> HIDE DEF U, I, inst
    <3>1. ASSUME NEW b \in inst \ U, NEW d \in DepsOf(b) PROVE d \in inst \ U
      <4>1. d \in inst /\ b \in Apps /\ d \in Apps
        BY <1>4, <1>5, <3>1
      <4>2. d # a
        BY <2>4, <3>1, <4>1, DepsFacts DEF DepsOf
      <4>3. d \notin Dependents(a)
        BY <3>1, <4>1, DepsFacts
      <4> QED
        BY <2>4, <4>1, <4>2, <4>3
    <3>2. Predicted(t) = inst \ U
      BY <1>2, <2>2
    <3> QED
      BY <3>1, <3>2 DEF Closed
  <2> QED
    BY <2>2, <2>3, <2>4
<1>10. CASE action.type = "uninstall"
  <2>1. t = uninstall(s, action.name, FALSE)
    BY <1>10 DEF reducer
  <2> HIDE DEF t
  <2> QED
    BY <1>3, <1>9, <1>10, <2>1
<1>11. CASE action.type = "force uninstall"
  <2>1. t = uninstall(s, action.name, TRUE)
    BY <1>11 DEF reducer
  <2> HIDE DEF t
  <2> QED
    BY <1>3, <1>9, <1>11, <2>1
<1>12. CASE action.type = "wipe"
  <2>1. t = wipe(s)
    BY <1>12 DEF reducer
  <2> HIDE DEF t
  <2>2. U = inst /\ I = {}
    BY <2>1, WipeFacts, EmptyQueue
  <2> HIDE DEF U, I, inst
  <2>3. Predicted(t) = {}
    BY <1>2, <2>2
  <2> QED
    BY <2>3 DEF Closed
<1>13. CASE action.type = "updateAll"
  <2>1. t = updateAll(s)
    BY <1>13 DEF reducer
  <2> HIDE DEF t
  <2>2. U = ToSet(Targets(s)) /\ I = ToSet(Targets(s))
    BY <2>1, UpdateAllFacts
  <2>3. ToSet(Targets(s)) \subseteq inst
    <3>1. ToSet(Targets(s)) =
            UNION {{a} \cup (inst \cap Dependents(a)) : a \in inst \cap s.outdated \cap Known}
      BY TargetsFacts DEF Good
    <3> HIDE DEF inst
    <3> QED
      BY <3>1
  <2> HIDE DEF U, I, inst
  <2>4. Predicted(t) = inst
    BY <1>2, <2>2, <2>3
  <2> QED
    BY <1>5, <2>4 DEF Closed
<1>14. CASE action.type = "recover"
  <2>1. t.installQueue = <<>> /\ t.uninstallQueue = <<>>
    BY <1>14 DEF reducer, recover, Good, States
  <2> HIDE DEF t
  <2> QED
    BY <1>6, <2>1, EmptyQueue
<1> HIDE DEF t
<1> QED
  BY <1>3, <1>8, <1>10, <1>11, <1>12, <1>13, <1>14

LEMMA SoundPlanStep ==
    ASSUME Rendered, Next, Idle, Closed(ToSet(state.installed)), actions' # actions
    PROVE  /\ Closed(Predicted(state'))
           /\ \A a \in Known : state' = install(state, a) => a \in Predicted(state')
           /\ \A a \in Apps, force \in BOOLEAN :
                state' = uninstall(state, a, force) => a \notin Predicted(state')
<1>1. /\ Good(state) /\ state \in States
      /\ state.currentAppOp = NoOp /\ effect = NoOp /\ getNextAppOp(state) = NoOp
  BY DEF Rendered, Sound, Good, Idle
<1>2. state.uninstallQueue = <<>> /\ state.installQueue = <<>>
  BY <1>1, NextOpFacts
<1>3. PICK action \in UserActions : Dispatch(action)
  BY DEF Next, RunEffect, OpSucceeds, OpFails
<1>4. state' = reducer(state, action)
  BY <1>1, <1>3 DEF Dispatch, Render
<1>5. Closed(Predicted(state'))
  BY <1>1, <1>2, <1>4, ReducerClosed
<1>6. ASSUME NEW a \in Known, state' = install(state, a) PROVE a \in Predicted(state')
  <2> DEFINE t == install(state, a)
  <2>1. /\ t \in States
        /\ NothingToInstall(state, a) => t = state
        /\ ~NothingToInstall(state, a) => a \in ToSet(t.installQueue)
    <3>1. /\ Good(t)
          /\ NothingToInstall(state, a) => t = state
          /\ state.uninstallQueue = <<>> /\ ~NothingToInstall(state, a) =>
               ToSet(t.installQueue) = ToSet(state.installQueue) \cup Around(state, a)
                 \cup (Deps[a] \ ToSet(state.installed)) \cup {a}
      BY <1>1, InstallFacts
    <3> HIDE DEF t
    <3> QED
      BY <1>2, <3>1 DEF Good
  <2>2. Predicted(t) = (ToSet(t.installed) \ ToSet(t.uninstallQueue)) \cup ToSet(t.installQueue)
    BY <2>1, PredictedFacts
  <2>3. ASSUME NothingToInstall(state, a)
        PROVE  a \in ToSet(state.installed) /\ ToSet(state.uninstallQueue) = {}
    <3>1. ~Contains(state.installQueue, a)
      <4>1. state.installQueue \in Seq(Apps) /\ ToSet(state.installQueue) = {}
        BY <1>1, <1>2, EmptyQueue, StateFields
      <4> QED
        BY <4>1, ToSetIs
    <3>2. IsInstalled(state, a)
      BY <2>3, <3>1 DEF NothingToInstall
    <3> QED
      BY <1>1, <1>2, <3>2, EmptyQueue, StateFields, ToSetIs DEF IsInstalled
  <2> HIDE DEF t
  <2>4. a \in Predicted(t)
    BY <2>1, <2>2, <2>3
  <2> QED
    BY <1>6, <2>4 DEF t
<1>7. ASSUME NEW a \in Apps, NEW force \in BOOLEAN, state' = uninstall(state, a, force)
      PROVE  a \notin Predicted(state')
  <2> DEFINE t == uninstall(state, a, force)
  <2>1. /\ Good(t) /\ QueuesOnly(state, t)
        /\ state.uninstallQueue = <<>> =>
             /\ ToSet(t.installQueue) = ToSet(state.installQueue) \ {a}
             /\ \/ /\ ToSet(t.uninstallQueue) =
                        {a} \cup (Dependents(a) \cap ToSet(state.installed))
                \/ t.uninstallQueue = <<>> /\ a \notin ToSet(state.installed)
    BY <1>1, UninstallFacts
  <2> HIDE DEF t
  <2>2. Predicted(t) = (ToSet(t.installed) \ ToSet(t.uninstallQueue)) \cup ToSet(t.installQueue)
    BY <2>1, PredictedFacts DEF Good
  <2>3. t.installed = state.installed
    BY <2>1 DEF QueuesOnly
  <2>4. a \notin ToSet(t.installQueue)
    BY <1>2, <2>1
  <2>5. a \in ToSet(t.uninstallQueue) \/ a \notin ToSet(state.installed)
    BY <1>2, <2>1
  <2>6. a \notin Predicted(t)
    BY <2>2, <2>3, <2>4, <2>5
  <2> QED
    BY <1>7, <2>6 DEF t
<1> QED
  BY <1>5, <1>6, <1>7

-----------------------------------------------------------------------------
(* The state of the manager keeps its type: the reducer, the runner and the  *)
(* hook put nothing but applications in the queues, and an operation of the  *)
(* plan is all that is ever under way.                                       *)
THEOREM TypeCorrect == Spec => []TypeOK
  BY Structure, RenderedImplies, PTL

(* Whatever the user asks for, whatever the device answers, the queues hold  *)
(* each application once, its dependencies before it to install and after it *)
(* to uninstall (logic.js reorderInstallQueue and reorderUninstallQueue).    *)
THEOREM QueuesStayInOrder == Spec => []QueuesInOrder
  BY Structure, RenderedImplies, PTL

(* The hook never rests on a plan: with no operation under way or scheduled, *)
(* both queues and the record of the "update all" are empty.                 *)
THEOREM NoPlanIsForgotten == Spec => []NothingIsForgotten
  BY Structure, RenderedImplies, PTL

(* Until an answer is lost, what runSuccess and runError make of `installed` *)
(* is what is on the device.                                                 *)
THEOREM ManagerMirrorsDevice == Spec => []MirrorsDevice
  BY PlansMatchDevice, PlannedIsAccepted, PTL

(* The device refuses no operation of a plan nothing has disturbed: the      *)
(* reducer plans what the device, which it does not see, will take.          *)
THEOREM UndisturbedPlanIsAccepted == Spec => []PlanIsAccepted
  BY PlansMatchDevice, PlannedIsAccepted, PTL

(* The end of the next operation leaves what predictOptimisticState shows    *)
(* the user as it was.                                                       *)
THEOREM PredictionStaysStable == Spec => PredictionIsStable
<1> DEFINE A == state.currentAppOp # NoOp /\ state'.currentAppOp = NoOp
                  /\ state'.currentError = NoOp
                  /\ state.currentAppOp = getNextAppOp(state)
                => Predicted(state') = Predicted(state)
<1>1. Rendered /\ [Next]_vars => [A]_vars
  <2> SUFFICES ASSUME Rendered, Next PROVE A
    BY DEF vars
  <2> QED
    BY StableStep
<1> QED
  BY <1>1, Structure, PTL DEF Spec, PredictionIsStable

(* The plan an action makes of an idle manager ends with what was asked for, *)
(* and with no application without the one it depends on.                    *)
THEOREM PlansStaySound == Spec => PlansAreSound
<1> DEFINE A == Idle /\ Closed(ToSet(state.installed)) /\ actions' # actions =>
                  /\ Closed(Predicted(state'))
                  /\ \A a \in Known : state' = install(state, a) => a \in Predicted(state')
                  /\ \A a \in Apps, force \in BOOLEAN :
                       state' = uninstall(state, a, force) => a \notin Predicted(state')
<1>1. Rendered /\ [Next]_vars => [A]_vars
  <2> SUFFICES ASSUME Rendered, Next PROVE A
    BY DEF vars
  <2> QED
    BY SoundPlanStep
<1> QED
  BY <1>1, Structure, PTL DEF Spec, PlansAreSound

=================================================================================
