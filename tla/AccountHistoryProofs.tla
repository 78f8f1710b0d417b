-------------------------- MODULE AccountHistoryProofs --------------------------
(***************************************************************************)
(* Proofs about AccountHistory, for any transactions, bridges and bounds.  *)
(* The recursive definitions of Reconciliation (the filter, the merge, the *)
(* builder) are first put step by step, so that what holds of their values *)
(* is proved by induction on the steps.                                    *)
(***************************************************************************)
EXTENDS AccountHistory, FiniteSetTheorems, SequenceTheorems, TLAPS

LEMMA NatSetInduction ==
    ASSUME NEW S, 0 \in S, \A n \in Nat : n \in S => n + 1 \in S
    PROVE  Nat \subseteq S
<1> DEFINE T == Nat \ S
<1> SUFFICES ASSUME T # {} PROVE FALSE
  OBVIOUS
<1>1. PICK m \in T : \A n \in T : ~(<<n, m>> \in OpToRel(<, Nat))
  <2> HIDE DEF T
  <2> QED
    BY NatLessThanWellFounded, WFMin DEF T
<1>2. m \in Nat \ {0} /\ m - 1 \in Nat
  OBVIOUS
<1>3. <<m - 1, m>> \in OpToRel(<, Nat)
  BY <1>2 DEF OpToRel
<1>4. m - 1 \in S
  BY <1>1, <1>2, <1>3
<1> QED
  BY <1>2, <1>4

(* Induction up to n. *)
LEMMA UpToInduction ==
    ASSUME NEW n \in Nat, NEW S, 0 \in S, \A i \in 1..n : i - 1 \in S => i \in S
    PROVE  0..n \subseteq S
<1> DEFINE T == {m \in Nat : m <= n => m \in S}
<1>1. ASSUME NEW m \in Nat, m \in T PROVE m + 1 \in T
  <2> SUFFICES ASSUME m + 1 <= n PROVE m + 1 \in S
    OBVIOUS
  <2>1. m \in S /\ m + 1 \in 1..n /\ (m + 1) - 1 = m
    BY <1>1
  <2> QED
    BY <2>1
<1>2. 0 \in T
  OBVIOUS
<1>3. Nat \subseteq T
  <2> HIDE DEF T
  <2> QED
    BY <1>1, <1>2, NatSetInduction
<1> QED
  BY <1>3

(* The functions that go on from b with the steps F. *)
Recursions(V, b, n, F) ==
    {g \in [0..n -> V] : g[0] = b /\ \A i \in 1..n : g[i] = F[i][g[i-1]]}

LEMMA RecursionExists ==
    ASSUME NEW V, NEW b \in V, NEW n \in Nat, NEW F \in [1..n -> [V -> V]]
    PROVE  Recursions(V, b, n, F) # {}
<1> DEFINE P(m) == \E g \in [0..m -> V] : g[0] = b /\ \A i \in 1..m : g[i] = F[i][g[i-1]]
           S == {m \in Nat : m <= n => P(m)}
<1>1. P(0)
  <2> DEFINE g == [i \in 0..0 |-> b]
  <2>1. g \in [0..0 -> V] /\ g[0] = b /\ \A i \in 1..0 : g[i] = F[i][g[i-1]]
    OBVIOUS
  <2> QED
    BY <2>1
<1>2. ASSUME NEW m \in Nat, m + 1 <= n, P(m) PROVE P(m + 1)
  <2>1. PICK h \in [0..m -> V] : h[0] = b /\ \A i \in 1..m : h[i] = F[i][h[i-1]]
    BY <1>2
  <2> DEFINE g == [i \in 0..(m + 1) |-> IF i = m + 1 THEN F[m + 1][h[m]] ELSE h[i]]
  <2>2. F[m + 1] \in [V -> V] /\ h[m] \in V
    BY <1>2
  <2>3. g \in [0..(m + 1) -> V]
    BY <2>2
  <2>4. \A i \in 0..m : g[i] = h[i]
    OBVIOUS
  <2>5. g[0] = b
    BY <2>1, <2>4
  <2>6. \A i \in 1..(m + 1) : g[i] = F[i][g[i-1]]
    <3> TAKE i \in 1..(m + 1)
    <3>1. CASE i = m + 1
      BY <3>1, <2>4
    <3>2. CASE i \in 1..m
      BY <3>2, <2>1, <2>4
    <3> QED
      BY <3>1, <3>2
  <2> HIDE DEF g
  <2> QED
    BY <2>3, <2>5, <2>6
<1>3. 0 \in S /\ \A m \in Nat : m \in S => m + 1 \in S
  <2> HIDE DEF P
  <2> QED
    BY <1>1, <1>2
<1>4. n \in S
  <2> HIDE DEF S
  <2> QED
    BY <1>3, NatSetInduction
<1> QED
  BY <1>4 DEF Recursions

(* One step of Among. *)
Kept(q, x, S) == IF x \in S THEN Append(q, x) ELSE q

(* Among, step by step.                                                       *)
LEMMA AmongSteps ==
    ASSUME NEW V, NEW list \in Seq(V), NEW S
    PROVE  \E k \in [0..Len(list) -> Seq(V)] :
             /\ k[0] = <<>>
             /\ \A i \in 1..Len(list) : k[i] = Kept(k[i-1], list[i], S)
             /\ Among(list, S) = k[Len(list)]
<1> DEFINE n == Len(list)
           W == Seq(V)
           empty == <<>>
           next(q, i) == Kept(q, list[i], S)
           F == [i \in 1..n |-> [q \in W |-> next(q, i)]]
           Eq(k) == k = [i \in 0..n |-> IF i = 0 THEN empty ELSE next(k[i-1], i)]
<1>1. n \in Nat /\ empty \in W
  OBVIOUS
<1>2. F \in [1..n -> [W -> W]]
  BY DEF Kept
<1>3. PICK g \in [0..n -> W] : g[0] = empty /\ \A i \in 1..n : g[i] = F[i][g[i-1]]
  <2> HIDE DEF n, W, empty, F, next, Eq
  <2>1. n \in Nat /\ empty \in W /\ F \in [1..n -> [W -> W]]
    BY <1>1, <1>2
  <2>2. Recursions(W, empty, n, F) # {}
    BY <2>1, RecursionExists
  <2> QED
    BY <2>2 DEF Recursions
<1> HIDE DEF n, W, empty
<1>4. ASSUME NEW i \in 1..n PROVE g[i] = next(g[i-1], i)
  <2>1. g[i-1] \in W
    BY <1>1, <1>3
  <2>2. F[i] = [q \in W |-> next(q, i)]
    OBVIOUS
  <2>3. g[i] = F[i][g[i-1]]
    BY <1>3
  <2> HIDE DEF F, next
  <2> QED
    BY <2>1, <2>2, <2>3
<1> HIDE DEF next
<1>5. Eq(g)
  BY <1>1, <1>3, <1>4
<1>6. PICK k : Eq(k) /\ Among(list, S) = k[n]
  BY <1>5 DEF Among, Kept, n, empty, next
<1>7. k[0] = empty /\ \A i \in 1..n : k[i] = next(k[i-1], i)
  BY <1>1, <1>6
<1>8. 0..n \subseteq {i \in 0..n : g[i] = k[i]}
  <2> DEFINE T == {i \in 0..n : g[i] = k[i]}
  <2>1. 0 \in T
    BY <1>1, <1>3, <1>7
  <2>2. ASSUME NEW i \in 1..n, i - 1 \in T PROVE i \in T
    <3>1. g[i-1] = k[i-1] /\ i \in 0..n
      BY <1>1, <2>2
    <3> QED
      BY <1>4, <1>7, <3>1
  <2> HIDE DEF T
  <2>3. 0..n \subseteq T
    BY <1>1, <2>1, <2>2, UpToInduction
  <2> QED
    BY <2>3 DEF T
<1>9. g[n] = k[n]
  BY <1>1, <1>8
<1> QED
  BY <1>3, <1>4, <1>6, <1>9 DEF n, W, empty, next

LEMMA AmongFacts ==
    ASSUME NEW V, NEW list \in Seq(V), NEW S
    PROVE  /\ Among(list, S) \in Seq(V)
           /\ ToSet(Among(list, S)) = ToSet(list) \cap S
           /\ \A a, b \in 1..Len(Among(list, S)) : a < b =>
                \E i, j \in 1..Len(list) :
                  i < j /\ list[i] = Among(list, S)[a] /\ list[j] = Among(list, S)[b]
<1> DEFINE n == Len(list)
<1>1. n \in Nat /\ list \in [1..n -> V]
  OBVIOUS
<1>2. PICK k \in [0..n -> Seq(V)] :
         /\ k[0] = <<>>
         /\ \A i \in 1..n : k[i] = Kept(k[i-1], list[i], S)
         /\ Among(list, S) = k[n]
  BY AmongSteps, SMTT(30)
<1> HIDE DEF n
<1> DEFINE Ordered(m) ==
             \A a, b \in 1..Len(k[m]) : a < b =>
               \E i, j \in 1..m : i < j /\ list[i] = k[m][a] /\ list[j] = k[m][b]
           P(m) ==
             /\ \A a \in 1..Len(k[m]) : \E i \in 1..m : k[m][a] = list[i] /\ list[i] \in S
             /\ \A i \in 1..m : list[i] \in S => \E a \in 1..Len(k[m]) : k[m][a] = list[i]
             /\ Ordered(m)
           T == {m \in 0..n : P(m)}
<1>3. P(0)
  BY <1>2
<1>4. ASSUME NEW m \in 1..n, P(m - 1) PROVE P(m)
  <2>1. m - 1 \in Nat /\ m \in Nat /\ k[m-1] \in Seq(V) /\ list[m] \in V
    BY <1>1
  <2>2. CASE list[m] \notin S
    <3>1. k[m] = k[m-1]
      BY <1>2, <2>2 DEF Kept
    <3>2. \A i \in 1..m : i \in 1..(m - 1) \/ i = m
      BY <2>1
    <3>3. 1..(m-1) \subseteq 1..m
      BY <2>1
    <3> DEFINE q == k[m-1]
    <3>4. /\ \A a \in 1..Len(q) : \E i \in 1..(m - 1) : q[a] = list[i] /\ list[i] \in S
          /\ \A i \in 1..(m - 1) : list[i] \in S => \E a \in 1..Len(q) : q[a] = list[i]
          /\ \A a, b \in 1..Len(q) : a < b =>
               \E i, j \in 1..(m - 1) : i < j /\ list[i] = q[a] /\ list[j] = q[b]
      BY <1>4
    <3> HIDE DEF q
    <3>5. /\ \A a \in 1..Len(q) : \E i \in 1..m : q[a] = list[i] /\ list[i] \in S
          /\ \A i \in 1..m : list[i] \in S => \E a \in 1..Len(q) : q[a] = list[i]
      BY <2>2, <3>2, <3>3, <3>4
    <3>6. \A a, b \in 1..Len(q) : a < b =>
               \E i, j \in 1..m : i < j /\ list[i] = q[a] /\ list[j] = q[b]
      BY <3>3, <3>4
    <3>7. k[m] = q
      BY <3>1 DEF q
    <3>8. /\ \A a \in 1..Len(k[m]) : \E i \in 1..m : k[m][a] = list[i] /\ list[i] \in S
          /\ \A i \in 1..m : list[i] \in S => \E a \in 1..Len(k[m]) : k[m][a] = list[i]
      BY <3>5, <3>7, Zenon
    <3>9. ASSUME NEW a \in 1..Len(k[m]), NEW b \in 1..Len(k[m]), a < b
          PROVE  \E i, j \in 1..m : i < j /\ list[i] = k[m][a] /\ list[j] = k[m][b]
      <4>1. a \in 1..Len(q) /\ b \in 1..Len(q) /\ k[m][a] = q[a] /\ k[m][b] = q[b]
        BY <3>7
      <4>2. PICK i \in 1..m, j \in 1..m : i < j /\ list[i] = q[a] /\ list[j] = q[b]
        BY <3>6, <3>9, <4>1
      <4> QED
        BY <4>1, <4>2
    <3> QED
      BY <3>8, <3>9, Zenon
  <2>3. CASE list[m] \in S
    <3> DEFINE q == k[m-1]
               l == Len(q)
    <3>1. k[m] = Append(q, list[m]) /\ q \in Seq(V) /\ l \in Nat
      <4>1. k[m] = Kept(q, list[m], S)
        BY <1>2
      <4> QED
        BY <2>1, <2>3, <4>1 DEF Kept
    <3>2. Len(k[m]) = l + 1 /\ k[m][l + 1] = list[m] /\ \A a \in 1..l : k[m][a] = q[a]
      BY <2>1, <3>1
    <3>3. \A i \in 1..m : i \in 1..(m - 1) \/ i = m
      BY <2>1
    <3>4. 1..(m-1) \subseteq 1..m /\ m \in 1..m
      BY <2>1
    <3>5. \A a \in 1..Len(k[m]) : a \in 1..l \/ a = l + 1
      BY <3>1, <3>2
    <3>6. 1..l \subseteq 1..Len(k[m]) /\ l + 1 \in 1..Len(k[m])
      BY <3>1, <3>2
    <3> HIDE DEF q, l
    <3>7. \A a \in 1..Len(k[m]) : \E i \in 1..m : k[m][a] = list[i] /\ list[i] \in S
      <4> TAKE a \in 1..Len(k[m])
      <4>1. CASE a \in 1..l
        <5>1. PICK i \in 1..(m-1) : q[a] = list[i] /\ list[i] \in S
          BY <1>4, <4>1 DEF q, l
        <5> QED
          BY <3>2, <3>4, <4>1, <5>1
      <4>2. CASE a = l + 1
        BY <2>3, <3>2, <3>4, <4>2
      <4> QED
        BY <3>5, <4>1, <4>2
    <3>8. \A i \in 1..m : list[i] \in S => \E a \in 1..Len(k[m]) : k[m][a] = list[i]
      <4> TAKE i \in 1..m
      <4> HAVE list[i] \in S
      <4>1. CASE i \in 1..(m-1)
        <5>1. PICK a \in 1..l : q[a] = list[i]
          BY <1>4, <4>1 DEF q, l
        <5> QED
          BY <3>2, <3>6, <5>1
      <4>2. CASE i = m
        BY <3>2, <3>6, <4>2
      <4> QED
        BY <3>3, <4>1, <4>2
    <3>9. ASSUME NEW a \in 1..Len(k[m]), NEW b \in 1..Len(k[m]), a < b
          PROVE  \E i, j \in 1..m : i < j /\ list[i] = k[m][a] /\ list[j] = k[m][b]
      <4>1. a \in 1..l /\ k[m][a] = q[a]
        BY <3>1, <3>2, <3>5, <3>9
      <4>2. CASE b \in 1..l
        <5>1. PICK i \in 1..(m-1), j \in 1..(m-1) : i < j /\ list[i] = q[a] /\ list[j] = q[b]
          BY <1>4, <3>9, <4>1, <4>2 DEF q, l
        <5> QED
          BY <3>2, <3>4, <4>1, <4>2, <5>1
      <4>3. CASE b = l + 1
        <5>1. PICK i \in 1..(m-1) : q[a] = list[i]
          BY <1>4, <4>1 DEF q, l
        <5>2. i \in 1..m /\ m \in 1..m /\ i < m
          BY <2>1
        <5> QED
          BY <3>2, <4>1, <4>3, <5>1, <5>2
      <4> QED
        BY <3>5, <4>2, <4>3
    <3> QED
      BY <3>7, <3>8, <3>9
  <2> QED
    BY <2>2, <2>3
<1>5. P(n)
  <2>1. 0 \in T
    BY <1>1, <1>3
  <2>2. ASSUME NEW i \in 1..n, i - 1 \in T PROVE i \in T
    <3>1. i \in 0..n /\ P(i - 1)
      BY <1>1, <2>2
    <3> HIDE DEF P
    <3> QED
      BY <1>4, <3>1
  <2>3. 0..n \subseteq T
    <3> HIDE DEF T
    <3> QED
      BY <1>1, <2>1, <2>2, UpToInduction
  <2> HIDE DEF P
  <2> QED
    BY <1>1, <2>3
<1>6. Among(list, S) = k[n] /\ k[n] \in Seq(V)
  BY <1>1, <1>2
<1>7. DOMAIN list = 1..n /\ DOMAIN k[n] = 1..Len(k[n])
  BY <1>1, <1>6
<1>8. ToSet(k[n]) = ToSet(list) \cap S
  <2>1. ASSUME NEW x \in ToSet(k[n]) PROVE x \in ToSet(list) \cap S
    <3>1. PICK a \in 1..Len(k[n]) : x = k[n][a]
      BY <1>7 DEF ToSet
    <3>2. PICK i \in 1..n : k[n][a] = list[i] /\ list[i] \in S
      BY <1>5
    <3> QED
      BY <1>7, <3>1, <3>2 DEF ToSet
  <2>2. ASSUME NEW x \in ToSet(list) \cap S PROVE x \in ToSet(k[n])
    <3>1. PICK i \in 1..n : x = list[i]
      BY <1>7 DEF ToSet
    <3>2. PICK a \in 1..Len(k[n]) : k[n][a] = list[i]
      BY <1>5, <3>1
    <3> QED
      BY <1>7, <3>1, <3>2 DEF ToSet
  <2> QED
    BY <2>1, <2>2
<1> QED
  BY <1>5, <1>6, <1>8 DEF n

LEMMA FlattenSteps ==
    ASSUME NEW V, NEW seqs \in Seq(Seq(V))
    PROVE  \E g \in [0..Len(seqs) -> Seq(V)] :
             /\ g[0] = <<>>
             /\ \A i \in 1..Len(seqs) : g[i] = g[i-1] \o seqs[i]
             /\ FlattenSeq(seqs) = g[Len(seqs)]
<1> DEFINE n == Len(seqs)
           F == [i \in 1..n |-> [s \in Seq(V) |-> s \o seqs[i]]]
<1>1. n \in Nat /\ (\A i \in 1..n : seqs[i] \in Seq(V)) /\ seqs = [i \in 1..n |-> seqs[i]]
  OBVIOUS
<1> HIDE DEF n
<1>2. F \in [1..n -> [Seq(V) -> Seq(V)]] /\ <<>> \in Seq(V)
  BY <1>1
<1>3. PICK g \in [0..n -> Seq(V)] : g[0] = <<>> /\ \A i \in 1..n : g[i] = F[i][g[i-1]]
  <2> DEFINE W == Seq(V)
             empty == <<>>
  <2>1. n \in Nat /\ empty \in W /\ F \in [1..n -> [W -> W]]
    BY <1>1, <1>2
  <2> HIDE DEF F, W, empty
  <2>2. Recursions(W, empty, n, F) # {}
    BY <2>1, RecursionExists
  <2> QED
    BY <2>2 DEF Recursions, W, empty
<1>4. ASSUME NEW i \in 1..n PROVE g[i] = g[i-1] \o seqs[i]
  <2>1. F[i] = [s \in Seq(V) |-> s \o seqs[i]]
    OBVIOUS
  <2>2. g[i-1] \in Seq(V)
    BY <1>1
  <2>3. g[i] = F[i][g[i-1]]
    BY <1>3
  <2> QED
    BY <2>1, <2>2, <2>3
<1> HIDE DEF F
<1>5. FlattenSeq(seqs) = g[n]
  <2>1. CASE n = 0
    BY <1>1, <1>3, <2>1 DEF FlattenSeq, n
  <2>2. CASE n # 0
    <3> DEFINE Eq(h) == h = [i \in 1..n |-> IF i = 1 THEN seqs[i] ELSE h[i-1] \o seqs[i]]
               h0 == [i \in 1..n |-> g[i]]
    <3>1. ASSUME NEW i \in 1..n PROVE g[i] = IF i = 1 THEN seqs[i] ELSE h0[i-1] \o seqs[i]
      <4>1. i = 1 => g[i] = seqs[i]
        <5> HAVE i = 1
        <5>1. <<>> \o seqs[i] = seqs[i]
          BY <1>1
        <5>2. i - 1 = 0
          OBVIOUS
        <5>3. g[i-1] = <<>>
          BY <1>3, <5>2
        <5>4. g[i] = g[i-1] \o seqs[i]
          BY <1>4
        <5> QED
          BY <5>1, <5>3, <5>4
      <4>2. i # 1 => h0[i-1] = g[i-1]
        BY <1>1
      <4> QED
        BY <1>1, <1>4, <4>1, <4>2
    <3>2. Eq(h0)
      BY <3>1
    <3>3. PICK h : Eq(h) /\ FlattenSeq(seqs) = h[n]
      BY <3>2, <2>2 DEF FlattenSeq, n
    <3> DEFINE k == [i \in 0..n |-> IF i = 0 THEN <<>> ELSE h[i]]
    <3>4. ASSUME NEW i \in 1..n, g[i-1] = k[i-1] PROVE g[i] = k[i]
      <4>1. k[i] = IF i = 1 THEN seqs[i] ELSE h[i-1] \o seqs[i]
        <5>1. h[i] = IF i = 1 THEN seqs[i] ELSE h[i-1] \o seqs[i]
          BY <3>3
        <5>2. k[i] = h[i]
          BY <1>1
        <5> QED
          BY <5>1, <5>2
      <4>2. i = 1 => g[i] = seqs[i]
        <5> HAVE i = 1
        <5>1. <<>> \o seqs[i] = seqs[i]
          BY <1>1
        <5>2. i - 1 = 0
          OBVIOUS
        <5>3. g[i-1] = <<>>
          BY <1>3, <5>2
        <5>4. g[i] = g[i-1] \o seqs[i]
          BY <1>4
        <5> QED
          BY <5>1, <5>3, <5>4
      <4>3. i # 1 => k[i-1] = h[i-1]
        BY <1>1
      <4> QED
        BY <1>1, <1>4, <3>4, <4>1, <4>2, <4>3
    <3>5. g[n] = k[n]
      <4> DEFINE S == {i \in 0..n : g[i] = k[i]}
      <4>1. 0 \in S
        BY <1>1, <1>3
      <4>2. ASSUME NEW i \in 1..n, i - 1 \in S PROVE i \in S
        <5> HIDE DEF k
        <5>1. g[i-1] = k[i-1]
          BY <4>2
        <5>2. i \in 0..n
          BY <1>1
        <5> QED
          BY <3>4, <5>1, <5>2
      <4>3. 0..n \subseteq S
        <5> HIDE DEF S
        <5> QED
          BY <4>1, <4>2, <1>1, UpToInduction
      <4> QED
        BY <4>3, <1>1
    <3> QED
      BY <1>1, <2>2, <3>3, <3>5
  <2> QED
    BY <2>1, <2>2
<1> QED
  BY <1>3, <1>4, <1>5 DEF n

(* Sequences. *)
LEMMA ToSetIs ==
    ASSUME NEW V, NEW q \in Seq(V)
    PROVE  /\ ToSet(q) = {q[i] : i \in 1..Len(q)}
           /\ ToSet(q) \subseteq V
           /\ ToSet(q) = {} <=> q = <<>>
<1>1. DOMAIN q = 1..Len(q) /\ Len(q) \in Nat /\ \A i \in 1..Len(q) : q[i] \in V
  OBVIOUS
<1>2. ToSet(q) = {} => q = <<>>
  <2> HAVE ToSet(q) = {}
  <2>1. \A i \in 1..Len(q) : FALSE
    BY <1>1 DEF ToSet
  <2>2. Len(q) = 0
    BY <1>1, <2>1
  <2> QED
    BY <2>2
<1>3. q = <<>> => ToSet(q) = {}
  BY DEF ToSet
<1> QED
  BY <1>1, <1>2, <1>3 DEF ToSet

LEMMA ConcatFacts ==
    ASSUME NEW V, NEW p \in Seq(V), NEW q \in Seq(V)
    PROVE  p \o q \in Seq(V) /\ ToSet(p \o q) = ToSet(p) \cup ToSet(q)
<1>1. /\ p \o q \in Seq(V) /\ Len(p) \in Nat /\ Len(q) \in Nat
      /\ Len(p \o q) = Len(p) + Len(q)
      /\ \A i \in 1..Len(p) : (p \o q)[i] = p[i]
      /\ \A i \in 1..Len(q) : (p \o q)[Len(p) + i] = q[i]
  OBVIOUS
<1>2. \A r \in Seq(V) : ToSet(r) = {r[i] : i \in 1..Len(r)}
  BY ToSetIs
<1>3. ASSUME NEW y \in ToSet(p \o q) PROVE y \in ToSet(p) \cup ToSet(q)
  <2>1. PICK i \in 1..Len(p \o q) : y = (p \o q)[i]
    BY <1>1, <1>2
  <2>2. CASE i <= Len(p)
    <3>1. i \in 1..Len(p)
      BY <1>1, <2>2
    <3> QED
      BY <1>1, <1>2, <2>1, <3>1
  <2>3. CASE ~(i <= Len(p))
    <3>1. i - Len(p) \in 1..Len(q) /\ Len(p) + (i - Len(p)) = i
      BY <1>1, <2>3
    <3>2. y = q[i - Len(p)]
      BY <1>1, <2>1, <3>1
    <3> QED
      BY <1>2, <3>1, <3>2
  <2> QED
    BY <2>2, <2>3
<1>4. ASSUME NEW y \in ToSet(p) PROVE y \in ToSet(p \o q)
  <2>1. PICK i \in 1..Len(p) : y = p[i]
    BY <1>2
  <2>2. i \in 1..Len(p \o q)
    BY <1>1
  <2> QED
    BY <1>1, <1>2, <2>1, <2>2
<1>5. ASSUME NEW y \in ToSet(q) PROVE y \in ToSet(p \o q)
  <2>1. PICK i \in 1..Len(q) : y = q[i]
    BY <1>2
  <2>2. Len(p) + i \in 1..Len(p \o q)
    BY <1>1
  <2> QED
    BY <1>1, <1>2, <2>1, <2>2
<1> QED
  BY <1>1, <1>3, <1>4, <1>5

-----------------------------------------------------------------------------
(* The elements of a set, newer first. *)
NewerOrder(q) == \A i, j \in 1..Len(q) : i < j => q[i].date > q[j].date

Newer(ops, o) == {p \in ops : p.date > o.date}

LEMMA RankFacts ==
    ASSUME NEW ops, IsFiniteSet(ops), \A o \in ops : o.date \in Nat
    PROVE  /\ Cardinality(ops) \in Nat
           /\ \A o \in ops : Cardinality(Newer(ops, o)) \in 0..(Cardinality(ops) - 1)
           /\ \A o, p \in ops : o.date > p.date =>
                Cardinality(Newer(ops, o)) < Cardinality(Newer(ops, p))
<1> DEFINE rank(o) == Cardinality(Newer(ops, o))
<1>1. ASSUME NEW o \in ops PROVE IsFiniteSet(Newer(ops, o)) /\ rank(o) \in Nat
  <2>1. Newer(ops, o) \in SUBSET ops
    BY DEF Newer
  <2> QED
    BY <2>1, FS_Subset, FS_CardinalityType
<1>2. Cardinality(ops) \in Nat
  BY FS_CardinalityType
<1>3. ASSUME NEW o \in ops PROVE rank(o) < Cardinality(ops)
  <2>1. o \notin Newer(ops, o)
    BY DEF Newer
  <2>2. /\ IsFiniteSet(Newer(ops, o) \cup {o})
        /\ Cardinality(Newer(ops, o) \cup {o}) = rank(o) + 1
    BY <1>1, <2>1, FS_AddElement
  <2>3. Newer(ops, o) \cup {o} \in SUBSET ops
    BY DEF Newer
  <2>4. rank(o) + 1 <= Cardinality(ops)
    BY <2>2, <2>3, FS_Subset
  <2> QED
    BY <1>1, <1>2, <2>4
<1>4. ASSUME NEW o \in ops, NEW p \in ops, o.date > p.date PROVE rank(o) < rank(p)
  <2>1. o \notin Newer(ops, o)
    BY DEF Newer
  <2>2. Cardinality(Newer(ops, o) \cup {o}) = rank(o) + 1
    BY <1>1, <2>1, FS_AddElement
  <2>3. Newer(ops, o) \cup {o} \in SUBSET Newer(ops, p)
    BY <1>4 DEF Newer
  <2>4. rank(o) + 1 <= rank(p)
    BY <1>1, <2>2, <2>3, FS_Subset
  <2> QED
    BY <1>1, <2>4
<1> QED
  BY <1>1, <1>2, <1>3, <1>4

LEMMA NewerFirstFacts ==
    ASSUME NEW ops, IsFiniteSet(ops), \A o \in ops : o.date \in Nat,
           \A o, p \in ops : o.date = p.date => o = p
    PROVE  /\ newerFirst(ops) \in Seq(ops) /\ Len(newerFirst(ops)) = Cardinality(ops)
           /\ ToSet(newerFirst(ops)) = ops
           /\ NewerOrder(newerFirst(ops))
<1> DEFINE n == Cardinality(ops)
           rank == [o \in ops |-> Cardinality(Newer(ops, o))]
           q == newerFirst(ops)
<1>1. n \in Nat
  BY RankFacts
<1>2. rank \in [ops -> 0..(n - 1)]
  BY RankFacts
<1>3. \A o, p \in ops : o.date > p.date => rank[o] < rank[p]
  BY RankFacts
<1>4. \A o \in ops : rank[o] = Cardinality({p \in ops : p.date > o.date})
  BY DEF Newer
<1> HIDE DEF rank, n
<1>5. ASSUME NEW o \in ops, NEW p \in ops, rank[o] = rank[p] PROVE o = p
  <2>1. rank[o] \in Int /\ rank[p] \in Int
    BY <1>2
  <2>2. ~(o.date > p.date) /\ ~(p.date > o.date)
    BY <1>3, <1>5, <2>1
  <2> QED
    BY <2>2
<1>6. \A m \in 0..(n - 1) : \E o \in ops : rank[o] = m
  <2>1. rank \in Injection(ops, 0..(n - 1))
    BY <1>2, <1>5 DEF Injection, IsInjective
  <2>2. IsFiniteSet(0..(n - 1)) /\ Cardinality(0..(n - 1)) = n
    BY <1>1, FS_Interval
  <2>3. rank \in Surjection(ops, 0..(n - 1))
    BY <2>1, <2>2, FS_Injection DEF n
  <2> QED
    BY <2>3 DEF Surjection
<1>7. q = [i \in 1..n |-> CHOOSE o \in ops : Cardinality({p \in ops : p.date > o.date}) = i - 1]
  BY DEF newerFirst, n
<1> HIDE DEF q
<1>8. ASSUME NEW i \in 1..n PROVE q[i] \in ops /\ rank[q[i]] = i - 1
  <2>1. i - 1 \in 0..(n - 1)
    BY <1>1
  <2>2. \E o \in ops : Cardinality({p \in ops : p.date > o.date}) = i - 1
    BY <1>4, <1>6, <2>1
  <2>3. q[i] = CHOOSE o \in ops : Cardinality({p \in ops : p.date > o.date}) = i - 1
    BY <1>7
  <2>4. q[i] \in ops /\ Cardinality({p \in ops : p.date > q[i].date}) = i - 1
    BY <2>2, <2>3
  <2> QED
    BY <1>4, <2>4
<1>9. q \in Seq(ops) /\ Len(q) = n /\ DOMAIN q = 1..n
  <2>1. \A i \in 1..n : q[i] \in ops
    BY <1>8
  <2> DEFINE e(i) == CHOOSE o \in ops : Cardinality({p \in ops : p.date > o.date}) = i - 1
  <2>2. q = [i \in 1..n |-> e(i)] /\ \A i \in 1..n : q[i] = e(i)
    BY <1>7
  <2> HIDE DEF e
  <2>3. q \in [1..n -> ops]
    BY <2>1, <2>2
  <2> QED
    BY <1>1, <2>3
<1>10. ToSet(q) = ops
  <2>1. ASSUME NEW o \in ops PROVE \E i \in 1..n : q[i] = o
    <3>1. rank[o] + 1 \in 1..n /\ (rank[o] + 1) - 1 = rank[o]
      BY <1>1, <1>2
    <3>2. q[rank[o] + 1] \in ops /\ rank[q[rank[o] + 1]] = rank[o]
      BY <1>8, <3>1
    <3> QED
      BY <1>5, <3>1, <3>2
  <2>2. ToSet(q) = {q[i] : i \in 1..n}
    BY <1>9 DEF ToSet
  <2> QED
    BY <1>8, <2>1, <2>2
<1>11. NewerOrder(q)
  <2>1. ASSUME NEW i \in 1..n, NEW j \in 1..n, i < j PROVE q[i].date > q[j].date
    <3>1. q[i] \in ops /\ q[j] \in ops /\ rank[q[i]] = i - 1 /\ rank[q[j]] = j - 1
      BY <1>8
    <3>2. rank[q[i]] < rank[q[j]] /\ rank[q[i]] \in Int /\ rank[q[j]] \in Int
      BY <1>1, <2>1, <3>1
    <3>3. ~(q[j].date > q[i].date)
      BY <1>3, <3>1, <3>2
    <3>4. q[i].date # q[j].date
      BY <3>1, <3>2
    <3>5. q[i].date \in Nat /\ q[j].date \in Nat
      BY <3>1
    <3> QED
      BY <3>3, <3>4, <3>5
  <2> QED
    BY <1>9, <2>1 DEF NewerOrder
<1> QED
  BY <1>9, <1>10, <1>11 DEF q, n

LEMMA JoinNewer ==
    ASSUME NEW V, NEW a \in Seq(V), NEW b \in Seq(V), NewerOrder(a), NewerOrder(b),
           \A x \in ToSet(a), y \in ToSet(b) : x.date > y.date
    PROVE  NewerOrder(a \o b)
<1> DEFINE c == a \o b
<1>1. /\ Len(a) \in Nat /\ Len(b) \in Nat /\ c \in Seq(V) /\ Len(c) = Len(a) + Len(b)
      /\ DOMAIN a = 1..Len(a) /\ DOMAIN b = 1..Len(b)
      /\ \A i \in 1..Len(c) : c[i] = IF i <= Len(a) THEN a[i] ELSE b[i - Len(a)]
  OBVIOUS
<1> HIDE DEF c
<1>2. ASSUME NEW i \in 1..Len(c), NEW j \in 1..Len(c), i < j PROVE c[i].date > c[j].date
  <2>1. CASE j <= Len(a)
    <3>1. i \in 1..Len(a) /\ j \in 1..Len(a) /\ c[i] = a[i] /\ c[j] = a[j]
      BY <1>1, <1>2, <2>1
    <3> QED
      BY <1>2, <3>1 DEF NewerOrder
  <2>2. CASE i <= Len(a) /\ j > Len(a)
    <3>1. i \in 1..Len(a) /\ j - Len(a) \in 1..Len(b) /\ c[i] = a[i] /\ c[j] = b[j - Len(a)]
      BY <1>1, <1>2, <2>2
    <3>2. c[i] \in ToSet(a) /\ c[j] \in ToSet(b)
      BY <1>1, <3>1 DEF ToSet
    <3> QED
      BY <3>2
  <2>3. CASE i > Len(a)
    <3>1. /\ i - Len(a) \in 1..Len(b) /\ j - Len(a) \in 1..Len(b) /\ i - Len(a) < j - Len(a)
          /\ c[i] = b[i - Len(a)] /\ c[j] = b[j - Len(a)]
      BY <1>1, <1>2, <2>3
    <3> QED
      BY <3>1 DEF NewerOrder
  <2> QED
    BY <1>1, <1>2, <2>1, <2>2, <2>3
<1> QED
  BY <1>2 DEF NewerOrder, c

LEMMA AmongNewer ==
    ASSUME NEW V, NEW q \in Seq(V), NEW S, NewerOrder(q)
    PROVE  NewerOrder(Among(q, S))
<1> DEFINE p == Among(q, S)
<1>1. \A a, b \in 1..Len(p) : a < b =>
        \E i, j \in 1..Len(q) : i < j /\ q[i] = p[a] /\ q[j] = p[b]
  BY AmongFacts
<1> HIDE DEF p
<1>2. ASSUME NEW a \in 1..Len(p), NEW b \in 1..Len(p), a < b PROVE p[a].date > p[b].date
  <2>1. PICK i \in 1..Len(q), j \in 1..Len(q) : i < j /\ q[i] = p[a] /\ q[j] = p[b]
    BY <1>1, <1>2
  <2>2. q[i].date > q[j].date
    BY <2>1 DEF NewerOrder
  <2> QED
    BY <2>1, <2>2
<1> QED
  BY <1>2 DEF NewerOrder, p

(* Blocks, each newer first, of which each is newer than the next ones.       *)
LEMMA FlattenNewer ==
    ASSUME NEW V, NEW seqs \in Seq(Seq(V)),
           \A i \in 1..Len(seqs) : NewerOrder(seqs[i]),
           \A i, j \in 1..Len(seqs) : i < j =>
             \A x \in ToSet(seqs[i]), y \in ToSet(seqs[j]) : x.date > y.date
    PROVE  /\ FlattenSeq(seqs) \in Seq(V) /\ NewerOrder(FlattenSeq(seqs))
           /\ \A x : x \in ToSet(FlattenSeq(seqs)) <=> \E i \in 1..Len(seqs) : x \in ToSet(seqs[i])
<1> DEFINE n == Len(seqs)
<1>1. n \in Nat /\ \A i \in 1..n : seqs[i] \in Seq(V)
  OBVIOUS
<1>2. PICK g \in [0..n -> Seq(V)] :
         /\ g[0] = <<>>
         /\ \A i \in 1..n : g[i] = g[i-1] \o seqs[i]
         /\ FlattenSeq(seqs) = g[n]
  BY FlattenSteps
<1>3. /\ \A i \in 1..n : NewerOrder(seqs[i])
      /\ \A i, j \in 1..n : i < j =>
           \A x \in ToSet(seqs[i]), y \in ToSet(seqs[j]) : x.date > y.date
  OBVIOUS
<1> HIDE DEF n
<1> DEFINE P(m) == /\ \A x : x \in ToSet(g[m]) <=> \E i \in 1..m : x \in ToSet(seqs[i])
                   /\ NewerOrder(g[m])
<1>4. P(0)
  BY <1>2 DEF ToSet, NewerOrder
<1>5. ASSUME NEW m \in 1..n, P(m - 1) PROVE P(m)
  <2>0. g[m-1] \in Seq(V) /\ seqs[m] \in Seq(V)
    BY <1>1
  <2>1. g[m-1] \in Seq(V) /\ seqs[m] \in Seq(V) /\ g[m] = g[m-1] \o seqs[m]
    BY <1>2, <2>0
  <2>2. ToSet(g[m]) = ToSet(g[m-1]) \cup ToSet(seqs[m])
    BY <2>1, ConcatFacts
  <2>3. \A i : i \in 1..m <=> i \in 1..(m - 1) \/ i = m
    BY <1>1
  <2>4. \A i \in 1..(m - 1) : i \in 1..n /\ i < m
    BY <1>1
  <2>5. \A x \in ToSet(g[m-1]), y \in ToSet(seqs[m]) : x.date > y.date
    BY <1>3, <1>5, <2>4
  <2>6. NewerOrder(g[m])
    BY <1>3, <1>5, <2>1, <2>5, JoinNewer
  <2>7. \A x : x \in ToSet(g[m]) <=> \E i \in 1..m : x \in ToSet(seqs[i])
    BY <1>5, <2>2, <2>3
  <2> QED
    BY <2>6, <2>7
<1>6. P(n)
  <2> DEFINE T == {m \in 0..n : P(m)}
  <2>1. 0 \in T
    BY <1>1, <1>4
  <2>2. ASSUME NEW i \in 1..n, i - 1 \in T PROVE i \in T
    <3>1. i \in 0..n /\ P(i - 1)
      BY <1>1, <2>2
    <3> HIDE DEF P
    <3> QED
      BY <1>5, <3>1
  <2>3. 0..n \subseteq T
    <3> HIDE DEF T
    <3> QED
      BY <1>1, <2>1, <2>2, UpToInduction
  <2> HIDE DEF P
  <2> QED
    BY <1>1, <2>3
<1>7. g[n] \in Seq(V)
  BY <1>1
<1> QED
  BY <1>2, <1>6, <1>7 DEF n

LEMMA SeqFinite == ASSUME NEW V, NEW q \in Seq(V) PROVE IsFiniteSet(ToSet(q))
<1>1. Len(q) \in Nat /\ IsFiniteSet(1..Len(q))
  BY FS_Interval
<1>2. ToSet(q) = {q[i] : i \in 1..Len(q)}
  BY ToSetIs
<1>3. q \in [1..Len(q) -> ToSet(q)]
  BY <1>2
<1>4. q \in Surjection(1..Len(q), ToSet(q))
  BY <1>2, <1>3 DEF Surjection
<1> QED
  BY <1>1, <1>4, FS_Surjection

LEMMA LeastOf ==
    ASSUME NEW S \in SUBSET Nat, S # {}
    PROVE  Min(S) \in S /\ \A n \in S : Min(S) <= n
<1>1. PICK m \in S : \A n \in S : ~(<<n, m>> \in OpToRel(<, Nat))
  BY NatLessThanWellFounded, WFMin
<1>2. ASSUME NEW n \in S PROVE m <= n
  <2>1. n \in Nat /\ m \in Nat /\ ~(n < m)
    BY <1>1 DEF OpToRel
  <2> QED
    BY <2>1
<1> QED
  BY <1>2 DEF Min
-----------------------------------------------------------------------------
(* Operations that have the same date are those of the same transaction.      *)
Dated(U) == \A a, b \in U : a.date \in Nat /\ (a.date = b.date <=> a.id = b.id)

(* The operations mergeOps may add.                                           *)
NewOps(existing, newFetched) ==
    {n \in ToSet(newFetched) : \A o \in ToSet(existing) : ~sameOp(o, n)}

LEMMA NewOpsFacts ==
    ASSUME NEW U, Dated(U), NEW existing, NEW newFetched \in Seq(U), NewerOrder(newFetched)
    PROVE  LET q == newerFirst(NewOps(existing, newFetched)) IN
           q \in Seq(U) /\ NewerOrder(q) /\ ToSet(q) = NewOps(existing, newFetched)
<1> DEFINE S == NewOps(existing, newFetched)
<1>1. ToSet(newFetched) = {newFetched[i] : i \in 1..Len(newFetched)} /\ ToSet(newFetched) \subseteq U
  BY ToSetIs
<1>2. S \subseteq ToSet(newFetched)
  BY DEF NewOps
<1>3. IsFiniteSet(S)
  BY <1>2, SeqFinite, FS_Subset
<1>4. \A o \in S : o.date \in Nat
  BY <1>1, <1>2 DEF Dated
<1>5. ASSUME NEW o \in S, NEW p \in S, o.date = p.date PROVE o = p
  <2>1. PICK i \in 1..Len(newFetched), j \in 1..Len(newFetched) :
          o = newFetched[i] /\ p = newFetched[j]
    BY <1>1, <1>2
  <2>2. ~(i < j) /\ ~(j < i)
    BY <1>4, <1>5, <2>1 DEF NewerOrder
  <2>3. i = j
    BY <2>2
  <2> QED
    BY <2>1, <2>3
<1> HIDE DEF S
<1>6. newerFirst(S) \in Seq(S) /\ ToSet(newerFirst(S)) = S /\ NewerOrder(newerFirst(S))
  BY <1>3, <1>4, <1>5, NewerFirstFacts
<1>7. newerFirst(S) \in Seq(U)
  BY <1>1, <1>2, <1>6
<1> QED
  BY <1>6, <1>7 DEF S

(* What mergeOps makes of existing[i]: the new operations that go before it,  *)
(* and itself unless it has changed.                                          *)
Before(existing, news, i) ==
    {n \in ToSet(news) : /\ n.date > existing[i].date
                         /\ \A k \in 1..(i - 1) : n.date <= existing[k].date}

KeptOp(o, news) == IF o.id \in ids(news) THEN <<>> ELSE <<o>>

Block(existing, news, i) == inserted(existing, news, i) \o KeptOp(existing[i], news)

LEMMA BlockFacts ==
    ASSUME NEW U, Dated(U), NEW existing \in Seq(U), NEW news \in Seq(U), NewerOrder(news),
           NEW i \in 1..Len(existing)
    PROVE  /\ Block(existing, news, i) \in Seq(U) /\ NewerOrder(Block(existing, news, i))
           /\ \A x : x \in ToSet(Block(existing, news, i)) <=>
                \/ x \in Before(existing, news, i)
                \/ x = existing[i] /\ x.id \notin ids(news)
<1> DEFINE a == Among(news, Before(existing, news, i))
           e == existing[i]
           b == KeptOp(e, news)
<1>1. Block(existing, news, i) = a \o b
  BY DEF Block, inserted, Before
<1>2. e \in U
  OBVIOUS
<1>3. a \in Seq(U) /\ ToSet(a) = ToSet(news) \cap Before(existing, news, i)
  BY AmongFacts
<1>4. NewerOrder(a)
  BY AmongNewer
<1>5. ToSet(a) = Before(existing, news, i)
  BY <1>3 DEF Before
<1> HIDE DEF a
<1>6. b \in Seq(U) /\ NewerOrder(b)
  <2>1. NewerOrder(<<>>) /\ NewerOrder(<<e>>)
    BY DEF NewerOrder
  <2>2. <<>> \in Seq(U) /\ <<e>> \in Seq(U)
    BY <1>2
  <2> QED
    BY <2>1, <2>2 DEF KeptOp
<1>7. \A x : x \in ToSet(b) <=> x = e /\ x.id \notin ids(news)
  <2>1. ToSet(<<>>) = {} /\ ToSet(<<e>>) = {e}
    BY DEF ToSet
  <2> QED
    BY <2>1 DEF KeptOp
<1>8. \A x \in ToSet(a), y \in ToSet(b) : x.date > y.date
  BY <1>5, <1>7 DEF Before
<1> HIDE DEF e, b
<1>9. a \o b \in Seq(U) /\ ToSet(a \o b) = ToSet(a) \cup ToSet(b) /\ NewerOrder(a \o b)
  BY <1>3, <1>4, <1>6, <1>8, ConcatFacts, JoinNewer
<1> QED
  BY <1>1, <1>5, <1>7, <1>9 DEF e

LEMMA BlocksInOrder ==
    ASSUME NEW U, Dated(U), NEW existing \in Seq(U), NewerOrder(existing),
           NEW news \in Seq(U), NewerOrder(news),
           NEW i \in 1..Len(existing), NEW j \in 1..Len(existing), i < j,
           NEW x \in ToSet(Block(existing, news, i)), NEW y \in ToSet(Block(existing, news, j))
    PROVE  x.date > y.date
<1> DEFINE e == existing[i]
<1>1. /\ e \in U /\ existing[j] \in U /\ x \in U /\ y \in U
      /\ \A n \in ToSet(news) : n \in U /\ n.id \in ids(news)
  <2>1. ToSet(Block(existing, news, i)) \subseteq U /\ ToSet(Block(existing, news, j)) \subseteq U
    BY BlockFacts, ToSetIs
  <2>2. ToSet(news) \subseteq U
    BY ToSetIs
  <2> QED
    BY <2>1, <2>2 DEF ids
<1>2. e.date > existing[j].date
  BY DEF NewerOrder
<1>3. x \in Before(existing, news, i) \/ (x = e /\ x.id \notin ids(news))
  BY BlockFacts
<1>4. y \in Before(existing, news, j) \/ y = existing[j]
  BY BlockFacts
<1>5. i \in 1..(j - 1)
  OBVIOUS
<1> HIDE DEF e
<1>6. e.date \in Nat /\ existing[j].date \in Nat /\ x.date \in Nat /\ y.date \in Nat
  BY <1>1 DEF Dated
<1>7. y \in Before(existing, news, j) => y \in ToSet(news) /\ y.date <= e.date
  BY <1>5 DEF Before, e
<1>8. x \in Before(existing, news, i) => x.date > e.date
  BY DEF Before, e
<1>9. CASE x \in Before(existing, news, i)
  BY <1>2, <1>4, <1>6, <1>7, <1>8, <1>9
<1>10. CASE x = e /\ x.id \notin ids(news) /\ y \in Before(existing, news, j)
  <2>1. y.id # x.id
    BY <1>1, <1>7, <1>10
  <2>2. y.date # x.date
    BY <1>1, <2>1 DEF Dated
  <2> QED
    BY <1>6, <1>7, <1>10, <2>2
<1>11. CASE x = e /\ y = existing[j]
  BY <1>2, <1>11
<1> QED
  BY <1>3, <1>4, <1>9, <1>10, <1>11

(* No two operations of a history are of the same transaction.                *)
LEMMA OneOfEach ==
    ASSUME NEW U, Dated(U), NEW q \in Seq(U), NewerOrder(q),
           NEW x \in ToSet(q), NEW y \in ToSet(q), x.id = y.id
    PROVE  x = y
<1>1. PICK i \in 1..Len(q), j \in 1..Len(q) : x = q[i] /\ y = q[j]
  BY ToSetIs
<1>2. x \in U /\ y \in U
  BY <1>1
<1>3. x.date \in Nat /\ x.date = y.date
  BY <1>2 DEF Dated
<1>4. ~(i < j) /\ ~(j < i)
  BY <1>1, <1>3 DEF NewerOrder
<1> QED
  BY <1>1, <1>4

(* What mergeOps keeps: nothing but what it is given; every new operation     *)
(* newer than the oldest existing one, or already there; every existing one   *)
(* that has not changed.                                                      *)
Merged(existing, newFetched, all) ==
    /\ ToSet(all) \subseteq ToSet(existing) \cup ToSet(newFetched)
    /\ \A n \in ToSet(newFetched) :
         n \in ToSet(existing) \/ existing = <<>> \/ n.date > Last(existing).date
           => n \in ToSet(all)
    /\ \A o \in ToSet(existing) :
         (\A n \in ToSet(newFetched) : n.id = o.id => n = o) => o \in ToSet(all)

(* What mergeOps returns is newer first and made of what it is given.         *)
LEMMA MergeFacts ==
    ASSUME NEW U, Dated(U), NEW existing \in Seq(U), NewerOrder(existing),
           NEW newFetched \in Seq(U), NewerOrder(newFetched)
    PROVE  /\ mergeOps(existing, newFetched) \in Seq(U)
           /\ NewerOrder(mergeOps(existing, newFetched))
           /\ Merged(existing, newFetched, mergeOps(existing, newFetched))
<1> DEFINE new == NewOps(existing, newFetched)
           news == newerFirst(new)
           all == mergeOps(existing, newFetched)
<1>1. news \in Seq(U) /\ NewerOrder(news) /\ ToSet(news) = new
  BY NewOpsFacts
<1>2. new = {n \in ToSet(newFetched) : n \notin ToSet(existing)}
  BY DEF NewOps, sameOp
<1>3. ToSet(existing) \subseteq U /\ ToSet(newFetched) \subseteq U
  BY ToSetIs
<1>4. DOMAIN existing = 1..Len(existing) /\ Len(existing) \in Nat
      /\ ToSet(existing) = {existing[i] : i \in 1..Len(existing)}
  BY ToSetIs
<1>5. news = newerFirst({n \in ToSet(newFetched) : \A o \in ToSet(existing) : ~sameOp(o, n)})
  BY DEF NewOps
<1> HIDE DEF news, new
<1> DEFINE seqs == [i \in 1..Len(existing) |-> Block(existing, news, i)]
<1>6. seqs = [i \in DOMAIN existing |-> inserted(existing, news, i) \o
                (IF existing[i].id \in ids(news) THEN <<>> ELSE <<existing[i]>>)]
  BY <1>4 DEF Block, KeptOp
<1>7. \A i \in 1..Len(existing) : Block(existing, news, i) \in Seq(U)
  BY <1>1, BlockFacts
<1>8. seqs \in Seq(Seq(U)) /\ Len(seqs) = Len(existing)
      /\ \A i \in 1..Len(existing) : seqs[i] = Block(existing, news, i)
  <2>1. seqs \in [1..Len(existing) -> Seq(U)]
    BY <1>7
  <2> QED
    BY <1>4, <2>1
<1>9. CASE news = <<>>
  <2>1. all = existing
    BY <1>5, <1>9 DEF mergeOps
  <2>2. ToSet(newFetched) \subseteq ToSet(existing)
    <3>1. ToSet(news) = {}
      BY <1>1, <1>9, ToSetIs
    <3> QED
      BY <1>1, <1>2, <3>1
  <2> QED
    BY <2>1, <2>2 DEF Merged
<1>10. CASE news # <<>> /\ existing = <<>>
  <2>1. all = news
    BY <1>5, <1>10 DEF mergeOps
  <2>2. ToSet(existing) = {} /\ new = ToSet(newFetched)
    BY <1>2, <1>10, ToSetIs
  <2> QED
    BY <1>1, <2>1, <2>2 DEF Merged
<1>11. CASE news # <<>> /\ existing # <<>>
  <2>1. all = FlattenSeq(seqs)
    BY <1>5, <1>6, <1>11 DEF mergeOps
  <2> HIDE DEF seqs
  <2>2. \A i \in 1..Len(seqs) : NewerOrder(seqs[i])
    BY <1>1, <1>8, BlockFacts
  <2>3. \A i, j \in 1..Len(seqs) : i < j =>
          \A x \in ToSet(seqs[i]), y \in ToSet(seqs[j]) : x.date > y.date
    BY <1>1, <1>8, BlocksInOrder
  <2>4. /\ all \in Seq(U) /\ NewerOrder(all)
        /\ \A x : x \in ToSet(all) <=> \E i \in 1..Len(seqs) : x \in ToSet(seqs[i])
    BY <1>8, <2>1, <2>2, <2>3, FlattenNewer
  <2> HIDE DEF all
  <2>5. ASSUME NEW i \in 1..Len(existing)
        PROVE  \A x : x \in ToSet(seqs[i]) <=>
                       \/ x \in Before(existing, news, i)
                       \/ x = existing[i] /\ x.id \notin ids(news)
    <3>1. seqs[i] = Block(existing, news, i)
      BY <1>8
    <3> QED
      BY <1>1, <3>1, BlockFacts, SMTT(30)
  <2>6. ToSet(all) \subseteq ToSet(existing) \cup ToSet(newFetched)
    BY <1>1, <1>2, <1>4, <1>8, <2>4, <2>5 DEF Before
  <2>7. ASSUME NEW o \in ToSet(existing), \A n \in ToSet(newFetched) : n.id = o.id => n = o
        PROVE  o \in ToSet(all)
    <3>1. o.id \notin ids(news)
      BY <1>1, <1>2, <2>7 DEF ids
    <3> QED
      BY <1>4, <1>8, <2>4, <2>5, <3>1
  <2>8. ASSUME NEW n \in ToSet(newFetched), n \in ToSet(existing) PROVE n \in ToSet(all)
    BY <2>7, <2>8, OneOfEach
  <2>9. ASSUME NEW n \in ToSet(newFetched), n \notin ToSet(existing), n.date > Last(existing).date
        PROVE  n \in ToSet(all)
    <3> DEFINE S == {i \in 1..Len(existing) : n.date > existing[i].date}
    <3>1. Last(existing) = existing[Len(existing)] /\ Len(existing) \in 1..Len(existing)
      BY <1>4, <1>11 DEF Last
    <3>2. S \in SUBSET Nat /\ S # {}
      BY <1>4, <2>9, <3>1
    <3>3. PICK i \in S : \A j \in S : i <= j
      <4> HIDE DEF S
      <4> QED
        BY <3>2, LeastOf
    <3>4. \A k \in 1..(i - 1) : k \in 1..Len(existing) /\ ~(n.date > existing[k].date)
      BY <1>4, <3>3
    <3>5. \A k \in 1..Len(existing) : n.date \in Nat /\ existing[k].date \in Nat
      BY <1>3, <1>4 DEF Dated
    <3>6. n \in Before(existing, news, i)
      BY <1>1, <1>2, <2>9, <3>3, <3>4, <3>5 DEF Before
    <3> QED
      BY <1>8, <2>4, <2>5, <3>3, <3>6
  <2>10. Merged(existing, newFetched, all)
    BY <1>11, <2>6, <2>7, <2>8, <2>9 DEF Merged
  <2> QED
    BY <2>4, <2>10 DEF all
<1> QED
  BY <1>9, <1>10, <1>11

(* Two histories of the same operations are the same.                         *)
LEMMA SameHistory ==
    ASSUME NEW U, Dated(U), NEW p \in Seq(U), NewerOrder(p), NEW q \in Seq(U), NewerOrder(q),
           ToSet(p) = ToSet(q)
    PROVE  p = q
<1> DEFINE n == Len(p)
           m == Len(q)
<1>1. n \in Nat /\ m \in Nat /\ DOMAIN p = 1..n /\ DOMAIN q = 1..m
  OBVIOUS
<1>2. ToSet(p) = {p[i] : i \in 1..n} /\ ToSet(q) = {q[i] : i \in 1..m}
  BY ToSetIs
<1>3. /\ \A i \in 1..n : p[i].date \in Nat
      /\ \A i \in 1..m : q[i].date \in Nat
  BY DEF Dated
<1> DEFINE T == {k \in 0..n : \A i \in 1..k : i <= m /\ p[i] = q[i]}
<1>4. ASSUME NEW k \in 1..n, k - 1 \in T PROVE k \in T
  <2>1. PICK j \in 1..m : p[k] = q[j]
    BY <1>2
  <2>2. \A i \in 1..(k - 1) : i <= m /\ p[i] = q[i] /\ i \in 1..n /\ i < k
    BY <1>1, <1>4
  <2>3. j >= k
    <3>1. j \in 1..(k - 1) => p[j].date > p[k].date
      BY <2>2 DEF NewerOrder
    <3>2. j \notin 1..(k - 1)
      BY <1>3, <2>1, <2>2, <3>1
    <3> QED
      BY <3>2
  <2>4. k \in 1..m
    BY <1>1, <2>3
  <2>5. PICK i \in 1..n : q[k] = p[i]
    BY <1>2, <2>4
  <2>6. i >= k
    <3>1. i \in 1..(k - 1) => p[i] = q[i] /\ q[i].date > q[k].date
      BY <2>2, <2>4 DEF NewerOrder
    <3>2. i \notin 1..(k - 1)
      BY <1>3, <2>4, <2>5, <3>1
    <3> QED
      BY <3>2
  <2>7. (j = k \/ q[k].date > q[j].date) /\ (i = k \/ p[k].date > p[i].date)
    BY <2>3, <2>4, <2>6 DEF NewerOrder
  <2>8. j = k \/ i = k
    BY <1>3, <2>1, <2>4, <2>5, <2>7
  <2>9. p[k] = q[k]
    BY <2>1, <2>5, <2>8
  <2> QED
    BY <1>1, <2>2, <2>4, <2>9
<1>5. n \in T
  <2>1. 0 \in T
    BY <1>1
  <2> HIDE DEF T
  <2>2. 0..n \subseteq T
    BY <1>1, <1>4, <2>1, UpToInduction
  <2> QED
    BY <1>1, <2>2
<1>6. n <= m /\ \A i \in 1..n : p[i] = q[i]
  BY <1>1, <1>5
<1>7. ~(n < m)
  <2> SUFFICES ASSUME n < m PROVE FALSE
    OBVIOUS
  <2>1. m \in 1..m
    BY <1>1
  <2>2. PICK i \in 1..n : q[m] = p[i]
    BY <1>2, <2>1
  <2>3. q[m] = q[i] /\ i \in 1..m /\ i < m
    BY <1>1, <1>6, <2>2
  <2>4. q[i].date > q[m].date
    BY <2>1, <2>3 DEF NewerOrder
  <2> QED
    BY <1>3, <2>1, <2>3, <2>4
<1>8. n = m
  <2>1. n \in Nat /\ m \in Nat /\ n <= m /\ ~(n < m)
    BY <1>1, <1>6, <1>7
  <2> HIDE DEF n, m
  <2> QED
    BY <2>1
<1> QED
  BY <1>1, <1>6, <1>8

-----------------------------------------------------------------------------
(* The builder, step by step. *)
Builders(U) ==
    [operations : Seq(U), existingOps : Seq(U), immutableOpCmpDoneOnce : BOOLEAN,
     finished : BOOLEAN]

(* The rest is the end of the existing operations, from the one of that id.  *)
LEMMA RestIsTail ==
    ASSUME NEW U, NEW ops \in Seq(U), NEW id
    PROVE  /\ (\E o \in ToSet(ops) : o.id = id) => restFrom(ops, id) # <<>>
           /\ restFrom(ops, id) # <<>> =>
                \E j \in 1..Len(ops) :
                  /\ ops[j].id = id
                  /\ restFrom(ops, id) \in Seq(U)
                  /\ Len(restFrom(ops, id)) = Len(ops) - j + 1
                  /\ \A i \in 1..(Len(ops) - j + 1) : restFrom(ops, id)[i] = ops[j + i - 1]
<1> DEFINE at == {i \in DOMAIN ops : ops[i].id = id}
           j == Min(at)
           n == Len(ops)
           r == SubSeq(ops, j, n)
<1>1. n \in Nat /\ DOMAIN ops = 1..n /\ (\A i \in 1..n : ops[i] \in U)
      /\ ToSet(ops) = {ops[i] : i \in 1..n}
  BY ToSetIs
<1>2. CASE at = {}
  <2>1. restFrom(ops, id) = <<>>
    BY <1>2 DEF restFrom
  <2>2. ~ \E o \in ToSet(ops) : o.id = id
    BY <1>1, <1>2
  <2> QED
    BY <2>1, <2>2
<1>3. CASE at # {}
  <2>1. j \in 1..n /\ ops[j].id = id
    <3>1. at \in SUBSET Nat
      BY <1>1
    <3>2. j \in at
      <4> HIDE DEF at
      <4> QED
        BY <1>3, <3>1, LeastOf
    <3> QED
      BY <1>1, <3>2
  <2>2. restFrom(ops, id) = r
    BY <1>3 DEF restFrom
  <2> HIDE DEF j, at
  <2>3. \A i \in j..n : ops[i] \in U
    BY <1>1, <2>1
  <2>4. /\ r \in Seq(U) /\ Len(r) = n - j + 1
        /\ \A i \in 1..(n - j + 1) : r[i] = ops[j + i - 1]
    <3>1. j \in Int /\ n \in Int /\ j <= n
      BY <1>1, <2>1
    <3> QED
      BY <2>3, <3>1, SubSeqProperties
  <2> HIDE DEF r
  <2>5. r # <<>>
    BY <1>1, <2>1, <2>4
  <2> QED
    BY <2>1, <2>2, <2>4, <2>5
<1> QED
  BY <1>2, <1>3

LEMMA RestFacts ==
    ASSUME NEW U, NEW ops \in Seq(U), NewerOrder(ops), NEW id
    PROVE  /\ restFrom(ops, id) \in Seq(U) /\ NewerOrder(restFrom(ops, id))
           /\ restFrom(ops, id) # <<>> => /\ Len(restFrom(ops, id)) > 0
                                          /\ Head(restFrom(ops, id)) = restFrom(ops, id)[1]
                                          /\ Head(restFrom(ops, id)) \in U
                                          /\ Head(restFrom(ops, id)) \in ToSet(ops)
                                          /\ Head(restFrom(ops, id)).id = id
<1> DEFINE n == Len(ops)
           r == restFrom(ops, id)
<1>1. n \in Nat /\ (\A i \in 1..n : ops[i] \in U) /\ ToSet(ops) = {ops[i] : i \in 1..n}
  BY ToSetIs
<1>2. CASE r = <<>>
  BY <1>2 DEF NewerOrder
<1>3. CASE r # <<>>
  <2>1. PICK j \in 1..n : /\ ops[j].id = id /\ r \in Seq(U) /\ Len(r) = n - j + 1
                          /\ \A i \in 1..(n - j + 1) : r[i] = ops[j + i - 1]
    BY <1>3, RestIsTail
  <2> HIDE DEF r
  <2>2. NewerOrder(r)
    <3>1. ASSUME NEW a \in 1..(n - j + 1), NEW b \in 1..(n - j + 1), a < b
          PROVE  r[a].date > r[b].date
      <4>1. j + a - 1 \in 1..n /\ j + b - 1 \in 1..n /\ j + a - 1 < j + b - 1
        BY <1>1, <2>1, <3>1
      <4>2. ops[j + a - 1].date > ops[j + b - 1].date
        BY <4>1 DEF NewerOrder
      <4> QED
        BY <2>1, <4>2
    <3> QED
      BY <2>1, <3>1 DEF NewerOrder
  <2>3. 1 \in 1..(n - j + 1) /\ j + 1 - 1 = j
    BY <1>1, <2>1
  <2>4. Len(r) > 0 /\ r[1] = ops[j] /\ Head(r) = r[1]
    BY <1>1, <2>1, <2>3
  <2> QED
    BY <1>1, <2>1, <2>2, <2>4 DEF r
<1> QED
  BY <1>2, <1>3

(* After k operations of the libcore: the operations built are as many and    *)
(* have their dates, or the builder is finished and they go on with the end   *)
(* of the existing ones.                                                      *)
BuiltUpTo(s, existing, core, k) ==
    /\ s.existingOps \in {existing, <<>>}
    /\ NewerOrder(s.operations)
    /\ ~s.finished => /\ Len(s.operations) = k
                      /\ \A i \in 1..k : s.operations[i].date = core[i].date

LEMMA PushFacts ==
    ASSUME NEW U, NEW existing, NEW core \in Seq(U), NewerOrder(core), NEW k \in 1..Len(core),
           NEW s \in Builders(U), BuiltUpTo(s, existing, core, k - 1), ~s.finished,
           NEW o \in U, o.date = core[k].date
    PROVE  push(s, o) \in Builders(U) /\ BuiltUpTo(push(s, o), existing, core, k)
<1> DEFINE ops == s.operations
           new == Append(ops, o)
<1>1. ops \in Seq(U) /\ Len(ops) = k - 1 /\ k \in Nat
  BY DEF Builders, BuiltUpTo
<1>2. new \in Seq(U) /\ Len(new) = k /\ new[k] = o /\ \A i \in 1..(k - 1) : new[i] = ops[i]
  BY <1>1
<1>3. push(s, o) = [s EXCEPT !.operations = new]
  BY DEF push
<1>4. /\ push(s, o).operations = new /\ push(s, o).existingOps = s.existingOps
      /\ push(s, o).finished = FALSE /\ push(s, o) \in Builders(U)
  BY <1>2, <1>3 DEF Builders
<1> HIDE DEF new, ops
<1>5. \A i \in 1..k : i \in 1..(k - 1) \/ i = k
  BY <1>1
<1>6. \A i \in 1..k : new[i].date = core[i].date
  BY <1>2, <1>5 DEF BuiltUpTo, ops
<1>7. \A i \in 1..k : i \in 1..Len(core)
  OBVIOUS
<1>8. NewerOrder(new)
  BY <1>2, <1>6, <1>7 DEF NewerOrder
<1> QED
  BY <1>2, <1>4, <1>6, <1>8 DEF BuiltUpTo

LEMMA AdvanceFacts ==
    ASSUME NEW U, Dated(U), NEW existing \in Seq(U), NewerOrder(existing),
           NEW core \in Seq(U), NewerOrder(core), NEW k \in 1..Len(core),
           NEW s \in Builders(U), BuiltUpTo(s, existing, core, k - 1)
    PROVE  advance(s, core, k) \in Builders(U) /\ BuiltUpTo(advance(s, core, k), existing, core, k)
<1>1. CASE s.finished
  <2>1. advance(s, core, k) = s
    BY <1>1 DEF advance
  <2> QED
    BY <1>1, <2>1 DEF BuiltUpTo
<1>2. CASE ~s.finished
  <2> DEFINE newOp == core[k]
             rest == restFrom(s.existingOps, newOp.id)
             compares == rest # <<>> /\ ~s.immutableOpCmpDoneOnce
             done == [s EXCEPT !.immutableOpCmpDoneOnce = @ \/ compares]
             i == Len(core) - k
  <2>1. advance(s, core, k) = stepBuilder(s, newOp, i)
    BY <1>2 DEF advance
  <2>2. newOp \in U
    OBVIOUS
  <2>3. s.existingOps \in Seq(U) /\ NewerOrder(s.existingOps)
    BY DEF Builders, BuiltUpTo, NewerOrder
  <2> HIDE DEF newOp
  <2>4. /\ rest \in Seq(U) /\ NewerOrder(rest)
        /\ rest # <<>> => /\ Len(rest) > 0 /\ Head(rest) = rest[1] /\ Head(rest) \in U
                          /\ Head(rest).id = newOp.id
    BY <2>3, RestFacts
  <2> HIDE DEF rest
  <2>5. rest # <<>> => Head(rest).date = newOp.date
    BY <2>2, <2>4 DEF Dated
  <2>6. /\ done \in Builders(U) /\ done.operations = s.operations
        /\ done.existingOps = s.existingOps /\ ~done.finished
    BY <1>2 DEF Builders
  <2>7. BuiltUpTo(done, existing, core, k - 1)
    BY <1>2, <2>6 DEF BuiltUpTo
  <2> HIDE DEF done
  <2> DEFINE blank == [done EXCEPT !.existingOps = <<>>]
  <2>8. /\ blank \in Builders(U) /\ blank.operations = s.operations
        /\ blank.existingOps = <<>> /\ ~blank.finished
    <3>1. <<>> \in Seq(U)
      OBVIOUS
    <3>2. done = [operations |-> done.operations, existingOps |-> done.existingOps,
                  immutableOpCmpDoneOnce |-> done.immutableOpCmpDoneOnce, finished |-> done.finished]
      BY <2>6 DEF Builders
    <3>3. blank = [operations |-> done.operations, existingOps |-> <<>>,
                   immutableOpCmpDoneOnce |-> done.immutableOpCmpDoneOnce, finished |-> done.finished]
      BY <3>2
    <3> HIDE DEF blank
    <3> QED
      BY <2>6, <3>1, <3>3 DEF Builders
  <2>9. BuiltUpTo(blank, existing, core, k - 1)
    BY <1>2, <2>8 DEF BuiltUpTo
  <2> DEFINE last == [done EXCEPT !.operations = @ \o rest, !.finished = TRUE]
  <2>10. /\ last.operations = s.operations \o rest /\ last.finished = TRUE
         /\ last.existingOps = s.existingOps
    BY <2>6 DEF Builders
  <2>11. last \in Builders(U)
    <3>1. s.operations \in Seq(U)
      BY DEF Builders
    <3>2. s.operations \o rest \in Seq(U)
      BY <2>4, <3>1
    <3> QED
      BY <2>6, <3>2 DEF Builders
  <2>12. ASSUME rest # <<>> PROVE BuiltUpTo(last, existing, core, k)
    <3> DEFINE ops == s.operations
    <3>1. ops \in Seq(U) /\ Len(ops) = k - 1 /\ DOMAIN ops = 1..(k - 1) /\ NewerOrder(ops)
      BY <1>2 DEF Builders, BuiltUpTo
    <3>2. \A j \in 1..(k - 1) : ops[j].date = core[j].date
      BY <1>2 DEF BuiltUpTo
    <3> HIDE DEF ops
    <3>3. ASSUME NEW x \in ToSet(ops), NEW y \in ToSet(rest) PROVE x.date > y.date
      <4>1. PICK j \in 1..(k - 1) : x = ops[j]
        BY <3>1 DEF ToSet
      <4>2. core[j].date > newOp.date
        BY <4>1 DEF NewerOrder, newOp
      <4>3. PICK l \in 1..Len(rest) : y = rest[l]
        BY <2>4, ToSetIs
      <4>4. y \in U /\ rest[1] \in U /\ 1 \in 1..Len(rest) /\ (l = 1 \/ 1 < l)
        BY <2>4, <4>3
      <4>5. y.date = rest[1].date \/ y.date < rest[1].date
        BY <2>4, <4>3, <4>4 DEF NewerOrder
      <4>6. rest[1].date = newOp.date
        BY <2>4, <2>5, <2>12
      <4>7. x.date > newOp.date /\ y.date \in Nat /\ newOp.date \in Nat /\ x.date \in Nat
        <5>1. x \in U
          BY <3>1, ToSetIs
        <5> QED
          BY <2>2, <3>2, <4>1, <4>2, <4>4, <5>1 DEF Dated
      <4> QED
        BY <4>5, <4>6, <4>7
    <3>4. NewerOrder(ops \o rest)
      BY <2>4, <3>1, <3>3, JoinNewer
    <3> QED
      BY <2>10, <3>4 DEF BuiltUpTo, ops
  <2> HIDE DEF last, blank
  <2>13. stepBuilder(s, newOp, i) \in
           {push(s, newOp), push(blank, newOp)}
           \cup (IF rest = <<>> THEN {} ELSE {push(done, Head(rest)), last})
    <3> DEFINE h == Head(rest)
    <3>1. stepBuilder(s, newOp, i) =
            CASE rest = <<>> \/ (compares /\ h.height # newOp.height) -> push(s, newOp)
              [] compares /\ h.height = newOp.height /\ ~sameOp(h, newOp) -> push(blank, newOp)
              [] rest # <<>> /\ (compares => sameOp(h, newOp)) ->
                   IF Len(rest) > i + 1 THEN push(done, h) ELSE last
      BY DEF stepBuilder, rest, blank, last, done
    <3>2. CASE rest = <<>> \/ (compares /\ h.height # newOp.height)
      BY <3>1, <3>2 DEF sameOp
    <3>3. CASE compares /\ h.height = newOp.height /\ ~sameOp(h, newOp)
      BY <3>1, <3>3 DEF sameOp
    <3>4. CASE rest # <<>> /\ (compares => sameOp(h, newOp))
      BY <3>1, <3>4 DEF sameOp
    <3> QED
      BY <3>2, <3>3, <3>4
  <2>14. push(s, newOp) \in Builders(U) /\ BuiltUpTo(push(s, newOp), existing, core, k)
    BY <1>2, <2>2, PushFacts DEF newOp
  <2>15. push(blank, newOp) \in Builders(U) /\ BuiltUpTo(push(blank, newOp), existing, core, k)
    BY <2>2, <2>8, <2>9, PushFacts DEF newOp
  <2>16. rest # <<>> => /\ push(done, Head(rest)) \in Builders(U)
                        /\ BuiltUpTo(push(done, Head(rest)), existing, core, k)
    BY <2>4, <2>5, <2>6, <2>7, PushFacts DEF newOp
  <2> QED
    BY <2>1, <2>11, <2>12, <2>13, <2>14, <2>15, <2>16
<1> QED
  BY <1>1, <1>2

(* The states of the builder, from before the first operation of the libcore  *)
(* to after the last one.                                                     *)
BuilderStates(U, existing, core) ==
    {g \in [0..Len(core) -> Builders(U)] :
       /\ g[0] = builder(existing)
       /\ \A k \in 1..Len(core) : g[k] = advance(g[k-1], core, k)
       /\ \A k \in 0..Len(core) : BuiltUpTo(g[k], existing, core, k)
       /\ minimalOperationsBuilder(existing, core) = g[Len(core)].operations}

LEMMA BuilderRuns ==
    ASSUME NEW U, Dated(U), NEW existing \in Seq(U), NewerOrder(existing),
           NEW core \in Seq(U), NewerOrder(core)
    PROVE  BuilderStates(U, existing, core) # {}
<1> DEFINE n == Len(core)
           W == Builders(U)
           start == builder(existing)
           next(s, k) == advance(s, core, k)
           F == [k \in 1..n |-> [s \in W |-> IF next(s, k) \in W THEN next(s, k) ELSE start]]
           Eq(f) == f = [k \in 0..n |-> IF k = 0 THEN start ELSE next(f[k-1], k)]
           P(s, k) == BuiltUpTo(s, existing, core, k)
<1>1. n \in Nat /\ start \in W /\ P(start, 0)
  <2>1. <<>> \in Seq(U) /\ NewerOrder(<<>>) /\ Len(<<>>) = 0
    BY DEF NewerOrder
  <2> QED
    BY <2>1 DEF builder, Builders, BuiltUpTo
<1>2. \A k \in 1..n, s \in W : P(s, k - 1) => next(s, k) \in W /\ P(next(s, k), k)
  BY AdvanceFacts
<1>3. F \in [1..n -> [W -> W]]
  BY <1>1
<1>4. PICK g \in [0..n -> W] : g[0] = start /\ \A k \in 1..n : g[k] = F[k][g[k-1]]
  <2> HIDE DEF n, W, start, F, next, Eq, P
  <2>1. n \in Nat /\ start \in W /\ F \in [1..n -> [W -> W]]
    BY <1>1, <1>3
  <2>2. Recursions(W, start, n, F) # {}
    BY <2>1, RecursionExists
  <2> QED
    BY <2>2 DEF Recursions
<1> HIDE DEF n, W, start, next, P
<1>5. ASSUME NEW k \in 1..n PROVE k - 1 \in 0..n /\ g[k-1] \in W /\ k \in 0..n
  BY <1>1
<1>6. ASSUME NEW k \in 1..n, P(g[k-1], k - 1) PROVE g[k] = next(g[k-1], k) /\ P(g[k], k)
  <2>1. g[k-1] \in W
    BY <1>5
  <2>2. next(g[k-1], k) \in W /\ P(next(g[k-1], k), k)
    BY <1>2, <1>6, <2>1
  <2>3. F[k] = [s \in W |-> IF next(s, k) \in W THEN next(s, k) ELSE start]
    OBVIOUS
  <2>4. g[k] = F[k][g[k-1]]
    BY <1>4
  <2> HIDE DEF F
  <2>5. F[k][g[k-1]] = next(g[k-1], k)
    BY <2>1, <2>2, <2>3
  <2> QED
    BY <2>2, <2>4, <2>5
<1> HIDE DEF F
<1>7. ASSUME NEW k \in 0..n PROVE P(g[k], k)
  <2> DEFINE T == {m \in 0..n : P(g[m], m)}
  <2>1. 0 \in T
    BY <1>1, <1>4
  <2>2. ASSUME NEW m \in 1..n, m - 1 \in T PROVE m \in T
    BY <1>5, <1>6, <2>2
  <2> HIDE DEF T
  <2>3. 0..n \subseteq T
    BY <1>1, <2>1, <2>2, UpToInduction
  <2> QED
    BY <2>3 DEF T
<1>8. \A k \in 1..n : g[k] = next(g[k-1], k)
  BY <1>5, <1>6, <1>7
<1>9. Eq(g)
  <2>1. ASSUME NEW k \in 0..n PROVE g[k] = IF k = 0 THEN start ELSE next(g[k-1], k)
    <3>1. k = 0 \/ k \in 1..n
      BY <1>1
    <3> QED
      BY <1>4, <1>8, <3>1
  <2> QED
    BY <2>1
<1>10. PICK f : Eq(f) /\ minimalOperationsBuilder(existing, core) = f[n].operations
  <2>1. Eq(CHOOSE f : Eq(f))
    BY <1>9
  <2>2. minimalOperationsBuilder(existing, core) = (CHOOSE f : Eq(f))[n].operations
    BY DEF minimalOperationsBuilder, n, start, next
  <2> HIDE DEF Eq
  <2> QED
    BY <2>1, <2>2
<1>11. f[0] = start /\ \A k \in 1..n : f[k] = next(f[k-1], k)
  <2>1. 0 \in 0..n /\ \A k \in 1..n : k \in 0..n /\ k # 0
    BY <1>1
  <2> QED
    BY <1>10, <2>1
<1>12. f[n] = g[n]
  <2> DEFINE T == {m \in 0..n : g[m] = f[m]}
  <2>1. 0 \in T
    BY <1>1, <1>4, <1>11
  <2>2. ASSUME NEW m \in 1..n, m - 1 \in T PROVE m \in T
    <3>1. g[m-1] = f[m-1] /\ m \in 0..n
      BY <1>1, <2>2
    <3> QED
      BY <1>8, <1>11, <3>1
  <2> HIDE DEF T
  <2>3. 0..n \subseteq T
    BY <1>1, <2>1, <2>2, UpToInduction
  <2>4. n \in T
    BY <1>1, <2>3
  <2> QED
    BY <2>4 DEF T
<1>13. g \in BuilderStates(U, existing, core)
  BY <1>4, <1>7, <1>8, <1>10, <1>12 DEF BuilderStates, W, n, start, next, P
<1> QED
  BY <1>13

(* What minimalOperationsBuilder returns is newer first and made of what it   *)
(* is given: the dates the builder keeps are those of the libcore.            *)
LEMMA BuilderFacts ==
    ASSUME NEW U, Dated(U), NEW existing \in Seq(U), NewerOrder(existing),
           NEW core \in Seq(U), NewerOrder(core)
    PROVE  /\ minimalOperationsBuilder(existing, core) \in Seq(U)
           /\ NewerOrder(minimalOperationsBuilder(existing, core))
<1>1. PICK g : g \in BuilderStates(U, existing, core)
  BY BuilderRuns
<1>2. Len(core) \in 0..Len(core)
  OBVIOUS
<1>3. g[Len(core)] \in Builders(U) /\ BuiltUpTo(g[Len(core)], existing, core, Len(core))
      /\ minimalOperationsBuilder(existing, core) = g[Len(core)].operations
  BY <1>1, <1>2 DEF BuilderStates
<1> QED
  BY <1>3 DEF Builders, BuiltUpTo

(* When the builder skips nothing: an operation is known by its id and its    *)
(* height, and what is not among the existing ones is newer than those the    *)
(* libcore still has.                                                         *)
Settled(U) == \A a, b \in U : a.id = b.id /\ a.height = b.height => a = b

OnlyNewerIsNew(existing, core) ==
    \A n \in ToSet(core) \ ToSet(existing), o \in ToSet(existing) \cap ToSet(core) :
       n.date > o.date

LEMMA HistoryLength ==
    ASSUME NEW U, Dated(U), NEW q \in Seq(U), NewerOrder(q)
    PROVE  IsFiniteSet(ToSet(q)) /\ Cardinality(ToSet(q)) = Len(q)
<1> DEFINE n == Len(q)
<1>1. n \in Nat /\ ToSet(q) = {q[i] : i \in 1..n} /\ q \in [1..n -> ToSet(q)]
      /\ \A i \in 1..n : q[i] \in U
  BY ToSetIs
<1>2. ASSUME NEW i \in 1..n, NEW j \in 1..n, q[i] = q[j] PROVE i = j
  <2>1. q[i].date \in Nat /\ q[j].date \in Nat
    BY <1>1 DEF Dated
  <2>2. ~(i < j) /\ ~(j < i)
    BY <1>2, <2>1 DEF NewerOrder
  <2> QED
    BY <2>2
<1>3. q \in Bijection(1..n, ToSet(q))
  <2>1. q \in Injection(1..n, ToSet(q))
    BY <1>1, <1>2 DEF Injection, IsInjective
  <2>2. q \in Surjection(1..n, ToSet(q))
    BY <1>1 DEF Surjection
  <2> QED
    BY <2>1, <2>2 DEF Bijection
<1>4. ExistsBijection(1..n, ToSet(q))
  BY <1>3 DEF ExistsBijection
<1>5. Cardinality(ToSet(q)) = n
  BY <1>1, <1>4, FS_CountingElements
<1> QED
  BY <1>5, SeqFinite

(* The existing operations that remain are those the libcore has left, when   *)
(* there are not more of them.                                                *)
LEMMA RestIsExact ==
    ASSUME NEW U, Dated(U), NEW existing \in Seq(U), NewerOrder(existing),
           NEW core \in Seq(U), NewerOrder(core), OnlyNewerIsNew(existing, core),
           NEW k \in 1..Len(core), core[k] \in ToSet(existing),
           Len(restFrom(existing, core[k].id)) <= Len(core) - k + 1
    PROVE  restFrom(existing, core[k].id) = SubSeq(core, k, Len(core))
<1> DEFINE o == core[k]
           rest == restFrom(existing, o.id)
           n == Len(core)
           m == Len(existing)
           end == SubSeq(core, k, n)
<1>1. /\ n \in Nat /\ m \in Nat /\ k \in 1..n
      /\ ToSet(core) = {core[i] : i \in 1..n} /\ ToSet(existing) = {existing[i] : i \in 1..m}
      /\ (\A i \in 1..n : core[i] \in U) /\ (\A i \in 1..m : existing[i] \in U)
  BY ToSetIs
<1>2. PICK j \in 1..m : /\ existing[j].id = o.id /\ rest \in Seq(U) /\ Len(rest) = m - j + 1
                        /\ \A i \in 1..(m - j + 1) : rest[i] = existing[j + i - 1]
  <2>1. rest # <<>>
    BY RestIsTail
  <2> QED
    BY <2>1, RestIsTail
<1>3. NewerOrder(rest)
  BY RestFacts
<1>4. existing[j] = o
  <2>1. existing[j] \in ToSet(existing)
    BY <1>1
  <2> QED
    BY <1>2, <2>1, OneOfEach
<1> HIDE DEF rest
<1>5. end \in Seq(U) /\ Len(end) = n - k + 1 /\ \A i \in 1..(n - k + 1) : end[i] = core[k + i - 1]
  <2>1. k \in Int /\ n \in Int /\ k <= n
    BY <1>1
  <2>2. \A i \in k..n : core[i] \in U
    BY <1>1
  <2> QED
    BY <2>1, <2>2, SubSeqProperties
<1> HIDE DEF end, n, m, o
<1>6. NewerOrder(end)
  <2>1. ASSUME NEW a \in 1..(n - k + 1), NEW b \in 1..(n - k + 1), a < b
        PROVE  end[a].date > end[b].date
    <3>1. k + a - 1 \in 1..n /\ k + b - 1 \in 1..n /\ k + a - 1 < k + b - 1
      <4>1. n \in Nat /\ k \in 1..n
        BY <1>1
      <4> QED
        BY <2>1, <4>1
    <3>2. core[k + a - 1].date > core[k + b - 1].date
      BY <3>1 DEF NewerOrder, n
    <3> QED
      BY <1>5, <3>2
  <2> QED
    BY <1>5, <2>1 DEF NewerOrder
<1>7. ToSet(end) \subseteq ToSet(rest)
  <2>1. ASSUME NEW y \in ToSet(end) PROVE y \in ToSet(rest)
    <3>1. PICK i \in 1..(n - k + 1) : y = end[i]
      BY <1>5, <2>1, ToSetIs
    <3>2. y = core[k + i - 1] /\ k + i - 1 \in 1..n /\ (k + i - 1 = k \/ k < k + i - 1)
      BY <1>1, <1>5, <3>1
    <3>3. y \in U /\ y \in ToSet(core) /\ o \in U /\ o \in ToSet(core) /\ o = core[k]
      BY <1>1, <3>2 DEF o
    <3>4. y = o \/ o.date > y.date
      BY <1>1, <3>2, <3>3 DEF NewerOrder, n
    <3>5. y.date \in Nat /\ o.date \in Nat
      BY <3>3 DEF Dated
    <3>6. o \in ToSet(existing) \cap ToSet(core)
      BY <3>3
    <3>7. y \in ToSet(existing)
      BY <3>3, <3>4, <3>5, <3>6 DEF OnlyNewerIsNew
    <3>8. PICK l \in 1..m : y = existing[l]
      BY <1>1, <3>7
    <3>9. ~(l < j)
      BY <1>4, <3>4, <3>5, <3>8, SMTT(30) DEF NewerOrder, m
    <3>10. l - j + 1 \in 1..(m - j + 1) /\ j + (l - j + 1) - 1 = l
      BY <1>1, <3>9
    <3>11. rest[l - j + 1] = y
      BY <1>2, <3>8, <3>10
    <3> QED
      BY <1>2, <3>10, <3>11, ToSetIs
  <2> QED
    BY <2>1
<1>8. /\ IsFiniteSet(ToSet(rest)) /\ Cardinality(ToSet(rest)) = Len(rest)
      /\ Cardinality(ToSet(end)) = Len(end)
  BY <1>2, <1>3, <1>5, <1>6, HistoryLength
<1>9. Len(rest) <= n - k + 1
  BY DEF rest, n, o
<1>10. Len(rest) \in Nat /\ Len(end) \in Nat /\ Cardinality(ToSet(end)) <= Cardinality(ToSet(rest))
  BY <1>2, <1>5, <1>7, <1>8, FS_Subset
<1>11. Cardinality(ToSet(rest)) = Cardinality(ToSet(end))
  BY <1>5, <1>8, <1>9, <1>10
<1>12. ToSet(rest) = ToSet(end)
  BY <1>7, <1>8, <1>11, FS_Subset
<1>13. rest = end
  BY <1>2, <1>3, <1>5, <1>6, <1>12, SameHistory
<1> QED
  BY <1>13 DEF rest, end, n, o

(* After k operations of the libcore the builder has exactly these, or is     *)
(* finished and has them all.                                                 *)
ExactUpTo(s, existing, core, k) ==
    /\ s.finished => s.operations = core
    /\ ~s.finished => /\ \A i \in 1..k : s.operations[i] = core[i]
                      /\ s.existingOps = existing
                      /\ s.immutableOpCmpDoneOnce => k > 0 /\ core[k] \in ToSet(existing)

LEMMA PushExact ==
    ASSUME NEW U, NEW existing, NEW core \in Seq(U), NEW k \in 1..Len(core),
           NEW s \in Builders(U), ~s.finished, Len(s.operations) = k - 1,
           \A i \in 1..(k - 1) : s.operations[i] = core[i], s.existingOps = existing,
           s.immutableOpCmpDoneOnce => core[k] \in ToSet(existing)
    PROVE  ExactUpTo(push(s, core[k]), existing, core, k)
<1> DEFINE ops == s.operations
           new == Append(ops, core[k])
<1>1. ops \in Seq(U) /\ Len(ops) = k - 1 /\ k \in Nat /\ k > 0 /\ core[k] \in U
  BY DEF Builders
<1>2. new[k] = core[k] /\ \A i \in 1..(k - 1) : new[i] = ops[i]
  BY <1>1
<1>3. push(s, core[k]) = [s EXCEPT !.operations = new]
  BY DEF push
<1>4. /\ push(s, core[k]).operations = new /\ push(s, core[k]).existingOps = existing
      /\ push(s, core[k]).finished = FALSE
      /\ push(s, core[k]).immutableOpCmpDoneOnce = s.immutableOpCmpDoneOnce
  BY <1>3 DEF Builders
<1> HIDE DEF new, ops
<1>5. \A i \in 1..k : i \in 1..(k - 1) \/ i = k
  BY <1>1
<1>6. \A i \in 1..k : new[i] = core[i]
  BY <1>2, <1>5 DEF ops
<1> QED
  BY <1>1, <1>4, <1>6 DEF ExactUpTo

LEMMA AdvanceExact ==
    ASSUME NEW U, Dated(U), Settled(U), NEW existing \in Seq(U), NewerOrder(existing),
           NEW core \in Seq(U), NewerOrder(core), OnlyNewerIsNew(existing, core),
           NEW k \in 1..Len(core), NEW s \in Builders(U), BuiltUpTo(s, existing, core, k - 1),
           ExactUpTo(s, existing, core, k - 1)
    PROVE  ExactUpTo(advance(s, core, k), existing, core, k)
<1>1. CASE s.finished
  <2>1. advance(s, core, k) = s
    BY <1>1 DEF advance
  <2> QED
    BY <1>1, <2>1 DEF ExactUpTo
<1>2. CASE ~s.finished
  <2> DEFINE newOp == core[k]
             rest == restFrom(existing, newOp.id)
             compares == rest # <<>> /\ ~s.immutableOpCmpDoneOnce
             done == [s EXCEPT !.immutableOpCmpDoneOnce = @ \/ compares]
             i == Len(core) - k
             last == [done EXCEPT !.operations = @ \o rest, !.finished = TRUE]
             h == Head(rest)
  <2>1. /\ s.existingOps = existing /\ Len(s.operations) = k - 1 /\ s.operations \in Seq(U)
        /\ \A l \in 1..(k - 1) : s.operations[l] = core[l]
        /\ s.immutableOpCmpDoneOnce => k - 1 > 0 /\ core[k-1] \in ToSet(existing)
    BY <1>2 DEF ExactUpTo, BuiltUpTo, Builders
  <2>2. /\ newOp \in U /\ newOp \in ToSet(core) /\ Len(core) \in Nat
        /\ \A l \in 1..Len(core) : core[l] \in U /\ core[l] \in ToSet(core)
    BY ToSetIs
  <2>3. /\ rest \in Seq(U) /\ Len(rest) \in Nat
        /\ rest # <<>> => /\ h = rest[1] /\ h \in U /\ h \in ToSet(existing) /\ h.id = newOp.id
    BY RestFacts
  <2>4. advance(s, core, k) = stepBuilder(s, newOp, i)
    BY <1>2 DEF advance
  <2>5. stepBuilder(s, newOp, i) =
          CASE rest = <<>> \/ (compares /\ h.height # newOp.height) -> push(s, newOp)
            [] compares /\ h.height = newOp.height /\ ~sameOp(h, newOp) ->
                 push([done EXCEPT !.existingOps = <<>>], newOp)
            [] rest # <<>> /\ (compares => sameOp(h, newOp)) ->
                 IF Len(rest) > i + 1 THEN push(done, h) ELSE last
    BY <2>1 DEF stepBuilder
  <2>6. /\ done \in Builders(U) /\ done.operations = s.operations
        /\ done.existingOps = s.existingOps /\ ~done.finished
    BY <1>2 DEF Builders
  <2>7. /\ last.operations = s.operations \o rest /\ last.finished = TRUE
    BY <2>6 DEF Builders
  <2>8. CASE newOp \in ToSet(existing)
    <3>1. rest # <<>>
      BY <2>8, RestIsTail
    <3>2. h = newOp
      BY <2>3, <2>8, <3>1, OneOfEach
    <3>3. stepBuilder(s, newOp, i) = IF Len(rest) > i + 1 THEN push(done, newOp) ELSE last
      BY <2>5, <3>1, <3>2 DEF sameOp
    <3>4. CASE Len(rest) > i + 1
      <4> HIDE DEF done, rest
      <4>1. ExactUpTo(push(done, core[k]), existing, core, k)
        BY <2>1, <2>6, <2>8, PushExact
      <4> QED
        BY <2>4, <3>3, <3>4, <4>1
    <3>5. CASE ~(Len(rest) > i + 1)
      <4>1. Len(rest) <= Len(core) - k + 1
        <5> HIDE DEF rest
        <5> QED
          BY <2>2, <2>3, <3>5
      <4>2. rest = SubSeq(core, k, Len(core))
        BY <2>8, <4>1, RestIsExact
      <4> HIDE DEF last, rest, done
      <4>3. last.operations = core
        <5> DEFINE n == Len(core)
                   ops == s.operations
                   all == ops \o rest
        <5>1. n \in Nat /\ k \in 1..n /\ k \in Int /\ n \in Int /\ k <= n
          BY <2>2
        <5>2. \A l \in k..n : core[l] \in U
          BY <2>2, <5>1
        <5>3. /\ Len(rest) = n - k + 1
              /\ \A l \in 1..(n - k + 1) : rest[l] = core[k + l - 1]
          BY <4>2, <5>1, <5>2, SubSeqProperties
        <5>4. /\ all \in Seq(U) /\ Len(all) = Len(ops) + Len(rest)
              /\ \A l \in 1..Len(all) : all[l] = IF l <= Len(ops) THEN ops[l] ELSE rest[l - Len(ops)]
          <6>1. ops \in Seq(U) /\ rest \in Seq(U)
            BY <2>1, <2>3
          <6> HIDE DEF ops
          <6>2. all \in Seq(U) /\ Len(all) = Len(ops) + Len(rest)
            BY <6>1
          <6>3. ASSUME NEW l \in 1..Len(all)
                PROVE  all[l] = IF l <= Len(ops) THEN ops[l] ELSE rest[l - Len(ops)]
            BY <6>1, <6>2
          <6> QED
            BY <6>2, <6>3
        <5> HIDE DEF all, ops
        <5>5. Len(ops) = k - 1 /\ Len(all) = n
          BY <2>1, <5>1, <5>3, <5>4 DEF ops
        <5>6. ASSUME NEW l \in 1..n PROVE all[l] = core[l]
          <6>1. CASE l <= k - 1
            <7>1. l \in 1..(k - 1) /\ l \in 1..Len(all) /\ l <= Len(ops)
              BY <5>1, <5>5, <6>1
            <7>2. all[l] = ops[l]
              BY <5>4, <7>1
            <7>3. ops[l] = core[l]
              BY <2>1, <7>1 DEF ops
            <7> QED
              BY <7>2, <7>3
          <6>2. CASE ~(l <= k - 1)
            <7>1. l - (k - 1) \in 1..(n - k + 1) /\ k + (l - (k - 1)) - 1 = l
              BY <5>1, <6>2
            <7>2. all[l] = rest[l - (k - 1)]
              BY <5>4, <5>5, <6>2
            <7> QED
              BY <5>3, <7>1, <7>2
          <6> QED
            BY <6>1, <6>2
        <5>7. all = core
          BY <5>4, <5>5, <5>6
        <5> QED
          BY <2>7, <5>7 DEF all, ops
      <4> QED
        BY <2>4, <2>7, <3>3, <3>5, <4>3 DEF ExactUpTo
    <3> QED
      BY <3>4, <3>5
  <2>9. CASE newOp \notin ToSet(existing)
    <3>1. ~s.immutableOpCmpDoneOnce
      <4> SUFFICES ASSUME s.immutableOpCmpDoneOnce PROVE FALSE
        OBVIOUS
      <4>1. k - 1 \in 1..Len(core) /\ core[k-1] \in ToSet(existing) /\ k - 1 < k
        BY <2>1, <2>2
      <4>2. core[k-1].date > newOp.date
        BY <4>1 DEF NewerOrder
      <4>3. newOp.date > core[k-1].date
        BY <2>2, <2>9, <4>1 DEF OnlyNewerIsNew
      <4>4. newOp.date \in Nat /\ core[k-1].date \in Nat
        BY <2>2, <4>1 DEF Dated
      <4> QED
        BY <4>2, <4>3, <4>4
    <3>2. rest # <<>> => h.height # newOp.height
      BY <2>2, <2>3, <2>9 DEF Settled
    <3>3. stepBuilder(s, newOp, i) = push(s, newOp)
      <4>1. CASE rest = <<>>
        BY <2>5, <4>1
      <4>2. CASE rest # <<>>
        <5> HIDE DEF rest, last, done
        <5>1. compares /\ h.height # newOp.height
          BY <3>1, <3>2, <4>2
        <5> HIDE DEF compares, h, newOp
        <5> QED
          BY <2>5, <4>2, <5>1 DEF sameOp
      <4> QED
        BY <4>1, <4>2
    <3>4. ExactUpTo(push(s, core[k]), existing, core, k)
      BY <1>2, <2>1, <3>1, PushExact
    <3> QED
      BY <2>4, <3>3, <3>4
  <2> QED
    BY <2>8, <2>9
<1> QED
  BY <1>1, <1>2

LEMMA ExactBuilder ==
    ASSUME NEW U, Dated(U), Settled(U), NEW existing \in Seq(U), NewerOrder(existing),
           NEW core \in Seq(U), NewerOrder(core), OnlyNewerIsNew(existing, core)
    PROVE  minimalOperationsBuilder(existing, core) = core
<1> DEFINE n == Len(core)
<1>1. PICK g : g \in BuilderStates(U, existing, core)
  BY BuilderRuns
<1>2. /\ n \in Nat /\ g[0] = builder(existing)
      /\ \A k \in 1..n : g[k] = advance(g[k-1], core, k)
      /\ \A k \in 0..n : g[k] \in Builders(U) /\ BuiltUpTo(g[k], existing, core, k)
      /\ minimalOperationsBuilder(existing, core) = g[n].operations
  <2>1. /\ g \in [0..n -> Builders(U)] /\ g[0] = builder(existing)
        /\ \A k \in 1..n : g[k] = advance(g[k-1], core, k)
        /\ \A k \in 0..n : BuiltUpTo(g[k], existing, core, k)
        /\ minimalOperationsBuilder(existing, core) = g[n].operations
    BY <1>1 DEF BuilderStates
  <2>2. n \in Nat /\ \A k \in 0..n : g[k] \in Builders(U)
    BY <2>1, SMTT(30)
  <2> QED
    BY <2>1, <2>2
<1> DEFINE T == {k \in 0..n : ExactUpTo(g[k], existing, core, k)}
<1>3. 0 \in T
  BY <1>2 DEF ExactUpTo, builder
<1>4. ASSUME NEW k \in 1..n, k - 1 \in T PROVE k \in T
  <2>1. k - 1 \in 0..n /\ k \in 0..n /\ g[k-1] \in Builders(U)
        /\ BuiltUpTo(g[k-1], existing, core, k - 1) /\ ExactUpTo(g[k-1], existing, core, k - 1)
    BY <1>2, <1>4
  <2>2. ExactUpTo(advance(g[k-1], core, k), existing, core, k)
    BY <2>1, AdvanceExact
  <2> QED
    BY <1>2, <2>1, <2>2
<1>5. n \in T
  <2> HIDE DEF T
  <2>1. 0..n \subseteq T
    BY <1>2, <1>3, <1>4, UpToInduction
  <2> QED
    BY <1>2, <2>1
<1>6. ExactUpTo(g[n], existing, core, n) /\ n \in 0..n
  BY <1>2, <1>5
<1>7. CASE g[n].finished
  BY <1>2, <1>6, <1>7 DEF ExactUpTo
<1>8. CASE ~g[n].finished
  <2> DEFINE ops == g[n].operations
  <2>1. ops \in Seq(U) /\ Len(ops) = n
    BY <1>2, <1>6, <1>8 DEF BuiltUpTo, Builders
  <2>2. \A i \in 1..n : ops[i] = core[i]
    BY <1>6, <1>8 DEF ExactUpTo
  <2> HIDE DEF ops
  <2>3. ops = core
    BY <2>1, <2>2
  <2> QED
    BY <1>2, <2>3 DEF ops
<1> QED
  BY <1>7, <1>8

-----------------------------------------------------------------------------
(* The date of an operation is a fact of its transaction: the block of a js   *)
(* one, which is final, or the rank in which it became known.                 *)
Date(t) == IF bridge = "js" THEN height[t] ELSE Received[t]

(* The operations the account and its synchronisations may hold.              *)
Ours ==
    {o \in OperationsType : /\ o.date = Date(o.id) /\ o.seq = seq(o.id)
                            /\ bridge = "js" => height[o.id] > 0}

GoodHistory(ops) == ops \in Seq(Ours) /\ NewerOrder(ops)

(* The transactions of the account are in blocks of their own.                *)
ChainOK ==
    /\ \A t \in Txs : height[t] <= tip
    /\ \A t, u \in Txs : height[t] = height[u] /\ height[t] > 0 => t = u

HInv ==
    /\ TypeOK /\ ChainOK
    /\ GoodHistory(operations)
    /\ sync # <<>> => GoodHistory(Head(sync).operations) /\ GoodHistory(Head(sync).found)

LEMMA OursAreDated == ASSUME HInv PROVE Dated(Ours)
<1>1. height \in [Txs -> 0..MaxHeight] /\ Received \in [Txs -> Nat \ {0}]
  BY TxsAssumption DEF HInv, TypeOK
<1>2. \A o \in Ours : o.id \in Txs /\ o.date = Date(o.id) /\ (bridge = "js" => height[o.id] > 0)
  BY DEF Ours, OperationsType
<1>3. \A t \in Txs : Date(t) \in Nat
  BY <1>1, BoundAssumption DEF Date
<1>4. ASSUME NEW a \in Ours, NEW b \in Ours, Date(a.id) = Date(b.id) PROVE a.id = b.id
  <2>1. CASE bridge = "js"
    BY <1>2, <1>4, <2>1 DEF Date, HInv, ChainOK
  <2>2. CASE bridge # "js"
    BY <1>2, <1>4, <2>2, TxsAssumption DEF Date
  <2> QED
    BY <2>1, <2>2
<1> QED
  BY <1>2, <1>3, <1>4 DEF Dated

(* What a bridge reports of some transactions.                                *)
LEMMA HistoryFacts ==
    ASSUME HInv, NEW ts \in SUBSET onChain
    PROVE  GoodHistory(History(ts)) /\ ToSet(History(ts)) = {operation(t) : t \in ts}
<1> DEFINE ops == {operation(t) : t \in ts}
           f == [t \in ts |-> operation(t)]
<1>1. ts \subseteq Txs /\ (bridge = "js" => \A t \in ts : height[t] > 0)
  BY DEF onChain, HInv, TypeOK
<1>2. height \in [Txs -> 0..MaxHeight] /\ Received \in [Txs -> Nat \ {0}] /\ Nonce \in [Txs -> Nat]
  BY TxsAssumption DEF HInv, TypeOK
<1>3. ASSUME NEW t \in ts PROVE operation(t) \in Ours /\ operation(t).id = t
  <2>1. /\ operation(t).id = t /\ operation(t).date = Date(t) /\ operation(t).height = height[t]
        /\ operation(t).seq = seq(t)
    BY DEF operation, Date
  <2>2. t \in Txs /\ Date(t) \in Nat /\ seq(t) \in Nat
    BY <1>1, <1>2, BoundAssumption DEF Date, seq
  <2>3. operation(t) \in OperationsType
    BY <1>2, <2>2 DEF operation, OperationsType, Date
  <2> QED
    BY <1>1, <2>1, <2>3 DEF Ours
<1>4. ops \subseteq Ours
  BY <1>3
<1>5. IsFiniteSet(ops)
  <2>1. IsFiniteSet(ts)
    BY <1>1, TxsAssumption, FS_Subset
  <2>2. f \in Surjection(ts, ops)
    BY DEF Surjection
  <2> HIDE DEF f, ops
  <2> QED
    BY <2>1, <2>2, FS_Surjection
<1>6. \A o \in ops : o.date \in Nat
  BY <1>4, OursAreDated DEF Dated
<1>7. ASSUME NEW o \in ops, NEW p \in ops, o.date = p.date PROVE o = p
  <2>1. PICK t \in ts, u \in ts : o = operation(t) /\ p = operation(u)
    OBVIOUS
  <2>2. o.id = p.id
    BY <1>4, <1>7, OursAreDated DEF Dated
  <2> QED
    BY <1>3, <2>1, <2>2
<1> HIDE DEF ops
<1>8. newerFirst(ops) \in Seq(ops) /\ NewerOrder(newerFirst(ops)) /\ ToSet(newerFirst(ops)) = ops
  BY <1>5, <1>6, <1>7, NewerFirstFacts
<1>9. newerFirst(ops) \in Seq(Ours)
  BY <1>4, <1>8
<1>10. History(ts) = newerFirst(ops)
  BY DEF History, ops
<1> QED
  BY <1>8, <1>9, <1>10 DEF GoodHistory, ops

LEMMA GoodMerge ==
    ASSUME HInv, NEW a, GoodHistory(a), NEW b, GoodHistory(b)
    PROVE  GoodHistory(mergeOps(a, b)) /\ Merged(a, b, mergeOps(a, b))
  BY OursAreDated, MergeFacts DEF GoodHistory

LEMMA ShapeFacts == ASSUME HInv PROVE GoodHistory(shapeOperations)
<1>1. bridge \in {"libcore", "ethereum", "js"}
  BY TxsAssumption DEF HInv, TypeOK
<1>2. GoodHistory(operations) /\ GoodHistory(stableOperations)
  <2>1. operations \in Seq(Ours) /\ NewerOrder(operations)
    BY DEF HInv, GoodHistory
  <2>2. stableOperations \in Seq(Ours) /\ NewerOrder(stableOperations)
    BY <2>1, AmongFacts, AmongNewer DEF stableOperations
  <2> QED
    BY <2>1, <2>2 DEF GoodHistory
<1>3. CASE bridge = "libcore"
  <2>1. GoodHistory(History(onChain))
    BY HistoryFacts
  <2>2. shapeOperations = minimalOperationsBuilder(operations, History(onChain))
    BY <1>3 DEF shapeOperations
  <2> QED
    BY <1>2, <2>1, <2>2, OursAreDated, BuilderFacts DEF GoodHistory
<1>4. CASE bridge = "ethereum"
  <2> DEFINE from == IF stableOperations = <<>> THEN 0 ELSE Head(stableOperations).height
             ts == {t \in onChain : height[t] > from}
  <2>1. GoodHistory(History(ts))
    BY HistoryFacts
  <2>2. shapeOperations = mergeOps(stableOperations, History(ts))
    BY <1>4 DEF shapeOperations
  <2> HIDE DEF ts
  <2> QED
    BY <1>2, <2>1, <2>2, GoodMerge
<1>5. CASE bridge = "js"
  <2> DEFINE startAt == IF operations = <<>> THEN 0 ELSE Head(operations).height + 1
             ts == {t \in onChain : height[t] >= startAt}
  <2>1. GoodHistory(History(ts))
    BY HistoryFacts
  <2>2. shapeOperations = mergeOps(operations, History(ts))
    BY <1>5 DEF shapeOperations
  <2> HIDE DEF ts
  <2> QED
    BY <1>2, <2>1, <2>2, GoodMerge
<1> QED
  BY <1>1, <1>3, <1>4, <1>5

-----------------------------------------------------------------------------
LEMMA HistoryInitial == Init => HInv
<1> SUFFICES ASSUME Init PROVE HInv
  OBVIOUS
<1>1. 0 \in 0..MaxHeight /\ 0 \in 0..MaxUndone
  BY BoundAssumption
<1>2. height \in [Txs -> 0..MaxHeight] /\ \A t \in Txs : height[t] = 0
  BY <1>1 DEF Init
<1>3. operations = <<>> /\ pendingOperations = <<>> /\ sync = <<>>
  BY DEF Init
<1>4. /\ bridge \in Bridges /\ known \subseteq Txs /\ tip = 0 /\ toAdd \subseteq Own
      /\ expired \subseteq Own /\ late = {} /\ blockHeight = 0 /\ undone = 0
  BY DEF Init
<1>5. TypeOK
  BY <1>1, <1>2, <1>3, <1>4 DEF TypeOK
<1>6. ChainOK
  BY <1>2, <1>4 DEF ChainOK
<1> QED
  BY <1>3, <1>5, <1>6 DEF HInv, GoodHistory, NewerOrder

(* A step of the chain that moves no final block keeps what is known of the   *)
(* histories.                                                                 *)
Steady ==
    /\ bridge' = bridge
    /\ bridge = "js" => \A t \in Txs : height[t] > 0 => height'[t] = height[t]

LEMMA HistoriesStay ==
    ASSUME HInv, Steady, NEW ops, GoodHistory(ops)
    PROVE  ops \in Seq(Ours') /\ NewerOrder(ops)
<1>1. Ours \subseteq Ours'
  <2>1. ASSUME NEW o \in Ours PROVE o \in Ours'
    <3>1. o \in OperationsType /\ o.id \in Txs
      BY DEF Ours, OperationsType
    <3>2. o.date = Date(o.id)' /\ o.seq = seq(o.id)'
      BY <3>1 DEF Ours, Steady, Date, seq
    <3>3. bridge' = "js" => height'[o.id] > 0
      BY <3>1 DEF Ours, Steady
    <3> QED
      BY <3>1, <3>2, <3>3 DEF Ours
  <2> QED
    BY <2>1
<1> QED
  BY <1>1 DEF GoodHistory

(* A step of the chain only has the chain to account for.                     *)
LEMMA ChainSteps ==
    ASSUME HInv, ChainStep, Steady, known' \subseteq Txs,
           height' \in [Txs -> 0..MaxHeight], tip' \in 0..MaxHeight,
           undone' \in 0..MaxUndone, ChainOK'
    PROVE  HInv'
<1>1. UNCHANGED <<bridge, toAdd, expired, operations, pendingOperations, blockHeight, sync, late>>
  BY DEF ChainStep, account
<1>2. TypeOK'
  BY <1>1 DEF HInv, TypeOK, SyncsType, OperationsType
<1>3. GoodHistory(operations)'
  BY <1>1, HistoriesStay DEF HInv, GoodHistory, NewerOrder
<1>4. ASSUME sync' # <<>>
      PROVE  GoodHistory(Head(sync).operations)' /\ GoodHistory(Head(sync).found)'
  <2>1. GoodHistory(Head(sync).operations) /\ GoodHistory(Head(sync).found)
    BY <1>1, <1>4 DEF HInv
  <2> QED
    BY <1>1, <2>1, HistoriesStay DEF GoodHistory, NewerOrder
<1> QED
  BY <1>2, <1>3, <1>4 DEF HInv

LEMMA ReceiveStep == ASSUME HInv, NEW t \in Txs, Receive(t) \/ Drop(t) PROVE HInv'
<1>1. ChainStep /\ UNCHANGED <<height, tip>>
  BY DEF Receive, Drop
<1>3. known' \subseteq Txs
  BY DEF Receive, Drop, HInv, TypeOK
<1>4. undone' \in 0..MaxUndone
  BY BoundAssumption DEF Receive, Drop, HInv, TypeOK
<1>2. Steady /\ ChainOK'
  BY <1>1 DEF Steady, ChainStep, HInv, ChainOK
<1> QED
  BY <1>1, <1>2, <1>3, <1>4, ChainSteps DEF HInv, TypeOK

LEMMA MineStep == ASSUME HInv, NEW t \in Txs, Mine(t) PROVE HInv'
<1>1. /\ ChainStep /\ height[t] = 0 /\ tip < MaxHeight /\ tip' = tip + 1
      /\ height' = [height EXCEPT ![t] = tip + 1] /\ UNCHANGED <<known, undone>>
  BY DEF Mine
<1>2. tip \in Nat /\ tip + 1 \in 0..MaxHeight /\ height \in [Txs -> 0..MaxHeight]
  BY <1>1, BoundAssumption DEF HInv, TypeOK
<1>3. height' \in [Txs -> 0..MaxHeight] /\ tip' \in 0..MaxHeight
  BY <1>1, <1>2
<1>4. \A u \in Txs : height'[u] = IF u = t THEN tip + 1 ELSE height[u]
  BY <1>1, <1>2
<1>5. \A u \in Txs : height[u] \in Nat /\ height[u] <= tip
  BY <1>2 DEF HInv, ChainOK
<1>6. ChainOK'
  <2>1. \A u \in Txs : height'[u] <= tip'
    BY <1>1, <1>2, <1>4, <1>5
  <2>2. ASSUME NEW u \in Txs, NEW w \in Txs, height'[u] = height'[w], height'[u] > 0 PROVE u = w
    BY <1>2, <1>4, <1>5, <2>2 DEF HInv, ChainOK
  <2> QED
    BY <2>1, <2>2 DEF ChainOK
<1>7. Steady
  BY <1>1, <1>4 DEF Steady, ChainStep
<1> QED
  BY <1>1, <1>3, <1>6, <1>7, ChainSteps DEF HInv, TypeOK

LEMMA EmptyBlockStep == ASSUME HInv, EmptyBlock PROVE HInv'
<1> DEFINE c == Cardinality({t \in Txs : height[t] = 0})
<1>1. ChainStep /\ tip + c + (MaxUndone - undone) < MaxHeight /\ tip' = tip + 1
      /\ UNCHANGED <<known, height, undone>>
  BY DEF EmptyBlock
<1>2. c \in Nat
  <2>1. {t \in Txs : height[t] = 0} \in SUBSET Txs
    OBVIOUS
  <2> QED
    BY <2>1, TxsAssumption, FS_Subset, FS_CardinalityType
<1> HIDE DEF c
<1>3. tip \in Nat /\ MaxUndone - undone \in Nat /\ MaxHeight \in Nat
  BY BoundAssumption DEF HInv, TypeOK
<1>4. tip + 1 \in 0..MaxHeight
  BY <1>1, <1>2, <1>3
<1>5. ChainOK'
  <2>1. \A t \in Txs : height[t] \in Nat /\ height[t] <= tip
    BY DEF HInv, TypeOK, ChainOK
  <2> QED
    BY <1>1, <1>3, <2>1 DEF HInv, ChainOK
<1> QED
  BY <1>1, <1>4, <1>5, ChainSteps DEF HInv, TypeOK, Steady, ChainStep

LEMMA ReorgStep == ASSUME HInv, Reorg PROVE HInv'
<1>1. /\ ChainStep /\ bridge # "js" /\ UNCHANGED <<known, tip>> /\ undone' \in 0..MaxUndone
  BY BoundAssumption DEF Reorg, HInv, TypeOK
<1>2. PICK t \in Txs : height' = [height EXCEPT ![t] = 0]
  BY DEF Reorg
<1>3. height \in [Txs -> 0..MaxHeight] /\ 0 \in 0..MaxHeight /\ tip \in Nat
  BY BoundAssumption DEF HInv, TypeOK
<1>4. height' \in [Txs -> 0..MaxHeight]
  BY <1>2, <1>3
<1>5. \A u \in Txs : height'[u] = IF u = t THEN 0 ELSE height[u]
  BY <1>2, <1>3
<1>6. ChainOK'
  BY <1>1, <1>3, <1>5 DEF HInv, ChainOK
<1>7. Steady
  BY <1>1 DEF Steady, ChainStep
<1> QED
  BY <1>1, <1>4, <1>6, <1>7, ChainSteps DEF HInv, TypeOK
-----------------------------------------------------------------------------
(* A step that leaves the chain alone, and the histories.                     *)
LEMMA QuietChain ==
    ASSUME HInv, UNCHANGED <<bridge, height, tip, undone>>, known' \subseteq Txs
    PROVE  /\ ChainOK' /\ Steady /\ Ours' = Ours /\ bridge' \in Bridges
           /\ height' \in [Txs -> 0..MaxHeight] /\ tip' \in 0..MaxHeight
           /\ undone' \in 0..MaxUndone
<1>1. Ours' = Ours
  BY DEF Ours, OperationsType, Date, seq
<1> QED
  BY <1>1 DEF HInv, TypeOK, ChainOK, Steady

LEMMA PendingSteps ==
    ASSUME HInv, UNCHANGED <<bridge, height, tip, undone, operations, blockHeight, sync, late>>,
           known' \subseteq Txs, toAdd' \subseteq Own, expired' \subseteq Own,
           pendingOperations' \in Seq(Own)
    PROVE  HInv'
<1>1. TypeOK'
  BY QuietChain DEF HInv, TypeOK, SyncsType, OperationsType
<1>2. \A ops : GoodHistory(ops) => ops \in Seq(Ours') /\ NewerOrder(ops)
  BY QuietChain DEF GoodHistory
<1>3. GoodHistory(operations)'
  BY <1>2 DEF HInv, GoodHistory, NewerOrder
<1>4. ASSUME sync' # <<>>
      PROVE  GoodHistory(Head(sync).operations)' /\ GoodHistory(Head(sync).found)'
  <2>1. GoodHistory(Head(sync).operations) /\ GoodHistory(Head(sync).found)
    BY <1>4 DEF HInv
  <2> QED
    BY <1>2, <2>1 DEF GoodHistory, NewerOrder
<1> QED
  BY <1>1, <1>3, <1>4, QuietChain DEF HInv

LEMMA BroadcastStep == ASSUME HInv, NEW t \in Txs, Broadcast(t) PROVE HInv'
<1>1. /\ t \in Own /\ known' = known \cup {t} /\ toAdd' = toAdd \cup {t}
      /\ UNCHANGED <<bridge, height, tip, undone, expired, account, sync, late>>
  BY DEF Broadcast
<1>2. /\ known' \subseteq Txs /\ toAdd' \subseteq Own /\ expired' \subseteq Own
      /\ pendingOperations' \in Seq(Own)
  BY <1>1 DEF account, HInv, TypeOK
<1>3. UNCHANGED <<bridge, height, tip, undone, operations, blockHeight, sync, late>>
  BY <1>1 DEF account
<1> QED
  BY <1>2, <1>3, PendingSteps

LEMMA AddPendingStep == ASSUME HInv, NEW t \in Txs, addPendingOperation(t) PROVE HInv'
<1>1. /\ t \in Own /\ pendingOperations \in Seq(Own) /\ toAdd' \subseteq Own
      /\ pendingOperations' = appendPendingOp(pendingOperations, t)
      /\ UNCHANGED <<bridge, chain, expired, operations, blockHeight, sync, late>>
  BY DEF addPendingOperation, HInv, TypeOK
<1> DEFINE rest == Among(pendingOperations, {u \in Own : seq(u) # seq(t)})
<1>2. rest \in Seq(Own)
  BY <1>1, AmongFacts
<1>3. pendingOperations' = <<t>> \o rest
  BY <1>1 DEF appendPendingOp
<1> HIDE DEF rest
<1>4. <<t>> \o rest \in Seq(Own)
  BY <1>1, <1>2
<1> QED
  BY <1>1, <1>3, <1>4, PendingSteps DEF chain, HInv, TypeOK

LEMMA ExpireStep == ASSUME HInv, NEW t \in Txs, Expire(t) PROVE HInv'
<1>1. pendingOperations \in Seq(Own)
  BY DEF HInv, TypeOK
<1>2. t \in Own
  BY <1>1, ToSetIs DEF Expire
<1> QED
  BY <1>1, <1>2, PendingSteps DEF Expire, chain, account, HInv, TypeOK

(* Both the histories of a synchronisation are good when it starts...         *)
LEMMA FetchStep == ASSUME HInv, Fetch PROVE HInv'
<1> DEFINE ops == shapeOperations
           found == History(onChain)
           r == [operations |-> ops, found |-> found, blockHeight |-> tip]
<1>1. sync' = <<r>> /\ UNCHANGED <<bridge, chain, toAdd, expired, account, late>>
  BY DEF Fetch
<1>2. GoodHistory(ops) /\ GoodHistory(found)
  BY ShapeFacts, HistoryFacts
<1> HIDE DEF ops, found
<1>3. Ours \subseteq OperationsType
  BY DEF Ours
<1>4. r \in SyncsType
  BY <1>2, <1>3 DEF GoodHistory, SyncsType, HInv, TypeOK
<1>5. r.operations = ops /\ r.found = found
  OBVIOUS
<1> HIDE DEF r
<1>6. sync' \in Seq(SyncsType) /\ Len(sync') = 1 /\ Head(sync') = r
  BY <1>1, <1>4
<1>7. Ours' = Ours /\ ChainOK'
  BY <1>1, QuietChain DEF chain, HInv, TypeOK
<1>8. TypeOK'
  BY <1>1, <1>6 DEF HInv, TypeOK, chain, account, SyncsType, OperationsType
<1>9. GoodHistory(operations)'
  BY <1>1, <1>7 DEF HInv, GoodHistory, NewerOrder, account
<1>10. GoodHistory(Head(sync).operations)' /\ GoodHistory(Head(sync).found)'
  BY <1>2, <1>5, <1>6, <1>7 DEF GoodHistory, NewerOrder
<1> QED
  BY <1>7, <1>8, <1>9, <1>10 DEF HInv

(* ... and still good when it ends, whatever the account has become.          *)
LEMMA UpdateStep == ASSUME HInv, Update PROVE HInv'
<1> DEFINE new == IF bridge = "libcore" THEN Head(sync).operations
                  ELSE mergeOps(operations, Head(sync).operations)
<1>1. /\ sync # <<>> /\ sync' = <<>> /\ operations' = new /\ blockHeight' = Head(sync).blockHeight
      /\ UNCHANGED <<bridge, chain, toAdd, expired>>
  BY DEF Update
<1>2. GoodHistory(new)
  BY <1>1, GoodMerge DEF HInv
<1> HIDE DEF new
<1>3. Ours \subseteq OperationsType
  BY DEF Ours
<1>4. operations' \in Seq(OperationsType)
  BY <1>1, <1>2, <1>3 DEF GoodHistory
<1>5. blockHeight' \in 0..MaxHeight
  <2>1. sync \in Seq(SyncsType) /\ sync # <<>>
    BY <1>1 DEF HInv, TypeOK
  <2>2. Head(sync) \in SyncsType
    BY <2>1
  <2> QED
    BY <1>1, <2>2 DEF SyncsType
<1>6. pendingOperations' \in Seq(Own)
  <2>1. pendingOperations \in Seq(Own) /\ bridge \in {"libcore", "ethereum", "js"}
    BY TxsAssumption DEF HInv, TypeOK
  <2>2. \A S : Among(pendingOperations, S) \in Seq(Own)
    BY <2>1, AmongFacts
  <2>3. pendingOperations' \in {retained(pendingOperations, operations'),
                                postSyncPatch(pendingOperations, operations'),
                                retained(pendingOperations, operations)}
    BY <2>1 DEF Update
  <2> QED
    BY <2>2, <2>3 DEF retained, postSyncPatch
<1>7. Ours' = Ours /\ ChainOK'
  BY <1>1, QuietChain DEF chain, HInv, TypeOK
<1>8. TypeOK'
  <2>1. sync' \in Seq(SyncsType) /\ Len(sync') <= 1
    BY <1>1
  <2>2. ids(Head(sync).found) \subseteq Txs
    <3>1. Head(sync).found \in Seq(Ours)
      BY <1>1 DEF HInv, GoodHistory
    <3>2. ToSet(Head(sync).found) \subseteq OperationsType
      BY <1>3, <3>1, ToSetIs
    <3> QED
      BY <3>2 DEF ids, OperationsType
  <2>3. late' \subseteq Txs
    BY <2>2 DEF Update, HInv, TypeOK
  <2> QED
    BY <1>1, <1>4, <1>5, <1>6, <2>1, <2>3 DEF HInv, TypeOK, chain, SyncsType, OperationsType
<1>9. GoodHistory(operations)'
  BY <1>1, <1>2, <1>7 DEF GoodHistory, NewerOrder
<1> QED
  BY <1>1, <1>7, <1>8, <1>9 DEF HInv

LEMMA HistoryStep == HInv /\ [Next]_vars => HInv'
<1> SUFFICES ASSUME HInv, [Next]_vars PROVE HInv'
  OBVIOUS
<1>1. ASSUME NEW t \in Txs, \/ Receive(t) \/ Mine(t) \/ Drop(t)
                            \/ Broadcast(t) \/ addPendingOperation(t) \/ Expire(t)
      PROVE  HInv'
  BY <1>1, ReceiveStep, MineStep, BroadcastStep, AddPendingStep, ExpireStep
<1>2. CASE EmptyBlock \/ Reorg \/ Fetch \/ Update
  BY <1>2, EmptyBlockStep, ReorgStep, FetchStep, UpdateStep
<1>3. CASE UNCHANGED vars
  BY <1>3, PendingSteps DEF vars, chain, account, HInv, TypeOK
<1> QED
  BY <1>1, <1>2, <1>3 DEF Next

-----------------------------------------------------------------------------
(* The variables keep their types: what a synchronisation makes of a history  *)
(* is again a sequence of operations of the account (jsHelpers.js:68-111,     *)
(* reconciliation.js:489-541), and the pending ones are the account's own.    *)
THEOREM TypeCorrect == Spec => []TypeOK
<1>1. HInv => TypeOK
  BY DEF HInv
<1> QED
  BY <1>1, HistoryInitial, HistoryStep, PTL DEF Spec

(* Whatever the bridge, whatever its synchronisations are told and whenever   *)
(* they end, the history has one operation of each id and is newer first      *)
(* (mergeOps, jsHelpers.js:68-111; minimalOperationsBuilder,                  *)
(* reconciliation.js:543-578).                                                *)
THEOREM HistoryIsSorted == Spec => []DedupedAndSorted
<1>1. HInv => DedupedAndSorted
  <2> SUFFICES ASSUME HInv PROVE DedupedAndSorted
    OBVIOUS
  <2>1. operations \in Seq(Ours) /\ NewerOrder(operations) /\ Dated(Ours)
    BY OursAreDated DEF HInv, GoodHistory
  <2>2. DOMAIN operations = 1..Len(operations) /\ \A i \in 1..Len(operations) : operations[i] \in Ours
    BY <2>1
  <2>3. ASSUME NEW i \in 1..Len(operations), NEW j \in 1..Len(operations), i < j
        PROVE  operations[i].id # operations[j].id /\ operations[i].date > operations[j].date
    <3>1. operations[i].date > operations[j].date
      BY <2>1, <2>3 DEF NewerOrder
    <3>2. operations[i].date \in Nat /\ operations[j].date \in Nat
      BY <2>1, <2>2 DEF Dated
    <3>3. operations[i].date # operations[j].date
      BY <3>1, <3>2
    <3> QED
      BY <2>1, <2>2, <3>1, <3>3 DEF Dated
  <2> QED
    BY <2>2, <2>3 DEF DedupedAndSorted
<1> QED
  BY <1>1, HistoryInitial, HistoryStep, PTL DEF Spec
-----------------------------------------------------------------------------
(* The sequence number that postSyncPatch compares to is that of an operation *)
(* the account has sent, if any.                                              *)
LEMMA LatestNonceFacts ==
    ASSUME NEW V, NEW ops \in Seq(V), latestNonce(ops) # 0
    PROVE  \E o \in ToSet(ops) : o.id \in Own /\ o.seq = latestNonce(ops)
<1> DEFINE own == Among(ops, {o \in ToSet(ops) : o.id \in Own})
<1>1. own \in Seq(V) /\ ToSet(own) = {o \in ToSet(ops) : o.id \in Own}
  BY AmongFacts
<1>2. latestNonce(ops) = IF own = <<>> THEN 0 ELSE Head(own).seq
  BY DEF latestNonce
<1> HIDE DEF own
<1>3. own # <<>> /\ latestNonce(ops) = Head(own).seq
  BY <1>2
<1>4. Head(own) = own[1] /\ 1 \in 1..Len(own)
  BY <1>1, <1>3
<1>5. Head(own) \in ToSet(own)
  BY <1>1, <1>4, ToSetIs
<1> QED
  BY <1>1, <1>3, <1>5

LEMMA PreservedStep ==
    ASSUME HInv, HInv', Update, NEW t \in ToSet(pendingOperations) \ ToSet(pendingOperations')
    PROVE  CASE bridge = "ethereum" ->
                  seq(t) = 0 \/ \E o \in ToSet(operations') : o.id \in Own /\ seq(t) <= o.seq
             [] bridge = "libcore" -> t \in expired
             [] bridge = "js" -> TRUE
<1>1. pendingOperations \in Seq(Own) /\ bridge \in {"libcore", "ethereum", "js"}
  BY TxsAssumption DEF HInv, TypeOK
<1>2. t \in Own /\ t \in ToSet(pendingOperations)
  BY <1>1, ToSetIs
<1>3. \A S : ToSet(Among(pendingOperations, S)) = ToSet(pendingOperations) \cap S
  BY <1>1, AmongFacts
<1>4. CASE bridge = "libcore"
  <2>1. pendingOperations' = retained(pendingOperations, operations')
    BY <1>4 DEF Update
  <2>2. ~shouldRetainPendingOperation(operations', t)
    BY <1>2, <1>3, <2>1 DEF retained
  <2>3. seq(t) = 0
    BY <1>4 DEF seq
  <2> QED
    BY <1>4, <2>2, <2>3 DEF shouldRetainPendingOperation
<1>5. CASE bridge = "ethereum"
  <2>1. pendingOperations' = postSyncPatch(pendingOperations, operations')
    BY <1>5 DEF Update
  <2>2. ~(/\ seq(t) # 0 /\ seq(t) > latestNonce(operations')
          /\ shouldRetainPendingOperation(operations', t) \/ t \notin ids(operations'))
    BY <1>2, <1>3, <2>1 DEF postSyncPatch
  <2>3. seq(t) \in Nat /\ UNCHANGED <<bridge, height>>
    BY <1>2, <1>5, TxsAssumption DEF seq, Update, chain
  <2>4. operations' \in Seq(Ours)' /\ \A o \in ToSet(operations') : o.seq = seq(o.id) /\ o.seq \in Nat
    <3>1. operations' \in Seq(Ours') /\ ToSet(operations') \subseteq Ours'
      BY ToSetIs DEF HInv, GoodHistory
    <3>2. \A o \in Ours' : o.seq = seq(o.id) /\ o.seq \in Nat
      BY <2>3 DEF Ours, OperationsType, seq
    <3> QED
      BY <3>1, <3>2
  <2>5. CASE seq(t) # 0 /\ ~(seq(t) > latestNonce(operations'))
    <3>1. CASE latestNonce(operations') = 0
      BY <2>3, <2>5, <3>1
    <3>2. CASE latestNonce(operations') # 0
      <4>1. PICK o \in ToSet(operations') : o.id \in Own /\ o.seq = latestNonce(operations')
        BY <2>4, <3>2, LatestNonceFacts
      <4>2. seq(t) <= o.seq
        BY <2>3, <2>4, <2>5, <4>1
      <4> QED
        BY <1>5, <4>1, <4>2
    <3> QED
      BY <3>1, <3>2
  <2>6. CASE t \in ids(operations')
    <3>1. PICK o \in ToSet(operations') : o.id = t
      BY <2>6 DEF ids
    <3>2. seq(t) <= o.seq
      BY <2>3, <2>4, <3>1
    <3> QED
      BY <1>2, <1>5, <3>1, <3>2
  <2> QED
    BY <1>5, <2>2, <2>5, <2>6
<1> QED
  BY <1>1, <1>4, <1>5

(* A synchronisation drops a pending operation of Ethereum only when it, or a *)
(* later one of the account, is in the history, or when its nonce is 0        *)
(* (families/ethereum/postSyncPatch.js), and one of the libcore only when it  *)
(* is too old (account/pending.js): no payment leaves the screen unaccounted. *)
THEOREM PendingPreserved == Spec => PendingIsPreserved
<1>1. HInv /\ HInv' /\ [Next]_vars =>
        [Update => \A t \in ToSet(pendingOperations) \ ToSet(pendingOperations') :
           CASE bridge = "ethereum" ->
                  seq(t) = 0 \/ \E o \in ToSet(operations') : o.id \in Own /\ seq(t) <= o.seq
             [] bridge = "libcore" -> t \in expired
             [] bridge = "js" -> TRUE]_vars
  BY PreservedStep
<1> QED
  BY <1>1, HistoryInitial, HistoryStep, PTL DEF Spec, PendingIsPreserved
-----------------------------------------------------------------------------
(* The second invariant: what the histories know of the chain. A transaction  *)
(* in a block has been heard of.                                              *)
MinedIsKnown == \A t \in Txs : height[t] > 0 => t \in known

(* Ethereum: what is in a block no higher than that of an operation of the    *)
(* account is in the account too, or came too late.                           *)
AllReached ==
    \A o \in ToSet(operations), t \in Txs :
       0 < height[t] /\ height[t] <= o.height => t \in ids(operations) \cup late

(* js: nothing has changed, and nothing is missing.                           *)
AllFinal ==
    \A o \in ToSet(operations) :
       /\ o = operation(o.id)
       /\ \A t \in Txs : 0 < height[t] /\ height[t] <= o.height => operation(t) \in ToSet(operations)

(* A synchronisation has been told of every block up to the one that was the  *)
(* last, and makes nothing up.                                                *)
HasRead(s) ==
    /\ s.blockHeight <= tip
    /\ \A o \in ToSet(s.found) : o.height <= s.blockHeight
    /\ \A t \in Txs : 0 < height[t] /\ height[t] <= s.blockHeight => operation(t) \in ToSet(s.found)
    /\ ToSet(s.operations) \subseteq ToSet(operations) \cup ToSet(s.found)

(* Ethereum: what the incremental request left out is in the account already. *)
ToldAll(s) ==
    \A n \in ToSet(s.found) :
       n \in ToSet(s.operations) \/ n.id \in ids(operations) \cup late \/ ComesLate(n.id)

FinalSync(s) ==
    /\ ToSet(s.operations) = ToSet(s.found)
    /\ \A o \in ToSet(s.found) : o = operation(o.id)
    /\ ToSet(operations) \subseteq ToSet(s.found)
    /\ \A o \in ToSet(operations), n \in ToSet(s.found) \ ToSet(operations) : n.date > o.date

SyncKnows(s) ==
    /\ bridge = "libcore" => s.operations = minimalOperationsBuilder(operations, s.found)
    /\ bridge # "libcore" => HasRead(s)
    /\ bridge = "ethereum" => ToldAll(s)
    /\ bridge = "js" => FinalSync(s)

AccountKnows ==
    /\ bridge # "libcore" => \A o \in ToSet(operations) : o.height <= tip
    /\ bridge = "ethereum" => AllReached
    /\ bridge = "js" => AllFinal

KInv == MinedIsKnown /\ AccountKnows /\ (sync # <<>> => SyncKnows(Head(sync)))

LEMMA KnownInitial == Init => KInv
<1> SUFFICES ASSUME Init PROVE KInv
  OBVIOUS
<1>1. sync = <<>> /\ ToSet(operations) = {}
  BY DEF Init, ToSet
<1>2. \A t \in Txs : height[t] = 0
  BY DEF Init
<1> QED
  BY <1>1, <1>2 DEF KInv, MinedIsKnown, AccountKnows, AllReached, AllFinal

(* The chain only grows: what gets into a block is above what was read.       *)
Forward ==
    /\ tip' >= tip
    /\ \A t \in Txs : height'[t] > 0 => height'[t] = height[t] \/ height'[t] > tip
    /\ bridge = "js" => \A t \in Txs : height[t] > 0 => height'[t] = height[t]

LEMMA ChainKnown ==
    ASSUME HInv, HInv', KInv, ChainStep, Forward, MinedIsKnown'
    PROVE  KInv'
<1>1. /\ UNCHANGED <<bridge, operations, blockHeight, sync, late>>
      /\ ids(operations)' = ids(operations) /\ ToSet(operations)' = ToSet(operations)
  BY DEF ChainStep, account, ids
<1>2. /\ height \in [Txs -> 0..MaxHeight] /\ height' \in [Txs -> 0..MaxHeight]
      /\ tip \in Nat /\ tip' \in Nat /\ tip <= tip' /\ tip \in 0..MaxHeight
  BY BoundAssumption DEF HInv, TypeOK, Forward
<1>3. \A t \in Txs : height'[t] \in Nat /\ height[t] \in Nat
  BY <1>2
<1>4. ASSUME NEW b \in Nat, b <= tip, NEW t \in Txs, 0 < height'[t], height'[t] <= b
      PROVE  height'[t] = height[t] /\ operation(t)' = operation(t)
  <2>1. height'[t] = height[t]
    BY <1>2, <1>3, <1>4 DEF Forward
  <2> QED
    BY <1>1, <2>1 DEF operation, seq
<1>5. \A o \in Ours : o.height \in Nat /\ o.id \in Txs
  BY BoundAssumption DEF Ours, OperationsType
<1>6. ASSUME bridge = "js", NEW o \in Ours, o = operation(o.id) PROVE o = operation(o.id)'
  <2>1. height[o.id] > 0 /\ o.id \in Txs
    BY <1>5, <1>6 DEF Ours
  <2>2. height'[o.id] = height[o.id]
    BY <1>6, <2>1 DEF Forward
  <2> QED
    BY <1>1, <1>6, <2>2 DEF operation, seq
<1>7. AccountKnows'
  <2>1. ToSet(operations) \subseteq Ours
    BY ToSetIs DEF HInv, GoodHistory
  <2>2. ASSUME bridge # "libcore", NEW o \in ToSet(operations) PROVE o.height <= tip' /\ o.height <= tip
    BY <1>2, <1>5, <2>1, <2>2 DEF KInv, AccountKnows
  <2>3. bridge = "ethereum" => AllReached'
    BY <1>1, <1>4, <1>5, <2>1, <2>2 DEF KInv, AccountKnows, AllReached
  <2>4. bridge = "js" => AllFinal'
    BY <1>1, <1>4, <1>5, <1>6, <2>1, <2>2 DEF KInv, AccountKnows, AllFinal
  <2> QED
    BY <1>1, <2>2, <2>3, <2>4 DEF AccountKnows
<1>8. ASSUME sync' # <<>> PROVE SyncKnows(Head(sync))'
  <2>1. PICK s : s = Head(sync)
    OBVIOUS
  <2>2. /\ sync # <<>> /\ Head(sync') = s /\ s.found \in Seq(Ours) /\ s.operations \in Seq(Ours)
        /\ SyncKnows(s) /\ s \in SyncsType
    <3>1. sync # <<>> /\ sync \in Seq(SyncsType) /\ Head(sync') = s
      BY <1>1, <1>8, <2>1 DEF HInv, TypeOK
    <3>2. Head(sync) \in SyncsType
      BY <3>1
    <3> QED
      BY <2>1, <3>1, <3>2 DEF HInv, GoodHistory, KInv
  <2>3. s.blockHeight \in Nat
    BY <2>2, BoundAssumption DEF SyncsType
  <2>4. ToSet(s.found) \subseteq Ours
    BY <2>2, ToSetIs
  <2>5. ASSUME bridge # "libcore" PROVE HasRead(s)'
    <3>1. HasRead(s)
      BY <2>2, <2>5 DEF SyncKnows
    <3>2. ASSUME NEW t \in Txs, 0 < height'[t], height'[t] <= s.blockHeight
          PROVE  operation(t)' \in ToSet(s.found)
      BY <1>4, <2>3, <3>1, <3>2 DEF HasRead
    <3>3. s.blockHeight <= tip'
      BY <1>2, <2>3, <3>1 DEF HasRead
    <3> QED
      BY <1>1, <3>1, <3>2, <3>3 DEF HasRead
  <2>6. ASSUME bridge = "ethereum" PROVE ToldAll(s)'
    <3>1. \A t : ComesLate(t)' <=> ComesLate(t)
      BY <1>1 DEF ComesLate, stableOperations
    <3> QED
      BY <1>1, <2>2, <2>6, <3>1 DEF SyncKnows, ToldAll
  <2>7. bridge = "js" => FinalSync(s)'
    BY <1>1, <1>6, <2>2, <2>4 DEF SyncKnows, FinalSync
  <2>8. SyncKnows(s)'
    BY <1>1, <2>2, <2>5, <2>6, <2>7 DEF SyncKnows
  <2> QED
    BY <2>2, <2>8
<1> QED
  BY <1>7, <1>8 DEF KInv

LEMMA ChainStepsKnown ==
    ASSUME HInv, HInv', KInv,
           EmptyBlock \/ Reorg \/ \E t \in Txs : Receive(t) \/ Mine(t) \/ Drop(t)
    PROVE  KInv'
<1>1. /\ tip \in Nat /\ height \in [Txs -> 0..MaxHeight] /\ \A u \in Txs : height[u] \in Nat
      /\ MinedIsKnown
  BY BoundAssumption DEF HInv, TypeOK, KInv
<1>2. CASE EmptyBlock
  <2>1. ChainStep /\ tip' = tip + 1 /\ UNCHANGED <<known, height>>
    BY <1>2 DEF EmptyBlock
  <2> QED
    BY <1>1, <2>1, ChainKnown DEF Forward, MinedIsKnown
<1>3. CASE Reorg
  <2>1. ChainStep /\ bridge # "js" /\ UNCHANGED <<known, tip>>
    BY <1>3 DEF Reorg
  <2>2. PICK t \in Txs : height' = [height EXCEPT ![t] = 0]
    BY <1>3 DEF Reorg
  <2>3. \A u \in Txs : height'[u] = IF u = t THEN 0 ELSE height[u]
    BY <1>1, <2>2
  <2> QED
    BY <1>1, <2>1, <2>3, ChainKnown DEF Forward, MinedIsKnown
<1>4. ASSUME NEW t \in Txs, Receive(t) \/ Drop(t) PROVE KInv'
  <2>1. ChainStep /\ UNCHANGED <<height, tip>> /\ \A u \in Txs : height[u] > 0 /\ u \in known => u \in known'
    BY <1>1, <1>4 DEF Receive, Drop
  <2> QED
    BY <1>1, <2>1, ChainKnown DEF Forward, MinedIsKnown
<1>5. ASSUME NEW t \in Txs, Mine(t) PROVE KInv'
  <2>1. /\ ChainStep /\ t \in known /\ height[t] = 0 /\ tip' = tip + 1 /\ UNCHANGED known
        /\ height' = [height EXCEPT ![t] = tip + 1]
    BY <1>5 DEF Mine
  <2>2. \A u \in Txs : height'[u] = IF u = t THEN tip + 1 ELSE height[u]
    BY <1>1, <2>1
  <2> QED
    BY <1>1, <2>1, <2>2, ChainKnown DEF Forward, MinedIsKnown
<1> QED
  BY <1>2, <1>3, <1>4, <1>5

LEMMA PendingKnown ==
    ASSUME HInv, KInv, known \subseteq known',
           UNCHANGED <<bridge, height, tip, operations, blockHeight, sync, late>>
    PROVE  KInv'
<1>1. /\ \A t : operation(t)' = operation(t) /\ (ComesLate(t)' <=> ComesLate(t))
      /\ ids(operations)' = ids(operations)
  BY DEF operation, seq, ComesLate, stableOperations, ids
<1>2. MinedIsKnown' /\ AccountKnows'
  BY <1>1 DEF KInv, MinedIsKnown, AccountKnows, AllReached, AllFinal
<1>3. ASSUME NEW s, SyncKnows(s) PROVE SyncKnows(s)'
  <2>1. HasRead(s) => HasRead(s)'
    BY <1>1 DEF HasRead
  <2>2. ToldAll(s) => ToldAll(s)'
    BY <1>1 DEF ToldAll
  <2>3. FinalSync(s) => FinalSync(s)'
    BY <1>1 DEF FinalSync
  <2> QED
    BY <1>3, <2>1, <2>2, <2>3 DEF SyncKnows
<1>4. PICK s : s = Head(sync)
  OBVIOUS
<1>5. sync' # <<>> => SyncKnows(s)' /\ Head(sync)' = s
  BY <1>3, <1>4 DEF KInv
<1> QED
  BY <1>2, <1>5 DEF KInv

(* The last operation is the oldest.                                          *)
LEMMA LastIsOldest ==
    ASSUME NEW U, Dated(U), NEW q \in Seq(U), NewerOrder(q), q # <<>>
    PROVE  /\ Last(q) \in ToSet(q) /\ Head(q) \in ToSet(q)
           /\ \A x \in ToSet(q) : x.date >= Last(q).date
           /\ \A x \in ToSet(q) : x.date <= Head(q).date
<1> DEFINE n == Len(q)
<1>1. /\ n \in Nat /\ n > 0 /\ ToSet(q) = {q[i] : i \in 1..n} /\ Last(q) = q[n] /\ Head(q) = q[1]
      /\ \A i \in 1..n : q[i] \in U
  BY ToSetIs DEF Last
<1>2. 1 \in 1..n /\ n \in 1..n
  BY <1>1
<1>3. ASSUME NEW x \in ToSet(q) PROVE x.date >= Last(q).date /\ x.date <= Head(q).date
  <2>1. PICK i \in 1..n : x = q[i]
    BY <1>1
  <2>2. (i = n \/ i < n) /\ (i = 1 \/ 1 < i)
    BY <1>1
  <2>3. q[i].date \in Nat /\ q[n].date \in Nat /\ q[1].date \in Nat
    BY <1>1, <1>2 DEF Dated
  <2>4. (i = n \/ q[i].date > q[n].date) /\ (i = 1 \/ q[1].date > q[i].date)
    BY <1>2, <2>2 DEF NewerOrder
  <2> QED
    BY <1>1, <2>1, <2>3, <2>4
<1> QED
  BY <1>1, <1>2, <1>3

(* The operations a bridge reports are those of their transactions.           *)
LEMMA OnChainFacts ==
    ASSUME HInv, KInv, bridge # "libcore"
    PROVE  /\ onChain = {t \in Txs : height[t] > 0}
           /\ \A t : /\ operation(t).id = t /\ operation(t).height = height[t]
                     /\ operation(t).date = Date(t)
  BY DEF onChain, HInv, TypeOK, KInv, MinedIsKnown, operation, Date

(* What a synchronisation of Ethereum leaves out, the account has, or it came *)
(* too late.                                                                  *)
LEMMA EthereumFetch ==
    ASSUME HInv, KInv, bridge = "ethereum",
           NEW s, s.operations = shapeOperations, s.found = History(onChain), s.blockHeight = tip
    PROVE  HasRead(s) /\ ToldAll(s)
<1> DEFINE stable == stableOperations
           from == IF stable = <<>> THEN 0 ELSE Head(stable).height
           ts == {t \in onChain : height[t] > from}
           new == History(ts)
<1>1. onChain = {t \in Txs : height[t] > 0} /\ \A t : operation(t).id = t
  BY OnChainFacts
<1>2. \A t : operation(t).height = height[t] /\ operation(t).date = Received[t]
  BY OnChainFacts DEF Date
<1>3. ToSet(s.found) = {operation(t) : t \in onChain} /\ ToSet(new) = {operation(t) : t \in ts}
      /\ GoodHistory(new)
  BY HistoryFacts
<1>4. /\ GoodHistory(stable) /\ ToSet(stable) \subseteq ToSet(operations)
      /\ ToSet(operations) \subseteq Ours
  <2>1. operations \in Seq(Ours) /\ NewerOrder(operations)
    BY DEF HInv, GoodHistory
  <2>2. /\ stable \in Seq(Ours) /\ NewerOrder(stable)
        /\ ToSet(stable) \subseteq ToSet(operations)
    BY <2>1, AmongFacts, AmongNewer DEF stableOperations
  <2> QED
    BY <2>1, <2>2, ToSetIs DEF GoodHistory
<1>5. s.operations = mergeOps(stable, new)
  BY DEF shapeOperations
<1> HIDE DEF stable, new
<1>6. Merged(stable, new, s.operations)
  BY <1>3, <1>4, <1>5, GoodMerge
<1>7. ToSet(new) \subseteq ToSet(s.found)
  BY <1>3
<1>8. height \in [Txs -> 0..MaxHeight] /\ \A t \in Txs : height[t] \in Nat /\ height[t] <= tip
  BY BoundAssumption DEF HInv, TypeOK, ChainOK
<1>9. HasRead(s)
  <2>1. tip \in Nat
    BY BoundAssumption DEF HInv, TypeOK
  <2>2. ToSet(s.operations) \subseteq ToSet(operations) \cup ToSet(s.found)
    BY <1>4, <1>6, <1>7 DEF Merged
  <2> QED
    BY <1>1, <1>2, <1>3, <1>8, <2>1, <2>2 DEF HasRead
<1>10. ASSUME NEW t \in onChain, operation(t) \notin ToSet(s.operations)
       PROVE  t \in ids(operations) \cup late \/ ComesLate(t)
  <2>1. CASE t \in ts
    <3>1. operation(t) \in ToSet(new)
      BY <1>3, <2>1
    <3>2. stable # <<>> /\ ~(Received[t] > Last(stable).date)
      BY <1>2, <1>6, <1>10, <3>1 DEF Merged
    <3>3. Received[t] \in Nat
      BY <1>1, TxsAssumption
    <3>4. Last(stable).date \in Nat
      <4>1. Last(stable) \in Ours
        BY <1>4, <3>2, LastIsOldest, OursAreDated DEF GoodHistory
      <4> QED
        BY <4>1, OursAreDated DEF Dated
    <3>5. Received[t] <= Last(stable).date
      BY <3>2, <3>3, <3>4
    <3> QED
      BY <3>2, <3>5 DEF ComesLate, stable
  <2>2. CASE t \notin ts
    <3>1. ~(height[t] > from) /\ t \in Txs /\ height[t] > 0
      BY <1>1, <2>2
    <3>2. stable # <<>> /\ from = Head(stable).height
      BY <1>8, <3>1
    <3>3. Head(stable) \in ToSet(operations)
      BY <1>4, <3>2, LastIsOldest, OursAreDated DEF GoodHistory
    <3>4. Head(stable).height \in Nat
      BY <1>4, <3>3, BoundAssumption DEF Ours, OperationsType
    <3>5. 0 < height[t] /\ height[t] <= Head(stable).height
      BY <1>8, <3>1, <3>2, <3>4
    <3> QED
      BY <3>1, <3>3, <3>5 DEF KInv, AccountKnows, AllReached
  <2> QED
    BY <2>1, <2>2
<1>11. ToldAll(s)
  BY <1>1, <1>3, <1>10 DEF ToldAll
<1> QED
  BY <1>9, <1>11

LEMMA JsFetch ==
    ASSUME HInv, KInv, bridge = "js",
           NEW s, s.operations = shapeOperations, s.found = History(onChain), s.blockHeight = tip
    PROVE  HasRead(s) /\ FinalSync(s)
<1> DEFINE startAt == IF operations = <<>> THEN 0 ELSE Head(operations).height + 1
           ts == {t \in onChain : height[t] >= startAt}
           new == History(ts)
<1>1. onChain = {t \in Txs : height[t] > 0} /\ \A t : operation(t).id = t
  BY OnChainFacts
<1>2. \A t : operation(t).height = height[t] /\ operation(t).date = height[t]
  BY OnChainFacts DEF Date
<1>3. ToSet(s.found) = {operation(t) : t \in onChain} /\ ToSet(new) = {operation(t) : t \in ts}
      /\ GoodHistory(new)
  BY HistoryFacts
<1>4. GoodHistory(operations) /\ ToSet(operations) \subseteq Ours
  BY ToSetIs DEF HInv, GoodHistory
<1>5. s.operations = mergeOps(operations, new)
  BY DEF shapeOperations
<1> HIDE DEF new
<1>6. Merged(operations, new, s.operations)
  BY <1>3, <1>4, <1>5, GoodMerge
<1>7. height \in [Txs -> 0..MaxHeight] /\ tip \in Nat
      /\ \A t \in Txs : height[t] \in Nat /\ height[t] <= tip
  BY BoundAssumption DEF HInv, TypeOK, ChainOK
<1>8. \A o \in Ours : o.id \in Txs /\ height[o.id] > 0
  BY DEF Ours, OperationsType
<1>9. \A o \in ToSet(operations) : o = operation(o.id) /\ o.height = height[o.id] /\ o.date = height[o.id]
  BY <1>2 DEF KInv, AccountKnows, AllFinal
<1>10. ToSet(operations) \subseteq ToSet(s.found)
  BY <1>1, <1>3, <1>4, <1>8, <1>9
<1>11. \A o \in ToSet(s.found) : o = operation(o.id)
  BY <1>1, <1>3
<1>12. ASSUME NEW t \in onChain, operation(t) \notin ToSet(operations), NEW o \in ToSet(operations)
       PROVE  height[t] > o.date /\ o.date = o.height /\ o.date \in Nat /\ height[t] \in Nat
  <2>1. t \in Txs /\ 0 < height[t] /\ o.id \in Txs
    BY <1>1, <1>4, <1>8
  <2>2. ~(height[t] <= o.height)
    BY <1>12, <2>1 DEF KInv, AccountKnows, AllFinal
  <2> QED
    BY <1>7, <1>9, <2>1, <2>2
<1>13. \A o \in ToSet(operations), n \in ToSet(s.found) \ ToSet(operations) : n.date > o.date
  BY <1>2, <1>3, <1>12
<1>14. ToSet(s.operations) \subseteq ToSet(s.found)
  BY <1>3, <1>6, <1>10 DEF Merged
<1>15. ASSUME NEW n \in ToSet(s.found) PROVE n \in ToSet(s.operations)
  <2>1. CASE n \in ToSet(operations)
    <3>1. \A m \in ToSet(new) : m.id = n.id => m = n
      BY <1>1, <1>3, <1>11
    <3> QED
      BY <1>6, <2>1, <3>1 DEF Merged
  <2>2. CASE n \notin ToSet(operations)
    <3>1. PICK t \in onChain : n = operation(t)
      BY <1>3
    <3>2. height[t] \in Nat /\ n.date = height[t]
      BY <1>1, <1>2, <1>7, <3>1
    <3>3. CASE operations = <<>>
      <4>1. n \in ToSet(new)
        BY <1>3, <3>1, <3>2, <3>3
      <4> QED
        BY <1>6, <3>3, <4>1 DEF Merged
    <3>4. CASE operations # <<>>
      <4>1. Head(operations) \in ToSet(operations) /\ Last(operations) \in ToSet(operations)
        BY <1>4, <3>4, LastIsOldest, OursAreDated DEF GoodHistory
      <4>2. /\ height[t] > Head(operations).height /\ Head(operations).height \in Nat
            /\ n.date > Last(operations).date
        BY <1>12, <2>2, <3>1, <3>2, <4>1
      <4>3. height[t] >= startAt
        BY <3>2, <3>4, <4>2
      <4>4. n \in ToSet(new)
        BY <1>3, <3>1, <4>3
      <4> QED
        BY <1>6, <4>2, <4>4 DEF Merged
    <3> QED
      BY <3>3, <3>4
  <2> QED
    BY <2>1, <2>2
<1>16. FinalSync(s)
  BY <1>10, <1>11, <1>13, <1>14, <1>15 DEF FinalSync
<1>17. HasRead(s)
  BY <1>1, <1>2, <1>3, <1>7, <1>14 DEF HasRead
<1> QED
  BY <1>16, <1>17

LEMMA FetchKnown == ASSUME HInv, KInv, Fetch PROVE KInv'
<1>1. PICK s : s = [operations |-> shapeOperations, found |-> History(onChain), blockHeight |-> tip]
  OBVIOUS
<1>2. /\ sync' = <<s>> /\ UNCHANGED <<bridge, chain, toAdd, expired, account, late>>
      /\ s.operations = shapeOperations /\ s.found = History(onChain) /\ s.blockHeight = tip
  BY <1>1 DEF Fetch
<1>3. SyncKnows(s)
  <2>1. CASE bridge = "libcore"
    BY <1>2, <2>1 DEF SyncKnows, shapeOperations
  <2>2. CASE bridge = "ethereum"
    BY <1>2, <2>2, EthereumFetch DEF SyncKnows
  <2>3. CASE bridge = "js"
    BY <1>2, <2>3, JsFetch DEF SyncKnows
  <2> QED
    BY <2>1, <2>2, <2>3, TxsAssumption DEF HInv, TypeOK
<1>4. /\ \A t : operation(t)' = operation(t) /\ (ComesLate(t)' <=> ComesLate(t))
      /\ ids(operations)' = ids(operations) /\ UNCHANGED <<bridge, height, tip, known, operations, late>>
  BY <1>2 DEF operation, seq, ComesLate, stableOperations, ids, chain, account
<1>5. SyncKnows(s)'
  <2>1. HasRead(s) => HasRead(s)'
    BY <1>4 DEF HasRead
  <2>2. ToldAll(s) => ToldAll(s)'
    BY <1>4 DEF ToldAll
  <2>3. FinalSync(s) => FinalSync(s)'
    BY <1>4 DEF FinalSync
  <2> QED
    BY <1>3, <1>4, <2>1, <2>2, <2>3 DEF SyncKnows
<1>6. MinedIsKnown' /\ AccountKnows'
  BY <1>4 DEF KInv, MinedIsKnown, AccountKnows, AllReached, AllFinal
<1>7. Head(sync') = s
  BY <1>2
<1> QED
  BY <1>5, <1>6, <1>7 DEF KInv

-----------------------------------------------------------------------------
(* An update of Ethereum keeps what it was told of, and what the account had, *)
(* but for what came too late: an existing operation that has changed gives   *)
(* way to its new version, which is lost when it was the oldest.              *)
LEMMA EthereumUpdate ==
    ASSUME HInv, KInv, Update, bridge = "ethereum"
    PROVE  LET found == Head(sync).found IN
           /\ GoodHistory(operations')
           /\ ToSet(operations') \subseteq ToSet(operations) \cup ToSet(found)
           /\ ids(operations) \cup late \subseteq ids(operations') \cup late'
           /\ ids(found) \subseteq ids(operations') \cup late'
           /\ \A n \in ToSet(Head(sync).operations) :
                n \in ToSet(operations') \/ n \in ToSet(operations) \/ ComesLate(n.id)
           /\ Merged(operations, Head(sync).operations, operations')
<1> DEFINE found == Head(sync).found
           shape == Head(sync).operations
<1>1. /\ GoodHistory(operations) /\ GoodHistory(shape) /\ GoodHistory(found)
      /\ HasRead(Head(sync)) /\ ToldAll(Head(sync))
      /\ operations' = mergeOps(operations, shape)
      /\ late' = (late \cup {t \in ids(found) : ComesLate(t)}) \ ids(operations')
  BY DEF Update, HInv, KInv, SyncKnows
<1> HIDE DEF found, shape
<1>2. GoodHistory(operations') /\ Merged(operations, shape, operations')
  BY <1>1, GoodMerge
<1>3. ToSet(shape) \subseteq ToSet(operations) \cup ToSet(found)
  BY <1>1 DEF HasRead, shape, found
<1>4. ToSet(operations') \subseteq ToSet(operations) \cup ToSet(found)
  BY <1>2, <1>3 DEF Merged
<1>5. ToSet(operations) \subseteq Ours /\ ToSet(shape) \subseteq Ours /\ ToSet(stableOperations) \subseteq ToSet(operations)
  BY <1>1, ToSetIs, AmongFacts DEF GoodHistory, stableOperations
<1>6. ASSUME NEW n \in ToSet(shape), n \notin ToSet(operations'), n \notin ToSet(operations)
      PROVE  ComesLate(n.id)
  <2>1. operations # <<>> /\ ~(n.date > Last(operations).date)
    BY <1>2, <1>6 DEF Merged
  <2>2. n.date = Received[n.id] /\ n.date \in Nat
    BY <1>5, OursAreDated DEF Ours, Date, Dated
  <2>3. /\ Last(operations).date \in Nat
        /\ \A x \in ToSet(operations) : x.date >= Last(operations).date /\ x.date \in Nat
    BY <1>1, <1>5, <2>1, LastIsOldest, OursAreDated DEF GoodHistory, Dated
  <2>4. stableOperations # <<>> => Last(stableOperations) \in ToSet(operations)
    <3>1. stableOperations \in Seq(Ours) /\ NewerOrder(stableOperations)
      BY <1>1, AmongFacts, AmongNewer DEF GoodHistory, stableOperations
    <3> QED
      BY <1>5, <3>1, LastIsOldest, OursAreDated
  <2>5. CASE stableOperations # <<>>
    <3>1. Received[n.id] <= Last(stableOperations).date
      BY <2>1, <2>2, <2>3, <2>4, <2>5
    <3> QED
      BY <2>5, <3>1 DEF ComesLate
  <2>6. CASE stableOperations = <<>>
    <3>1. Received[n.id] <= Last(operations).date
      BY <2>1, <2>2, <2>3
    <3> QED
      BY <2>1, <2>6, <3>1 DEF ComesLate
  <2> QED
    BY <2>5, <2>6
<1>7. ASSUME NEW o \in ToSet(operations) PROVE o.id \in ids(operations') \cup late'
  <2>1. CASE \A n \in ToSet(shape) : n.id = o.id => n = o
    <3>1. o \in ToSet(operations')
      BY <1>2, <2>1 DEF Merged
    <3> QED
      BY <3>1 DEF ids
  <2>2. CASE ~ \A n \in ToSet(shape) : n.id = o.id => n = o
    <3>1. PICK n \in ToSet(shape) : n.id = o.id /\ n # o
      BY <2>2
    <3>2. n \notin ToSet(operations)
      BY <1>1, <3>1, OneOfEach, OursAreDated DEF GoodHistory
    <3>3. n \in ToSet(found) /\ n.id \in ids(found)
      BY <1>3, <3>2 DEF ids
    <3>4. n \in ToSet(operations') => n.id \in ids(operations')
      BY DEF ids
    <3> QED
      BY <1>1, <1>6, <3>1, <3>2, <3>3, <3>4
  <2> QED
    BY <2>1, <2>2
<1>8. ids(operations) \cup late \subseteq ids(operations') \cup late'
  BY <1>1, <1>7 DEF ids
<1>9. ASSUME NEW n \in ToSet(found) PROVE n.id \in ids(operations') \cup late'
  <2>1. n.id \in ids(found)
    BY DEF ids
  <2>2. n \in ToSet(shape) \/ n.id \in ids(operations) \cup late \/ ComesLate(n.id)
    BY <1>1 DEF ToldAll, found, shape
  <2>3. CASE n \in ToSet(shape) /\ n \in ToSet(operations')
    BY <2>3 DEF ids
  <2>4. CASE n \in ToSet(shape) /\ n \notin ToSet(operations')
    BY <1>1, <1>6, <1>7, <2>1, <2>4
  <2> QED
    BY <1>1, <1>8, <2>1, <2>2, <2>3, <2>4
<1>10. ids(found) \subseteq ids(operations') \cup late'
  BY <1>9 DEF ids
<1> QED
  BY <1>2, <1>4, <1>6, <1>8, <1>10 DEF found, shape

(* An update of js is exactly what the blockchain was.                        *)
LEMMA JsUpdate ==
    ASSUME HInv, KInv, Update, bridge = "js"
    PROVE  operations' = Head(sync).found
<1> DEFINE found == Head(sync).found
           shape == Head(sync).operations
<1>1. /\ GoodHistory(operations) /\ GoodHistory(shape) /\ GoodHistory(found)
      /\ FinalSync(Head(sync)) /\ operations' = mergeOps(operations, shape)
  BY DEF Update, HInv, KInv, SyncKnows
<1> HIDE DEF found, shape
<1>2. GoodHistory(operations') /\ Merged(operations, shape, operations')
  BY <1>1, GoodMerge
<1>3. /\ ToSet(shape) = ToSet(found) /\ ToSet(operations) \subseteq ToSet(found)
      /\ \A o \in ToSet(operations), n \in ToSet(found) \ ToSet(operations) : n.date > o.date
  BY <1>1 DEF FinalSync, found, shape
<1>4. operations # <<>> => Last(operations) \in ToSet(operations)
  BY <1>1, LastIsOldest, OursAreDated DEF GoodHistory
<1>5. ToSet(operations') = ToSet(found)
  BY <1>2, <1>3, <1>4 DEF Merged
<1> QED
  BY <1>1, <1>2, <1>5, SameHistory, OursAreDated DEF GoodHistory, found

LEMMA UpdateKnown == ASSUME HInv, KInv, Update PROVE KInv'
<1>1. /\ sync # <<>> /\ sync' = <<>> /\ UNCHANGED <<bridge, height, tip, known>>
      /\ \A t : operation(t)' = operation(t)
  BY DEF Update, chain, operation, seq
<1>2. MinedIsKnown'
  BY <1>1 DEF KInv, MinedIsKnown
<1>3. CASE bridge = "libcore"
  BY <1>1, <1>2, <1>3 DEF KInv, AccountKnows
<1>4. bridge # "libcore" =>
        \A o \in ToSet(operations) \cup ToSet(Head(sync).found) : o.height <= tip /\ o.height \in Nat
  <2> SUFFICES ASSUME bridge # "libcore", NEW o \in ToSet(operations) \cup ToSet(Head(sync).found)
               PROVE  o.height <= tip /\ o.height \in Nat
    OBVIOUS
  <2>1. sync \in Seq(SyncsType) /\ Head(sync).found \in Seq(Ours) /\ operations \in Seq(Ours)
        /\ tip \in Nat
    BY <1>1, BoundAssumption DEF HInv, GoodHistory, TypeOK
  <2>2. Head(sync).blockHeight \in Nat
    <3>1. Head(sync) \in SyncsType
      BY <1>1, <2>1
    <3> QED
      BY <3>1, BoundAssumption DEF SyncsType
  <2>3. o.height \in Nat
    <3>1. o \in Ours
      BY <2>1, ToSetIs
    <3> QED
      BY <3>1, BoundAssumption DEF Ours, OperationsType
  <2>4. CASE o \in ToSet(operations)
    BY <2>3, <2>4 DEF KInv, AccountKnows
  <2>5. CASE o \in ToSet(Head(sync).found)
    BY <1>1, <2>1, <2>2, <2>3, <2>5 DEF KInv, SyncKnows, HasRead
  <2> QED
    BY <2>4, <2>5
<1>5. CASE bridge = "ethereum"
  <2> DEFINE found == Head(sync).found
  <2>1. /\ ToSet(operations') \subseteq ToSet(operations) \cup ToSet(found)
        /\ ids(operations) \cup late \subseteq ids(operations') \cup late'
        /\ ids(found) \subseteq ids(operations') \cup late'
    BY <1>5, EthereumUpdate
  <2>2. ASSUME NEW o \in ToSet(operations'), NEW t \in Txs, 0 < height[t], height[t] <= o.height
        PROVE  t \in ids(operations') \cup late'
    <3>1. CASE o \in ToSet(operations)
      <4>1. t \in ids(operations) \cup late
        BY <1>5, <2>2, <3>1 DEF KInv, AccountKnows, AllReached
      <4> QED
        BY <2>1, <4>1
    <3>2. CASE o \in ToSet(found)
      <4>1. HasRead(Head(sync))
        BY <1>1, <1>5 DEF KInv, SyncKnows
      <4>2. height[t] \in Nat /\ o.height \in Nat /\ Head(sync).blockHeight \in Nat
        <5>1. sync \in Seq(SyncsType) /\ height \in [Txs -> 0..MaxHeight]
          BY DEF HInv, TypeOK
        <5>2. Head(sync) \in SyncsType
          BY <1>1, <5>1
        <5> QED
          BY <1>4, <1>5, <3>2, <5>1, <5>2, BoundAssumption DEF SyncsType
      <4>3. height[t] <= Head(sync).blockHeight
        BY <2>2, <3>2, <4>1, <4>2 DEF HasRead
      <4>4. operation(t) \in ToSet(found) /\ operation(t).id = t
        BY <2>2, <4>1, <4>3 DEF HasRead, operation
      <4>5. t \in ids(found)
        BY <4>4 DEF ids
      <4> QED
        BY <2>1, <4>5
    <3> QED
      BY <2>1, <3>1, <3>2
  <2>3. AllReached'
    BY <1>1, <2>2 DEF AllReached
  <2>4. AccountKnows'
    BY <1>1, <1>4, <1>5, <2>1, <2>3 DEF AccountKnows
  <2> QED
    BY <1>1, <1>2, <2>4 DEF KInv
<1>6. CASE bridge = "js"
  <2> DEFINE found == Head(sync).found
  <2>1. operations' = found
    BY <1>6, JsUpdate
  <2>2. HasRead(Head(sync)) /\ FinalSync(Head(sync))
    BY <1>1, <1>6 DEF KInv, SyncKnows
  <2>3. ASSUME NEW o \in ToSet(found), NEW t \in Txs, 0 < height[t], height[t] <= o.height
        PROVE  operation(t) \in ToSet(found)
    <3>1. height[t] \in Nat /\ o.height \in Nat /\ Head(sync).blockHeight \in Nat
      <4>1. sync \in Seq(SyncsType) /\ height \in [Txs -> 0..MaxHeight]
        BY DEF HInv, TypeOK
      <4>2. Head(sync) \in SyncsType
        BY <1>1, <4>1
      <4> QED
        BY <1>4, <1>6, <4>1, <4>2, BoundAssumption DEF SyncsType
    <3>2. height[t] <= Head(sync).blockHeight
      BY <2>2, <2>3, <3>1 DEF HasRead
    <3> QED
      BY <2>2, <2>3, <3>2 DEF HasRead
  <2>4. AllFinal'
    BY <1>1, <2>1, <2>2, <2>3 DEF AllFinal, FinalSync
  <2>5. AccountKnows'
    BY <1>1, <1>4, <1>6, <2>1, <2>4 DEF AccountKnows
  <2> QED
    BY <1>1, <1>2, <2>5 DEF KInv
<1> QED
  BY <1>3, <1>5, <1>6, TxsAssumption DEF HInv, TypeOK

LEMMA KnownStep == HInv /\ HInv' /\ KInv /\ [Next]_vars => KInv'
<1> SUFFICES ASSUME HInv, HInv', KInv, [Next]_vars PROVE KInv'
  OBVIOUS
<1>1. CASE EmptyBlock \/ Reorg \/ \E t \in Txs : Receive(t) \/ Mine(t) \/ Drop(t)
  BY <1>1, ChainStepsKnown
<1>2. CASE \E t \in Txs : Broadcast(t) \/ addPendingOperation(t) \/ Expire(t)
  BY <1>2, PendingKnown DEF Broadcast, addPendingOperation, Expire, chain, account
<1>3. CASE Fetch \/ Update
  BY <1>3, FetchKnown, UpdateKnown
<1>4. CASE UNCHANGED vars
  BY <1>4, PendingKnown DEF vars, chain, account
<1> QED
  BY <1>1, <1>2, <1>3, <1>4 DEF Next

(* The histories know what the blockchain told: for Ethereum and js, what     *)
(* the incremental requests leave out is in the account already, or came too  *)
(* late (families/ethereum/synchronisation.js, js-synchronisation.js).        *)
THEOREM HistoriesKnow == Spec => []KInv
<1>1. HInv /\ KInv /\ [Next]_vars => KInv'
  BY HistoryStep, KnownStep
<1> QED
  BY <1>1, HistoryInitial, KnownInitial, HistoryStep, PTL DEF Spec

LEMMA ExactStep ==
    ASSUME HInv, HInv', KInv, Update, NewsAreNewer(Head(sync).found)
    PROVE  operations' = Head(sync).found
<1> DEFINE found == Head(sync).found
<1>1. GoodHistory(operations) /\ GoodHistory(found) /\ ToSet(operations) \subseteq Ours
      /\ ToSet(found) \subseteq Ours
  BY ToSetIs DEF Update, HInv, GoodHistory
<1>2. Dated(Ours)
  BY OursAreDated
<1>3. bridge \in {"libcore", "ethereum", "js"}
  BY TxsAssumption DEF HInv, TypeOK
<1>4. CASE bridge = "libcore"
  <2>1. operations' = minimalOperationsBuilder(operations, found)
    BY <1>4 DEF Update, KInv, SyncKnows
  <2>2. Settled(Ours)
    BY <1>4 DEF Settled, Ours, OperationsType, Date, seq
  <2>3. OnlyNewerIsNew(operations, found)
    BY <1>4 DEF NewsAreNewer, OnlyNewerIsNew, Unchanged
  <2> HIDE DEF found
  <2> QED
    BY <1>1, <1>2, <2>1, <2>2, <2>3, ExactBuilder DEF GoodHistory, found
<1>5. CASE bridge = "ethereum"
  <2> DEFINE shape == Head(sync).operations
  <2>1. /\ GoodHistory(operations') /\ ToSet(operations') \subseteq ToSet(operations) \cup ToSet(found)
        /\ \A n \in ToSet(shape) : n \in ToSet(operations') \/ n \in ToSet(operations) \/ ComesLate(n.id)
        /\ Merged(operations, shape, operations')
    BY <1>5, EthereumUpdate
  <2>2. /\ ToSet(operations) \subseteq ToSet(found)
        /\ \A n \in ToSet(found) \ ToSet(operations) : ~ComesLate(n.id) /\ n.id \notin late
    BY <1>5 DEF NewsAreNewer, Unchanged
  <2>3. /\ \A n \in ToSet(found) :
             n \in ToSet(shape) \/ n.id \in ids(operations) \cup late \/ ComesLate(n.id)
        /\ ToSet(shape) \subseteq ToSet(operations) \cup ToSet(found)
    BY <1>5 DEF Update, KInv, SyncKnows, ToldAll, HasRead
  <2> HIDE DEF found, shape
  <2>4. \A a, b \in ToSet(found) : a.id = b.id => a = b
    BY <1>1, <1>2, OneOfEach DEF GoodHistory
  <2>5. ASSUME NEW n \in ToSet(found) PROVE n \in ToSet(operations')
    <3>1. CASE n \in ToSet(operations)
      <4>1. \A m \in ToSet(shape) : m.id = n.id => m = n
        BY <2>2, <2>3, <2>4
      <4> QED
        BY <2>1, <3>1, <4>1 DEF Merged
    <3>2. CASE n \notin ToSet(operations)
      <4>1. ~ComesLate(n.id) /\ n.id \notin late
        BY <2>2, <3>2
      <4>2. n.id \notin ids(operations)
        BY <2>2, <2>4, <3>2 DEF ids
      <4>3. n \in ToSet(shape)
        BY <2>3, <4>1, <4>2
      <4> QED
        BY <2>1, <3>2, <4>1, <4>3
    <3> QED
      BY <3>1, <3>2
  <2>6. ToSet(operations') = ToSet(found)
    BY <2>1, <2>2, <2>5
  <2>7. operations' = found
    BY <1>1, <1>2, <2>1, <2>6, SameHistory DEF GoodHistory
  <2> QED
    BY <2>7 DEF found
<1>6. CASE bridge = "js"
  BY <1>6, JsUpdate
<1> QED
  BY <1>3, <1>4, <1>5, <1>6

(* As long as the news are the newest operations, the history becomes exactly *)
(* what the blockchain was: the shortcuts of minimalOperationsBuilder         *)
(* (reconciliation.js:489-578), the incremental requests and the two merges   *)
(* of makeSync (jsHelpers.js:68-111) skip nothing.                            *)
THEOREM HistoryExact == Spec => HistoryIsExact
<1>1. HInv /\ HInv' /\ KInv /\ [Next]_vars =>
        [Update /\ NewsAreNewer(Head(sync).found) => operations' = Head(sync).found]_vars
  BY ExactStep
<1> QED
  BY <1>1, HistoryInitial, HistoryStep, HistoriesKnow, PTL DEF Spec, HistoryIsExact
-----------------------------------------------------------------------------
(* The latest nonce is no less than that of any operation the account sent.   *)
LEMMA LatestNonceIsLatest ==
    ASSUME HInv, bridge = "ethereum", NEW ops, GoodHistory(ops), NEW o \in ToSet(ops), o.id \in Own
    PROVE  seq(o.id) <= latestNonce(ops)
<1> DEFINE S == {p \in ToSet(ops) : p.id \in Own}
           own == Among(ops, S)
<1>1. ops \in Seq(Ours) /\ NewerOrder(ops) /\ ToSet(ops) \subseteq Ours /\ Dated(Ours)
  BY ToSetIs, OursAreDated DEF GoodHistory
<1>2. own \in Seq(Ours) /\ NewerOrder(own) /\ ToSet(own) = ToSet(ops) \cap S
  BY <1>1, AmongFacts, AmongNewer
<1>3. latestNonce(ops) = IF own = <<>> THEN 0 ELSE Head(own).seq
  BY DEF latestNonce
<1>4. o \in ToSet(own) /\ \A p \in ToSet(own) : p \in Ours /\ p.id \in Own
  BY <1>1, <1>2
<1> HIDE DEF own
<1>5. own # <<>>
  BY <1>4 DEF ToSet
<1>6. Head(own) \in ToSet(own) /\ o.date <= Head(own).date
  BY <1>1, <1>2, <1>4, <1>5, LastIsOldest
<1>7. \A p \in ToSet(own) : p.date = Received[p.id] /\ p.seq = seq(p.id) /\ seq(p.id) = Nonce[p.id]
  BY <1>4 DEF Ours, Date, seq
<1>8. \A t \in Own : Received[t] \in Nat /\ Nonce[t] \in Nat /\ t \in Txs
  BY TxsAssumption
<1>9. Nonce[o.id] <= Nonce[Head(own).id]
  <2>1. Received[o.id] <= Received[Head(own).id] /\ o.id \in Own /\ Head(own).id \in Own
    BY <1>4, <1>6, <1>7
  <2>2. CASE Received[o.id] < Received[Head(own).id]
    BY <2>1, <2>2, NonceAssumption
  <2>3. CASE Received[o.id] = Received[Head(own).id]
    <3>1. o.id = Head(own).id
      BY <1>8, <2>1, <2>3, TxsAssumption
    <3> QED
      BY <1>8, <2>1, <3>1
  <2> QED
    BY <1>8, <2>1, <2>2, <2>3
<1> QED
  BY <1>3, <1>4, <1>5, <1>6, <1>7, <1>9

LEMMA ReleasedStep ==
    ASSUME HInv, HInv', KInv, Update, bridge = "ethereum",
           NEW t \in ToSet(pendingOperations'), t \in ids(Head(sync).found)
    PROVE  t \in late'
<1>1. pendingOperations \in Seq(Own) /\ UNCHANGED <<bridge, height>>
      /\ pendingOperations' = postSyncPatch(pendingOperations, operations')
  BY DEF Update, chain, HInv, TypeOK
<1>2. \A S : ToSet(Among(pendingOperations, S)) = ToSet(pendingOperations) \cap S
  BY <1>1, AmongFacts
<1>3. t \in Own /\ seq(t) > latestNonce(operations')
  BY <1>1, <1>2 DEF postSyncPatch
<1>4. GoodHistory(operations') /\ ids(Head(sync).found) \subseteq ids(operations') \cup late'
  BY EthereumUpdate
<1>5. t \notin ids(operations')
  <2> SUFFICES ASSUME t \in ids(operations') PROVE FALSE
    OBVIOUS
  <2>1. PICK o \in ToSet(operations') : o.id = t
    BY DEF ids
  <2>2. seq(t) <= latestNonce(operations')
    BY <1>3, <1>4, <2>1, LatestNonceIsLatest
  <2>3. seq(t) \in Nat
    BY <1>3, TxsAssumption DEF seq
  <2>4. latestNonce(operations') \in Nat
    <3>1. CASE latestNonce(operations') = 0
      BY <3>1
    <3>2. CASE latestNonce(operations') # 0
      <4>1. PICK p \in ToSet(operations') : p.seq = latestNonce(operations')
        BY <1>4, <3>2, LatestNonceFacts DEF GoodHistory
      <4>2. p \in Ours
        BY <1>4, ToSetIs DEF GoodHistory
      <4> QED
        BY <4>1, <4>2 DEF Ours, OperationsType
    <3> QED
      BY <3>1, <3>2
  <2> QED
    BY <1>3, <2>2, <2>3, <2>4
<1> QED
  BY <1>4, <1>5

(* A pending operation of Ethereum leaves the account with the first          *)
(* synchronisation that finds it in the blockchain, unless it came too late   *)
(* (families/ethereum/postSyncPatch.js): no payment is shown twice for ever.  *)
THEOREM PendingReleased == Spec => PendingIsReleased
<1>1. HInv /\ HInv' /\ KInv /\ [Next]_vars =>
        [Update /\ bridge = "ethereum" => \A t \in ToSet(pendingOperations') :
           t \in ids(Head(sync).found) => t \in late']_vars
  BY ReleasedStep
<1> QED
  BY <1>1, HistoryInitial, HistoryStep, HistoriesKnow, PTL DEF Spec, PendingIsReleased

=================================================================================
