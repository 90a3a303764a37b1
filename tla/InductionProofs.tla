-------------------------- MODULE InductionProofs --------------------------
(***************************************************************************)
(* Induction over the natural numbers and definition by recursion, stated   *)
(* with sets and functions instead of operators, so that the provers can    *)
(* use them: a property is the set of numbers that have it, the step of a    *)
(* recursion a function.  Both rest on the pigeonhole principle for finite   *)
(* sets.  The proofs about the components cite them for what their recursive *)
(* functions compute.                                                        *)
(***************************************************************************)
EXTENDS Integers, Sequences, SequencesExt, FiniteSetTheorems, TLAPS

(* n + 1 places do not fit into n. *)
LEMMA Pigeonhole ==
  ASSUME NEW n \in Nat, NEW f \in [0..n -> 1..n]
  PROVE  \E x, y \in 0..n : x # y /\ f[x] = f[y]
<1> DEFINE S == 0..n
           T == 1..n
<1>1. IsFiniteSet(S) /\ Cardinality(S) = n + 1
  BY FS_Interval
<1>2. IsFiniteSet(T) /\ Cardinality(T) = n
  BY FS_Interval
<1>3. f \in [S -> T]
  OBVIOUS
<1> HIDE DEF S, T
<1>4. \E x, y \in S : x # y /\ f[x] = f[y]
  <2>1. Cardinality(T) < Cardinality(S)
    <3>1. n < n + 1
      OBVIOUS
    <3>2. QED
      BY <1>1, <1>2, <3>1, Zenon
  <2>2. IsFiniteSet(S) /\ IsFiniteSet(T)
    BY <1>1, <1>2
  <2>3. QED
    BY <1>3, <2>1, <2>2, FS_PigeonHole
<1>5. QED
  BY <1>4 DEF S

(* A set with 0 and every successor of a member has every number: were n     *)
(* missing, adding one on the set and nothing elsewhere would map 0..n into  *)
(* 1..n without a collision.                                                 *)
LEMMA SetInduction ==
  ASSUME NEW S, 0 \in S, \A n \in S \cap Nat : n + 1 \in S
  PROVE  Nat \subseteq S
<1>1. SUFFICES ASSUME NEW n \in Nat, n \notin S
               PROVE  FALSE
  OBVIOUS
<1> DEFINE g == [x \in 0..n |-> IF x \in S THEN x + 1 ELSE x]
<1>2. g \in [0..n -> 1..n]
  <2>1. ASSUME NEW x \in 0..n PROVE g[x] \in 1..n
    BY <1>1
  <2>2. QED
    BY <2>1
<1>3. PICK x \in 0..n, y \in 0..n : x # y /\ g[x] = g[y]
  BY <1>2, Pigeonhole
<1>4. QED
  BY <1>3, <1>1

(* The same up to a bound. *)
LEMMA InductionUpTo ==
  ASSUME NEW n \in Nat, NEW S, 0 \in S, \A k \in 0..(n - 1) : k \in S => k + 1 \in S
  PROVE  0..n \subseteq S
<1> DEFINE T == {k \in Nat : k <= n => k \in S}
<1>1. 0 \in T
  OBVIOUS
<1>2. \A k \in T \cap Nat : k + 1 \in T
  OBVIOUS
<1>3. Nat \subseteq T
  <2> HIDE DEF T
  <2> QED
    BY <1>1, <1>2, SetInduction
<1>4. QED
  BY <1>3

(* A set of numbers with an upper bound has a greatest member. *)
LEMMA Greatest ==
  ASSUME NEW n \in Nat, NEW S \in SUBSET (0..n), S # {}
  PROVE  \E x \in S : \A y \in S : y <= x
<1> DEFINE T == {k \in 0..n : (\E y \in S : y <= k) => \E x \in S : x <= k /\ \A y \in S : y <= k => y <= x}
<1>1. 0 \in T
  OBVIOUS
<1>2. ASSUME NEW k \in 0..(n - 1), k \in T PROVE k + 1 \in T
  <2>1. CASE k + 1 \in S
    BY <2>1
  <2>2. CASE k + 1 \notin S
    BY <2>2, <1>2
  <2>3. QED
    BY <2>1, <2>2
<1>3. 0..n \subseteq T
  <2> HIDE DEF T
  <2> QED
    BY <1>1, <1>2, InductionUpTo
<1>4. n \in T /\ \A y \in S : y <= n
  BY <1>3
<1>5. QED
  BY <1>4
-----------------------------------------------------------------------------
(* f starts with a and takes the step G[i] to its i-th place. *)
IsIteration(f, n, D, a, G) ==
  f \in [0..n -> D] /\ f[0] = a /\ \A i \in 1..n : f[i] = G[i][f[i - 1]]

(* Steps within a set D can be taken one after the other. *)
LEMMA Recursion ==
  ASSUME NEW n \in Nat, NEW D, NEW a \in D, NEW G \in [1..n -> [D -> D]]
  PROVE  \E f : IsIteration(f, n, D, a, G)
<1> DEFINE Upto(k, f) == f[0] = a /\ \A i \in 1..k : f[i] = G[i][f[i - 1]]
           S == {k \in 0..n : \E f \in [0..k -> D] : Upto(k, f)}
<1>1. 0 \in S
  <2> DEFINE g == [i \in 0..0 |-> a]
  <2>1. g \in [0..0 -> D] /\ g[0] = a
    OBVIOUS
  <2>2. \A i \in 1..0 : g[i] = G[i][g[i - 1]]
    OBVIOUS
  <2>3. QED
    <3> HIDE DEF g
    <3> QED
      BY <2>1, <2>2
<1>2. ASSUME NEW k \in 0..(n - 1), k \in S PROVE k + 1 \in S
  <2>1. PICK f \in [0..k -> D] : Upto(k, f)
    BY <1>2
  <2> DEFINE v == G[k + 1][f[k]]
             g == [i \in 0..(k + 1) |-> IF i = k + 1 THEN v ELSE f[i]]
  <2>2. v \in D
    OBVIOUS
  <2>3. g \in [0..(k + 1) -> D]
    <3> HIDE DEF v
    <3> QED
      BY <2>2
  <2>4. g[0] = a
    BY <2>1
  <2>5. ASSUME NEW i \in 1..(k + 1) PROVE g[i] = G[i][g[i - 1]]
    <3>1. CASE i = k + 1
      <4>1. g[i] = v /\ g[i - 1] = f[k]
        BY <3>1
      <4>2. QED
        BY <4>1, <3>1
    <3>2. CASE i # k + 1
      <4>1. g[i] = f[i] /\ g[i - 1] = f[i - 1] /\ i \in 1..k
        BY <3>2
      <4>2. QED
        BY <4>1, <2>1
    <3>3. QED
      BY <3>1, <3>2
  <2>6. Upto(k + 1, g)
    BY <2>4, <2>5
  <2>7. QED
    <3> HIDE DEF g, v, Upto
    <3> QED
      BY <2>3, <2>6
<1>3. 0..n \subseteq S
  <2> HIDE DEF S
  <2> QED
    BY <1>1, <1>2, InductionUpTo
<1>4. n \in S
  BY <1>3
<1>5. QED
  BY <1>4 DEF IsIteration

-----------------------------------------------------------------------------
(* FlattenSeq concatenates from the left. *)
Concatenates(f, n, seqs) ==
  f[1] = seqs[1] /\ \A k \in 2..n : f[k] = f[k - 1] \o seqs[k]

LEMMA FlattenConcatenates ==
  ASSUME NEW A, NEW seqs \in Seq(Seq(A)), NEW n \in Nat, n > 0, n = Len(seqs)
  PROVE  \E f : Concatenates(f, n, seqs) /\ FlattenSeq(seqs) = f[n]
<1> DEFINE D == Seq(A)
           Def(f) == [i \in 1..n |-> IF i = 1 THEN seqs[i] ELSE f[i - 1] \o seqs[i]]
           G == [i \in 1..(n - 1) |-> [d \in D |-> d \o seqs[i + 1]]]
           F == CHOOSE f : f = Def(f)
<1>1. n \in Nat \ {0} /\ n - 1 \in Nat
  OBVIOUS
<1>2. \A i \in 1..n : seqs[i] \in D
  OBVIOUS
<1>3. G \in [1..(n - 1) -> [D -> D]]
  <2>1. ASSUME NEW i \in 1..(n - 1), NEW d \in D PROVE d \o seqs[i + 1] \in D
    <3>1. i + 1 \in 1..n
      BY <1>1
    <3>2. QED
      BY <3>1, <1>2
  <2>2. QED
    BY <2>1
<1>4. PICK g : IsIteration(g, n - 1, D, seqs[1], G)
  <2>1. seqs[1] \in D
    BY <1>1, <1>2
  <2> HIDE DEF G, D
  <2>2. QED
    BY <1>1, <1>3, <2>1, Recursion
<1>5. g \in [0..(n - 1) -> D] /\ g[0] = seqs[1] /\ \A i \in 1..(n - 1) : g[i] = G[i][g[i - 1]]
  <2> HIDE DEF G, D
  <2> QED
    BY <1>4 DEF IsIteration
<1>6. \A i \in 1..(n - 1) : g[i] = g[i - 1] \o seqs[i + 1]
  <2> TAKE i \in 1..(n - 1)
  <2>1. g[i - 1] \in D
    <3> HIDE DEF D, G
    <3>1. i - 1 \in 0..(n - 1)
      BY <1>1
    <3>2. QED
      BY <3>1, <1>5
  <2>2. g[i] = G[i][g[i - 1]]
    BY <1>5
  <2> HIDE DEF D
  <2>3. QED
    BY <2>1, <2>2
<1> DEFINE f == [i \in 1..n |-> g[i - 1]]
<1>7. \A i \in 1..n : f[i] = IF i = 1 THEN seqs[i] ELSE f[i - 1] \o seqs[i]
  <2> TAKE i \in 1..n
  <2>1. CASE i = 1
    BY <2>1, <1>1, <1>5
  <2>2. CASE i # 1
    <3>1. i - 1 \in 1..(n - 1) /\ i - 1 \in 1..n /\ (i - 1) + 1 = i
      BY <2>2, <1>1
    <3>2. f[i] = g[i - 1] /\ f[i - 1] = g[(i - 1) - 1]
      BY <3>1
    <3>3. g[i - 1] = g[(i - 1) - 1] \o seqs[(i - 1) + 1]
      BY <3>1, <1>6
    <3> HIDE DEF f
    <3>4. QED
      BY <2>2, <3>1, <3>2, <3>3
  <2>3. QED
    BY <2>1, <2>2
<1>8. f = Def(f)
  <2> DEFINE e(i) == IF i = 1 THEN seqs[i] ELSE f[i - 1] \o seqs[i]
  <2>1. \A i \in 1..n : f[i] = e(i)
    BY <1>7
  <2>2. f = [i \in 1..n |-> f[i]]
    OBVIOUS
  <2> HIDE DEF e, f
  <2>3. [i \in 1..n |-> f[i]] = [i \in 1..n |-> e(i)]
    BY <2>1
  <2>4. QED
    BY <2>2, <2>3 DEF e
<1>9. F = Def(F)
  <2> HIDE DEF Def, f
  <2> QED
    BY <1>8, Zenon
<1>10. FlattenSeq(seqs) = F[n]
  <2>1. n # 0
    BY <1>1
  <2>2. QED
    BY <2>1 DEF FlattenSeq
<1>11. \A k \in 1..n : F[k] = IF k = 1 THEN seqs[k] ELSE F[k - 1] \o seqs[k]
  <2> HIDE DEF F
  <2>1. \A k \in 1..n : Def(F)[k] = IF k = 1 THEN seqs[k] ELSE F[k - 1] \o seqs[k]
    OBVIOUS
  <2> HIDE DEF Def
  <2>2. QED
    BY <2>1, <1>9
<1> HIDE DEF F
<1>12. Concatenates(F, n, seqs)
  <2>1. F[1] = seqs[1]
    BY <1>1, <1>11
  <2>2. ASSUME NEW k \in 2..n PROVE F[k] = F[k - 1] \o seqs[k]
    <3>1. k \in 1..n /\ k # 1
      BY <1>1
    <3>2. QED
      BY <3>1, <1>11
  <2>3. QED
    BY <2>1, <2>2 DEF Concatenates
<1>13. QED
  BY <1>10, <1>12

LEMMA ConcatenatesOnce ==
  ASSUME NEW n \in Nat, NEW f, NEW g, NEW r, NEW s, Concatenates(f, n, r), Concatenates(g, n, s),
         \A k \in 1..n : r[k] = s[k]
  PROVE  \A k \in 1..n : f[k] = g[k]
<1> DEFINE T == {k \in 0..n : k = 0 \/ f[k] = g[k]}
<1>1. 0 \in T
  OBVIOUS
<1>2. ASSUME NEW k \in 0..(n - 1), k \in T PROVE k + 1 \in T
  <2>1. CASE k = 0
    <3>1. f[1] = r[1] /\ g[1] = s[1] /\ r[1] = s[1]
      BY <2>1 DEF Concatenates
    <3>2. QED
      BY <2>1, <3>1
  <2>2. CASE k # 0
    <3>1. k + 1 \in 2..n /\ k + 1 \in 1..n /\ (k + 1) - 1 = k
      BY <2>2
    <3>2. f[k + 1] = f[k] \o r[k + 1] /\ g[k + 1] = g[k] \o s[k + 1] /\ r[k + 1] = s[k + 1]
      BY <3>1 DEF Concatenates
    <3>3. f[k] = g[k]
      BY <1>2, <2>2
    <3>4. f[k + 1] = g[k + 1] /\ k + 1 \in 0..n
      BY <3>1, <3>2, <3>3
    <3>5. QED
      BY <3>4
  <2>3. QED
    BY <2>1, <2>2
<1>3. 0..n \subseteq T
  <2> HIDE DEF T
  <2> QED
    BY <1>1, <1>2, InductionUpTo
<1>4. QED
  BY <1>3

(* The flattening grows by one sequence at a time. *)
LEMMA FlattenStep ==
  ASSUME NEW A, NEW seqs \in Seq(Seq(A)), NEW k \in 1..Len(seqs)
  PROVE  FlattenSeq(SubSeq(seqs, 1, k)) = FlattenSeq(SubSeq(seqs, 1, k - 1)) \o seqs[k]
<1> DEFINE r == SubSeq(seqs, 1, k)
           s == SubSeq(seqs, 1, k - 1)
<1>1. k \in Nat \ {0} /\ k - 1 \in Nat /\ Len(seqs) \in Nat /\ k <= Len(seqs)
  OBVIOUS
<1>2. r \in Seq(Seq(A)) /\ Len(r) = k /\ \A i \in 1..k : r[i] = seqs[i]
  BY <1>1
<1>3. s \in Seq(Seq(A)) /\ Len(s) = k - 1 /\ \A i \in 1..(k - 1) : s[i] = seqs[i]
  BY <1>1
<1> HIDE DEF r, s
<1>4. PICK f : Concatenates(f, k, r) /\ FlattenSeq(r) = f[k]
  BY <1>1, <1>2, FlattenConcatenates
<1>5. CASE k = 1
  <2>1. s = <<>> /\ FlattenSeq(s) = <<>>
    BY <1>3, <1>5 DEF FlattenSeq
  <2>2. FlattenSeq(r) = seqs[1] /\ seqs[1] \in Seq(A)
    BY <1>1, <1>2, <1>4, <1>5 DEF Concatenates
  <2>3. QED
    <3>1. FlattenSeq(r) = <<>> \o seqs[1]
      BY <2>2
    <3>2. QED
      BY <2>1, <3>1, <1>5 DEF r, s
<1>6. CASE k # 1
  <2>1. k - 1 > 0
    BY <1>1, <1>6
  <2>2. PICK g : Concatenates(g, k - 1, s) /\ FlattenSeq(s) = g[k - 1]
    BY <1>3, <2>1, FlattenConcatenates
  <2>3. Concatenates(f, k - 1, r)
    <3>1. \A i \in 2..(k - 1) : i \in 2..k
      BY <1>1
    <3>2. QED
      BY <1>4, <3>1 DEF Concatenates
  <2>4. ASSUME NEW i \in 1..(k - 1) PROVE r[i] = s[i]
    <3>1. i \in 1..k
      BY <1>1
    <3>2. QED
      BY <3>1, <1>2, <1>3
  <2>5. f[k - 1] = g[k - 1]
    <3>1. \A i \in 1..(k - 1) : f[i] = g[i]
      BY <1>1, <2>2, <2>3, <2>4, ConcatenatesOnce
    <3>2. k - 1 \in 1..(k - 1)
      BY <1>1, <2>1
    <3>3. QED
      BY <3>1, <3>2, Zenon
  <2>6. f[k] = f[k - 1] \o r[k]
    <3>1. k \in 2..k
      BY <1>1, <1>6
    <3>2. QED
      BY <1>4, <3>1 DEF Concatenates
  <2>7. r[k] = seqs[k]
    BY <1>1, <1>2
  <2>8. FlattenSeq(r) = FlattenSeq(s) \o seqs[k]
    BY <1>4, <2>2, <2>5, <2>6, <2>7
  <2>9. QED
    BY <2>8 DEF r, s
<1>7. QED
  BY <1>5, <1>6

LEMMA FlattenType ==
  ASSUME NEW A, NEW seqs \in Seq(Seq(A))
  PROVE  /\ FlattenSeq(<<>>) = <<>>
         /\ SubSeq(seqs, 1, Len(seqs)) = seqs
         /\ SubSeq(seqs, 1, 0) = <<>>
         /\ \A k \in 0..Len(seqs) : FlattenSeq(SubSeq(seqs, 1, k)) \in Seq(A)
<1> DEFINE n == Len(seqs)
           T == {k \in 0..n : FlattenSeq(SubSeq(seqs, 1, k)) \in Seq(A)}
<1>0. FlattenSeq(<<>>) = <<>>
  <2>1. Len(<<>>) = 0
    OBVIOUS
  <2>2. QED
    BY <2>1 DEF FlattenSeq
<1>1. SubSeq(seqs, 1, n) = seqs /\ SubSeq(seqs, 1, 0) = <<>> /\ n \in Nat
  OBVIOUS
<1>2. 0 \in T
  <2>1. <<>> \in Seq(A)
    OBVIOUS
  <2>2. FlattenSeq(SubSeq(seqs, 1, 0)) \in Seq(A)
    BY <1>0, <1>1, <2>1, Zenon
  <2> HIDE DEF n
  <2>3. QED
    BY <1>1, <2>2
<1>3. ASSUME NEW k \in 0..(n - 1), k \in T PROVE k + 1 \in T
  <2>1. k + 1 \in 1..n /\ (k + 1) - 1 = k
    BY <1>1
  <2>2. FlattenSeq(SubSeq(seqs, 1, k + 1)) = FlattenSeq(SubSeq(seqs, 1, k)) \o seqs[k + 1]
    BY <2>1, FlattenStep
  <2>3. seqs[k + 1] \in Seq(A) /\ FlattenSeq(SubSeq(seqs, 1, k)) \in Seq(A)
    BY <1>3, <2>1
  <2> DEFINE x == FlattenSeq(SubSeq(seqs, 1, k))
             y == seqs[k + 1]
  <2>4. FlattenSeq(SubSeq(seqs, 1, k + 1)) \in Seq(A)
    <3>1. x \in Seq(A) /\ y \in Seq(A) /\ FlattenSeq(SubSeq(seqs, 1, k + 1)) = x \o y
      BY <2>2, <2>3
    <3> HIDE DEF x, y
    <3>2. x \o y \in Seq(A)
      BY <3>1
    <3>3. QED
      BY <3>1, <3>2, Zenon
  <2>5. QED
    BY <2>1, <2>4
<1>4. 0..n \subseteq T
  <2> HIDE DEF T
  <2> QED
    BY <1>1, <1>2, <1>3, InductionUpTo
<1>5. QED
  BY <1>0, <1>1, <1>4

(* The k-th sequence is found in the flattening behind those before it. *)
LEMMA FlattenPart ==
  ASSUME NEW A, NEW seqs \in Seq(Seq(A)), NEW k \in 1..Len(seqs)
  PROVE  LET a == Len(FlattenSeq(SubSeq(seqs, 1, k - 1)))
             b == Len(FlattenSeq(SubSeq(seqs, 1, k)))
         IN  /\ a \in Nat /\ b = a + Len(seqs[k]) /\ b <= Len(FlattenSeq(seqs))
             /\ \A i \in 1..Len(seqs[k]) : FlattenSeq(seqs)[a + i] = seqs[k][i]
             /\ SubSeq(FlattenSeq(seqs), a + 1, b) = seqs[k]
<1> DEFINE n == Len(seqs)
           flat(m) == FlattenSeq(SubSeq(seqs, 1, m))
           a == Len(flat(k - 1))
           b == Len(flat(k))
           T == {m \in 0..n : m >= k => b <= Len(flat(m)) /\ \A i \in 1..b : flat(m)[i] = flat(k)[i]}
<1>1. n \in Nat /\ k \in 1..n /\ k - 1 \in 0..n
  OBVIOUS
<1>2. (\A m \in 0..n : flat(m) \in Seq(A)) /\ flat(n) = FlattenSeq(seqs)
  BY FlattenType
<1>3. \A m \in 1..n : flat(m) = flat(m - 1) \o seqs[m]
  BY FlattenStep
<1>4. \A m \in 1..n : seqs[m] \in Seq(A)
  OBVIOUS
<1> HIDE DEF flat, n
<1>5. 0 \in T
  BY <1>1
<1>6. ASSUME NEW m \in 0..(n - 1), m \in T PROVE m + 1 \in T
  <2>1. m \in Int /\ m + 1 \in 0..n /\ m + 1 \in 1..n /\ (m + 1) - 1 = m /\ k \in Int /\ m \in 0..n
    BY <1>1
  <2>2. CASE m + 1 < k
    BY <2>1, <2>2
  <2>3. CASE m + 1 = k
    <3>1. b \in Nat /\ b = Len(flat(m + 1)) /\ flat(m + 1) = flat(k)
      <4>1. flat(k) \in Seq(A) /\ flat(m + 1) = flat(k)
        BY <2>1, <2>3, <1>2
      <4>2. QED
        BY <4>1
    <3> HIDE DEF b
    <3>2. b <= Len(flat(m + 1)) /\ \A i \in 1..b : flat(m + 1)[i] = flat(k)[i]
      BY <3>1
    <3>3. QED
      BY <2>1, <3>2 DEF b
  <2>4. CASE m >= k
    <3> DEFINE x == flat(m)
               y == seqs[m + 1]
    <3>0. k \in 0..n /\ flat(k) \in Seq(A)
      BY <1>1, <1>2
    <3>1. x \in Seq(A) /\ y \in Seq(A) /\ flat(m + 1) = x \o y /\ b \in Nat
      <4>1. x \in Seq(A) /\ y \in Seq(A)
        BY <1>2, <1>4, <2>1
      <4>2. flat(m + 1) = flat((m + 1) - 1) \o seqs[m + 1]
        BY <1>3, <2>1
      <4>3. b \in Nat
        BY <3>0
      <4> HIDE DEF b
      <4>4. QED
        BY <2>1, <4>1, <4>2, <4>3
    <3>2. b <= Len(x) /\ \A i \in 1..b : x[i] = flat(k)[i]
      BY <1>6, <2>4
    <3> HIDE DEF x, y, b
    <3>3. b <= Len(x \o y) /\ \A i \in 1..b : (x \o y)[i] = x[i]
      BY <3>1, <3>2
    <3>4. b <= Len(flat(m + 1)) /\ \A i \in 1..b : flat(m + 1)[i] = flat(k)[i]
      BY <3>1, <3>2, <3>3
    <3>5. QED
      BY <2>1, <3>4 DEF b
  <2>5. QED
    BY <2>1, <2>2, <2>3, <2>4
<1>7. n \in T
  <2>1. 0..n \subseteq T
    <3> HIDE DEF T
    <3> QED
      BY <1>1, <1>5, <1>6, InductionUpTo
  <2>2. QED
    BY <1>1, <2>1
<1> DEFINE all == FlattenSeq(seqs)
           x == flat(k - 1)
           y == seqs[k]
<1>8. b <= Len(all) /\ \A i \in 1..b : all[i] = flat(k)[i]
  BY <1>1, <1>2, <1>7
<1>9. x \in Seq(A) /\ y \in Seq(A) /\ flat(k) = x \o y /\ all \in Seq(A) /\ a = Len(x)
  <2>1. n \in 0..n
    BY <1>1
  <2>2. QED
    BY <1>1, <1>2, <1>3, <1>4, <2>1
<1>10. Len(flat(k)) = b
  OBVIOUS
<1> HIDE DEF all, x, y, a, b
<1>11. a \in Nat /\ b = a + Len(y) /\ Len(y) \in Nat
  BY <1>9, <1>10
<1>12. ASSUME NEW i \in 1..Len(y) PROVE all[a + i] = y[i]
  <2>1. a + i \in 1..b
    BY <1>11
  <2>2. (x \o y)[a + i] = y[i]
    BY <1>9, <1>11
  <2>3. QED
    BY <1>8, <1>9, <2>1, <2>2
<1>13. SubSeq(all, a + 1, b) = y
  <2>1. SubSeq(all, a + 1, b) \in Seq(A) /\ Len(SubSeq(all, a + 1, b)) = Len(y)
    BY <1>8, <1>9, <1>11
  <2>2. ASSUME NEW i \in 1..Len(y) PROVE SubSeq(all, a + 1, b)[i] = y[i]
    <3>1. SubSeq(all, a + 1, b)[i] = all[a + i]
      BY <1>8, <1>9, <1>11
    <3>2. QED
      BY <3>1, <1>12
  <2> DEFINE z == SubSeq(all, a + 1, b)
  <2> HIDE DEF z
  <2>3. z \in Seq(A) /\ Len(z) = Len(y) /\ \A i \in 1..Len(y) : z[i] = y[i]
    BY <2>1, <2>2 DEF z
  <2>4. z = y
    <3>1. z = [i \in 1..Len(z) |-> z[i]] /\ y = [i \in 1..Len(y) |-> y[i]]
      BY <1>9, <2>3
    <3>2. [i \in 1..Len(z) |-> z[i]] = [i \in 1..Len(y) |-> y[i]]
      BY <2>3
    <3>3. QED
      BY <3>1, <3>2, Zenon
  <2>5. QED
    BY <2>4 DEF z
<1>14. QED
  BY <1>8, <1>11, <1>12, <1>13 DEF all, a, b, y, flat
=============================================================================
