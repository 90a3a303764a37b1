---------------------------- MODULE ConfigProofs ----------------------------
(***************************************************************************)
(* Proofs about the interpolation of a config, for any file, cyclic or not, *)
(* and any order of the map iterations: a table that is resolved says what   *)
(* the file means, and only a file with an unresolved reference is refused.  *)
(***************************************************************************)
EXTENDS ConfigInterp, InductionProofs

(* The assumptions on the keys and the pass limit, used throughout.         *)
USE KeysAssumption, PassAssumption

(* The texts of values: literal pieces and references.                      *)
Texts == Seq(Literals \union Refs)

(* What is no key stays as it is.                                          *)
Fixed == Literals \union {Absent}

(* The pieces of w with the keys replaced by their texts in m, and joined.  *)
Pieces(m, w) == [i \in 1..Len(w) |-> IF w[i] \in Keys THEN m[w[i]] ELSE <<w[i]>>]
Spelled(m, w) == FlattenSeq(Pieces(m, w))
-----------------------------------------------------------------------------
(* Flattening two lists of sequences one after the other.                   *)
LEMMA FlattenJoin ==
  ASSUME NEW A, NEW x \in Seq(Seq(A)), NEW y \in Seq(Seq(A))
  PROVE  FlattenSeq(x \o y) = FlattenSeq(x) \o FlattenSeq(y)
<1> DEFINE z == x \o y
           a == Len(x)
           n == Len(y)
           whole(k) == FlattenSeq(SubSeq(z, 1, a + k))
           part(k) == FlattenSeq(SubSeq(y, 1, k))
           T == {k \in 0..n : whole(k) = FlattenSeq(x) \o part(k)}
<1>1. z \in Seq(Seq(A)) /\ a \in Nat /\ n \in Nat /\ Len(z) = a + n
  OBVIOUS
<1>2. (\A i \in 1..n : z[a + i] = y[i]) /\ SubSeq(z, 1, a) = x
  <2>1. \A i \in 1..n : z[a + i] = y[i]
    OBVIOUS
  <2>2. \A i \in 1..a : z[i] = x[i]
    OBVIOUS
  <2> HIDE DEF z
  <2>3. SubSeq(z, 1, a) \in Seq(Seq(A)) /\ Len(SubSeq(z, 1, a)) = a
    BY <1>1
  <2>4. \A i \in 1..a : SubSeq(z, 1, a)[i] = z[i]
    BY <1>1
  <2>5. QED
    BY <2>1, <2>2, <2>3, <2>4
<1>3. FlattenSeq(x) \in Seq(A) /\ part(0) = <<>> /\ part(n) = FlattenSeq(y)
  <2>1. part(0) = <<>> /\ part(n) = FlattenSeq(y)
    BY FlattenType, Zenon
  <2>2. SubSeq(x, 1, Len(x)) = x /\ FlattenSeq(SubSeq(x, 1, Len(x))) \in Seq(A)
    BY FlattenType
  <2>3. FlattenSeq(x) \in Seq(A)
    BY <2>2, Zenon
  <2>4. QED
    BY <2>1, <2>3
<1>4. \A k \in 0..n : part(k) \in Seq(A)
  BY FlattenType
<1>5. 0 \in T
  <2>1. whole(0) = FlattenSeq(x)
    <3>1. a + 0 = a
      BY <1>1
    <3> HIDE DEF z, a
    <3>2. QED
      BY <1>2, <3>1
  <2>2. FlattenSeq(x) \o part(0) = FlattenSeq(x)
    BY <1>3
  <2> HIDE DEF whole, part
  <2>3. QED
    BY <1>1, <2>1, <2>2
<1>6. ASSUME NEW k \in 0..(n - 1), k \in T PROVE k + 1 \in T
  <2>1. k + 1 \in 1..n /\ (k + 1) - 1 = k /\ a + (k + 1) \in 1..Len(z) /\ (a + (k + 1)) - 1 = a + k
    BY <1>1
  <2>2. FlattenSeq(SubSeq(z, 1, a + (k + 1))) = FlattenSeq(SubSeq(z, 1, (a + (k + 1)) - 1)) \o z[a + (k + 1)]
    <3> HIDE DEF z, a
    <3> QED
      BY <1>1, <2>1, FlattenStep
  <2>3. FlattenSeq(SubSeq(y, 1, k + 1)) = FlattenSeq(SubSeq(y, 1, (k + 1) - 1)) \o y[k + 1]
    BY <2>1, FlattenStep
  <2>4. z[a + (k + 1)] = y[k + 1] /\ y[k + 1] \in Seq(A)
    BY <1>2, <2>1
  <2>5. whole(k + 1) = whole(k) \o y[k + 1]
    <3> HIDE DEF z, a
    <3> QED
      BY <2>1, <2>2, <2>4
  <2>6. part(k + 1) = part(k) \o y[k + 1]
    BY <2>1, <2>3
  <2>7. whole(k) = FlattenSeq(x) \o part(k) /\ part(k) \in Seq(A)
    BY <1>4, <1>6
  <2> DEFINE p == FlattenSeq(x)
             q == part(k)
             r == y[k + 1]
  <2>8. (p \o q) \o r = p \o (q \o r)
    <3>1. p \in Seq(A) /\ q \in Seq(A) /\ r \in Seq(A)
      BY <1>3, <2>4, <2>7
    <3> HIDE DEF p, q, r
    <3>2. QED
      BY <3>1
  <2>9. whole(k + 1) = p \o part(k + 1)
    <3> HIDE DEF whole, part
    <3> QED
      BY <2>5, <2>6, <2>7, <2>8
  <2>10. QED
    BY <2>1, <2>9
<1>7. n \in T
  <2>1. 0..n \subseteq T
    <3> HIDE DEF T, n
    <3> QED
      BY <1>1, <1>5, <1>6, InductionUpTo
  <2> HIDE DEF T, n
  <2>2. QED
    BY <1>1, <2>1
<1>8. SubSeq(z, 1, a + n) = z
  <2> HIDE DEF z, a, n
  <2>1. QED
    BY <1>1
<1>9. QED
  <2>1. whole(n) = FlattenSeq(x) \o part(n)
    BY <1>7
  <2> HIDE DEF z, a, n
  <2>2. FlattenSeq(z) = FlattenSeq(x) \o FlattenSeq(y)
    BY <1>3, <1>8, <2>1
  <2>3. QED
    BY <2>2 DEF z
-----------------------------------------------------------------------------
(* The pieces are sequences of symbols, one for each symbol of the text.    *)
LEMMA PiecesType ==
  ASSUME NEW A, NEW m, NEW w \in Texts, \A i \in 1..Len(w) : IF w[i] \in Keys THEN m[w[i]] \in Seq(A) ELSE w[i] \in A
  PROVE  /\ Pieces(m, w) \in Seq(Seq(A)) /\ Len(Pieces(m, w)) = Len(w)
         /\ Spelled(m, w) \in Seq(A)
<1>1. Pieces(m, w) \in Seq(Seq(A)) /\ Len(Pieces(m, w)) = Len(w)
  <2>1. \A i \in 1..Len(w) : (IF w[i] \in Keys THEN m[w[i]] ELSE <<w[i]>>) \in Seq(A)
    OBVIOUS
  <2>2. Len(w) \in Nat
    BY DEF Texts
  <2>3. QED
    BY <2>1, <2>2 DEF Pieces
<1>2. SubSeq(Pieces(m, w), 1, Len(w)) = Pieces(m, w) /\ FlattenSeq(SubSeq(Pieces(m, w), 1, Len(w))) \in Seq(A)
  <2>1. Len(w) \in 0..Len(w)
    BY DEF Texts
  <2>2. QED
    BY <1>1, <2>1, FlattenType
<1>3. QED
  BY <1>1, <1>2 DEF Spelled

(* Texts spell texts.                                                       *)
LEMMA SpelledType ==
  ASSUME NEW m \in [Keys -> Texts], NEW w \in Texts
  PROVE  Spelled(m, w) \in Texts
<1>1. \A i \in 1..Len(w) : IF w[i] \in Keys THEN m[w[i]] \in Seq(Literals \union Refs)
                                            ELSE w[i] \in Literals \union Refs
  BY DEF Texts
<1>2. QED
  BY <1>1, PiecesType DEF Texts

(* Texts are spelled piece by piece.                                       *)
LEMMA SpelledJoin ==
  ASSUME NEW m \in [Keys -> Texts], NEW w \in Texts, NEW v \in Texts
  PROVE  Spelled(m, w \o v) = Spelled(m, w) \o Spelled(m, v)
<1> DEFINE A == Literals \union Refs
<1>1. ASSUME NEW x \in Texts PROVE Pieces(m, x) \in Seq(Seq(A)) /\ Len(Pieces(m, x)) = Len(x)
  <2>1. \A i \in 1..Len(x) : IF x[i] \in Keys THEN m[x[i]] \in Seq(A) ELSE x[i] \in A
    BY DEF Texts
  <2> HIDE DEF A
  <2>2. QED
    BY <2>1, PiecesType
<1>2. Pieces(m, w \o v) = Pieces(m, w) \o Pieces(m, v)
  <2> DEFINE p(s) == IF s \in Keys THEN m[s] ELSE <<s>>
             x == w \o v
             l == Pieces(m, x)
             r == Pieces(m, w) \o Pieces(m, v)
  <2>1. x \in Texts /\ Len(x) = Len(w) + Len(v) /\ Len(w) \in Nat /\ Len(v) \in Nat
    BY DEF Texts
  <2>2. l \in Seq(Seq(A)) /\ Len(l) = Len(w) + Len(v)
    <3> HIDE DEF x, A
    <3> QED
      BY <1>1, <2>1
  <2>3. r \in Seq(Seq(A)) /\ Len(r) = Len(w) + Len(v)
    <3> HIDE DEF A
    <3>1. Pieces(m, w) \in Seq(Seq(A)) /\ Pieces(m, v) \in Seq(Seq(A))
      BY <1>1
    <3>2. Len(Pieces(m, w)) = Len(w) /\ Len(Pieces(m, v)) = Len(v)
      BY <1>1
    <3> DEFINE y == Pieces(m, w)
               z == Pieces(m, v)
    <3> HIDE DEF y, z
    <3>3. y \o z \in Seq(Seq(A)) /\ Len(y \o z) = Len(y) + Len(z)
      BY <3>1 DEF y, z
    <3>4. QED
      BY <3>2, <3>3 DEF y, z
  <2>4. ASSUME NEW i \in 1..(Len(w) + Len(v)) PROVE l[i] = r[i]
    <3>1. l[i] = p(x[i])
      BY <2>1 DEF Pieces
    <3>2. CASE i <= Len(w)
      <4>1. i \in 1..Len(w) /\ x[i] = w[i]
        BY <2>1, <3>2 DEF Texts
      <4>2. r[i] = Pieces(m, w)[i]
        <5>1. Pieces(m, w) \in Seq(Seq(A)) /\ Pieces(m, v) \in Seq(Seq(A)) /\ Len(Pieces(m, w)) = Len(w)
          BY <1>1
        <5> HIDE DEF A
        <5>2. QED
          BY <4>1, <5>1
      <4>3. Pieces(m, w)[i] = p(w[i])
        BY <4>1 DEF Pieces
      <4> HIDE DEF l, r, x, p
      <4>4. QED
        BY <3>1, <4>1, <4>2, <4>3
    <3>3. CASE i > Len(w)
      <4>0. i - Len(w) \in 1..Len(v) /\ Len(w) + (i - Len(w)) = i
        BY <2>1, <3>3
      <4>1. x[i] = v[i - Len(w)]
        BY <2>1, <3>3 DEF Texts
      <4>2. r[i] = Pieces(m, v)[i - Len(w)]
        <5>1. Pieces(m, w) \in Seq(Seq(A)) /\ Pieces(m, v) \in Seq(Seq(A)) /\ Len(Pieces(m, w)) = Len(w)
              /\ Len(Pieces(m, v)) = Len(v)
          BY <1>1
        <5> HIDE DEF A
        <5>2. QED
          BY <3>3, <4>0, <5>1
      <4>3. Pieces(m, v)[i - Len(w)] = p(v[i - Len(w)])
        BY <4>0 DEF Pieces
      <4> HIDE DEF l, r, x, p
      <4>4. QED
        BY <3>1, <4>1, <4>2, <4>3
    <3>4. i <= Len(w) \/ i > Len(w)
      BY <2>1
    <3>5. QED
      BY <3>2, <3>3, <3>4, Zenon
  <2> HIDE DEF l, r, A
  <2>5. l = [i \in 1..(Len(w) + Len(v)) |-> l[i]] /\ r = [i \in 1..(Len(w) + Len(v)) |-> r[i]]
    BY <2>2, <2>3
  <2>6. l = r
    BY <2>4, <2>5
  <2>7. QED
    BY <2>6 DEF l, r
<1>3. FlattenSeq(Pieces(m, w) \o Pieces(m, v)) = FlattenSeq(Pieces(m, w)) \o FlattenSeq(Pieces(m, v))
  <2>1. Pieces(m, w) \in Seq(Seq(A)) /\ Pieces(m, v) \in Seq(Seq(A))
    BY <1>1
  <2> HIDE DEF A
  <2>2. QED
    BY <2>1, FlattenJoin
<1>4. QED
  BY <1>2, <1>3 DEF Spelled

(* Flattening a list of one sequence.                                       *)
LEMMA FlattenOne == ASSUME NEW A, NEW x \in Seq(A) PROVE FlattenSeq(<<x>>) = x
<1> DEFINE s == <<x>>
<1>1. s \in Seq(Seq(A)) /\ Len(s) = 1 /\ s[1] = x
  OBVIOUS
<1> HIDE DEF s
<1>2. FlattenSeq(SubSeq(s, 1, 1)) = FlattenSeq(SubSeq(s, 1, 1 - 1)) \o s[1]
  <2>1. 1 \in 1..Len(s)
    BY <1>1
  <2>2. QED
    BY <1>1, <2>1, FlattenStep
<1>3. SubSeq(s, 1, Len(s)) = s /\ SubSeq(s, 1, 0) = <<>> /\ FlattenSeq(<<>>) = <<>>
  BY <1>1, FlattenType
<1>4. 1 - 1 = 0 /\ <<>> \o x = x
  OBVIOUS
<1>5. FlattenSeq(s) = x
  BY <1>1, <1>2, <1>3, <1>4
<1>6. QED
  BY <1>5 DEF s

(* A piece by itself.                                                      *)
LEMMA SpelledOne ==
  ASSUME NEW m \in [Keys -> Texts], NEW s \in Literals \union Refs
  PROVE  Spelled(m, <<s>>) = IF s \in Keys THEN m[s] ELSE <<s>>
<1> DEFINE w == <<s>>
           y == IF s \in Keys THEN m[s] ELSE <<s>>
<1>1. y \in Texts
  <2>1. CASE s \in Keys
    BY <2>1
  <2>2. CASE s \notin Keys
    <3>1. y = <<s>>
      BY <2>2
    <3>2. <<s>> \in Seq(Literals \union Refs)
      OBVIOUS
    <3>3. QED
      BY <3>1, <3>2 DEF Texts
  <2>3. QED
    BY <2>1, <2>2
<1>2. Pieces(m, w) = <<y>>
  BY DEF Pieces
<1>3. FlattenSeq(<<y>>) = y
  <2> HIDE DEF y
  <2> QED
    BY <1>1, FlattenOne DEF Texts
<1>4. QED
  BY <1>2, <1>3 DEF Spelled

(* A text without keys is its own meaning.                                 *)
LEMMA SpelledFixed ==
  ASSUME NEW m \in [Keys -> Texts], NEW w \in Seq(Fixed)
  PROVE  Spelled(m, w) = w
<1> DEFINE n == Len(w)
           part(k) == SubSeq(w, 1, k)
           T == {k \in 0..n : Spelled(m, part(k)) = part(k)}
<1>1. n \in Nat /\ w \in Texts /\ part(0) = <<>> /\ part(n) = w
  <2>1. Fixed \subseteq Literals \union Refs
    BY DEF Fixed, Refs
  <2>2. QED
    BY <2>1 DEF Texts
<1>2. 0 \in T
  <2>1. Pieces(m, <<>>) = <<>>
    BY DEF Pieces
  <2>2. Spelled(m, <<>>) = <<>>
    <3>1. <<>> \in Seq(Seq({}))
      OBVIOUS
    <3>2. FlattenSeq(<<>>) = <<>>
      BY <3>1, FlattenType
    <3>3. QED
      BY <2>1, <3>2 DEF Spelled
  <2> HIDE DEF part
  <2>3. QED
    BY <1>1, <2>2
<1>3. ASSUME NEW k \in 0..(n - 1), k \in T PROVE k + 1 \in T
  <2> DEFINE s == w[k + 1]
  <2>1. k + 1 \in 1..n /\ k \in 0..n /\ k + 1 \in 0..n /\ s \in Fixed /\ s \in Literals \union Refs /\ s \notin Keys
    <3>1. k + 1 \in 1..n /\ k \in 0..n /\ k + 1 \in 0..n /\ s \in Fixed
      BY <1>1
    <3>2. QED
      BY <3>1 DEF Fixed, Refs
  <2>2. part(k + 1) = part(k) \o <<s>>
    BY <1>1, <2>1
  <2>3. part(k) \in Texts /\ <<s>> \in Texts
    BY <1>1, <2>1 DEF Texts
  <2>4. Spelled(m, <<s>>) = <<s>>
    <3> HIDE DEF s
    <3> QED
      BY <2>1, SpelledOne
  <2>5. Spelled(m, part(k)) = part(k)
    BY <1>3
  <2> HIDE DEF part, s
  <2>6. Spelled(m, part(k) \o <<s>>) = Spelled(m, part(k)) \o Spelled(m, <<s>>)
    BY <2>3, SpelledJoin
  <2>7. Spelled(m, part(k + 1)) = part(k + 1)
    BY <2>2, <2>4, <2>5, <2>6
  <2>8. QED
    BY <2>1, <2>7
<1>4. n \in T
  <2> HIDE DEF T, n
  <2>1. 0..n \subseteq T
    BY <1>1, <1>2, <1>3, InductionUpTo
  <2>2. QED
    BY <1>1, <2>1
<1>5. Spelled(m, part(n)) = part(n)
  BY <1>4
<1> HIDE DEF part
<1>6. QED
  BY <1>1, <1>5

(* What a key or a piece spells is a part of what the text spells.          *)
LEMMA SpelledPart ==
  ASSUME NEW m \in [Keys -> Texts], NEW w \in Texts, NEW i \in 1..Len(w)
  PROVE  LET p == IF w[i] \in Keys THEN m[w[i]] ELSE <<w[i]>>
         IN  \A j \in 1..Len(p) : \E q \in 1..Len(Spelled(m, w)) : Spelled(m, w)[q] = p[j]
<1> DEFINE A == Literals \union Refs
           l == Pieces(m, w)
           p == IF w[i] \in Keys THEN m[w[i]] ELSE <<w[i]>>
           a == Len(FlattenSeq(SubSeq(l, 1, i - 1)))
           b == Len(FlattenSeq(SubSeq(l, 1, i)))
<1>1. l \in Seq(Seq(A)) /\ Len(l) = Len(w)
  <2>1. \A k \in 1..Len(w) : IF w[k] \in Keys THEN m[w[k]] \in Seq(A) ELSE w[k] \in A
    BY DEF Texts
  <2> HIDE DEF A
  <2>2. QED
    BY <2>1, PiecesType
<1>2. l[i] = p
  BY DEF Pieces
<1> HIDE DEF A, l, p
<1>3. /\ a \in Nat /\ b = a + Len(l[i]) /\ b <= Len(FlattenSeq(l))
      /\ \A k \in 1..Len(l[i]) : FlattenSeq(l)[a + k] = l[i][k]
  <2>1. i \in 1..Len(l)
    BY <1>1
  <2> DEFINE big == FlattenSeq(l)
  <2>2. /\ a \in Nat /\ b = a + Len(l[i]) /\ b <= Len(big)
        /\ \A k \in 1..Len(l[i]) : big[a + k] = l[i][k]
        /\ SubSeq(big, a + 1, b) = l[i]
    BY <1>1, <2>1, FlattenPart, Zenon
  <2> HIDE DEF a, b, big
  <2>3. QED
    BY <2>2 DEF big
<1>4. p \in Seq(A) /\ Len(p) \in Nat
  BY <1>1, <1>2
<1>5. Len(FlattenSeq(l)) \in Nat
  <2>1. SubSeq(l, 1, Len(l)) = l /\ FlattenSeq(SubSeq(l, 1, Len(l))) \in Seq(A)
    BY <1>1, FlattenType
  <2>2. QED
    BY <2>1
<1> HIDE DEF a, b
<1>6. \A j \in 1..Len(p) : a + j \in 1..Len(FlattenSeq(l)) /\ FlattenSeq(l)[a + j] = p[j]
  <2> DEFINE N == Len(FlattenSeq(l))
  <2>1. N \in Nat /\ b <= N /\ b = a + Len(p)
    BY <1>2, <1>3, <1>5
  <2> HIDE DEF N
  <2>2. \A j \in 1..Len(p) : a + j \in 1..N
    BY <1>3, <1>4, <2>1
  <2>3. QED
    BY <1>2, <1>3, <2>2 DEF N
<1>7. \A j \in 1..Len(p) : \E q \in 1..Len(Spelled(m, w)) : Spelled(m, w)[q] = p[j]
  BY <1>6 DEF Spelled, l
<1>8. QED
  BY <1>7 DEF p

(* Only what the keys of a text stand for matters.                          *)
LEMMA SpelledAlike ==
  ASSUME NEW m, NEW r, NEW w, \A i \in 1..Len(w) : w[i] \in Keys => m[w[i]] = r[w[i]]
  PROVE  Spelled(m, w) = Spelled(r, w)
<1>1. Pieces(m, w) = Pieces(r, w)
  BY DEF Pieces
<1>2. QED
  BY <1>1 DEF Spelled
-----------------------------------------------------------------------------
(* Meaning(d), of a file f.                                                *)
Meant(f, d) ==
  LET text[n \in 0..d] ==
        IF n = 0 THEN [k \in Keys |-> f[k].text]
        ELSE [k \in Keys |-> Spelled(text[n - 1], f[k].text)]
  IN text[d]

(* Meaning is defined on the file of the state; the proofs need it for any  *)
(* file.                                                                    *)
LEMMA MeaningIsMeant == ASSUME NEW d PROVE Meaning(d) = Meant(file, d)
  BY DEF Meaning, Meant, Spelled, Pieces

(* A table of values in which a typed value has no reference.               *)
IsFileTable(f) == f \in [Keys -> Value] /\ \A k \in Keys : f[k].typed => RefsOf(f[k]) = {}

(* The value of a key has a text.                                           *)
LEMMA TextType == ASSUME NEW f, IsFileTable(f), NEW k \in Keys PROVE f[k].text \in Texts
  BY DEF IsFileTable, Value, Texts

(* The meaning is reached by following the references n times.              *)
LEMMA MeantIsIterated ==
  ASSUME NEW f, IsFileTable(f), NEW n \in Nat
  PROVE  \E g : /\ g \in [0..n -> [Keys -> Texts]]
                /\ g[0] = [k \in Keys |-> f[k].text]
                /\ \A i \in 1..n : g[i] = [k \in Keys |-> Spelled(g[i - 1], f[k].text)]
                /\ Meant(f, n) = g[n]
<1> DEFINE D == [Keys -> Texts]
           first == [k \in Keys |-> f[k].text]
           step(d) == [k \in Keys |-> Spelled(d, f[k].text)]
           G == [i \in 1..n |-> [d \in D |-> step(d)]]
           Def(t) == [i \in 0..n |-> IF i = 0 THEN first ELSE step(t[i - 1])]
           F == CHOOSE t : t = Def(t)
<1>1. first \in D
  BY TextType
<1>2. ASSUME NEW d \in D PROVE step(d) \in D
  <2>1. \A k \in Keys : Spelled(d, f[k].text) \in Texts
    BY TextType, SpelledType
  <2>2. QED
    BY <2>1
<1>3. G \in [1..n -> [D -> D]]
  <2> HIDE DEF step, D
  <2> QED
    BY <1>2
<1>4. PICK g : IsIteration(g, n, D, first, G)
  <2> HIDE DEF G, D, first
  <2> QED
    BY <1>1, <1>3, Recursion
<1>5. g \in [0..n -> D] /\ g[0] = first
  BY <1>4 DEF IsIteration
<1>6. \A i \in 1..n : g[i] = step(g[i - 1])
  <2> HIDE DEF step, D
  <2> TAKE i \in 1..n
  <2>1. g[i - 1] \in D
    BY <1>5
  <2>2. g[i] = G[i][g[i - 1]]
    <3> HIDE DEF G
    <3> QED
      BY <1>4 DEF IsIteration
  <2>3. QED
    BY <2>1, <2>2
<1>7. g = Def(g)
  <2> HIDE DEF step, D, first
  <2> DEFINE e(i) == IF i = 0 THEN first ELSE step(g[i - 1])
  <2>1. \A i \in 0..n : g[i] = e(i)
    <3> TAKE i \in 0..n
    <3>1. CASE i = 0
      BY <3>1, <1>5
    <3>2. CASE i \in 1..n
      BY <3>2, <1>6
    <3>3. QED
      BY <3>1, <3>2
  <2>2. g = [i \in 0..n |-> g[i]]
    BY <1>5
  <2> HIDE DEF e
  <2>3. [i \in 0..n |-> g[i]] = [i \in 0..n |-> e(i)]
    BY <2>1
  <2>4. QED
    BY <2>2, <2>3 DEF e
<1>8. F = Def(F)
  <2> HIDE DEF Def
  <2> QED
    BY <1>7, Zenon
<1>9. Meant(f, n) = F[n]
  BY DEF Meant
<1>10. \A i \in 0..n : F[i] = IF i = 0 THEN first ELSE step(F[i - 1])
  <2> HIDE DEF F, step, first
  <2>1. \A i \in 0..n : Def(F)[i] = IF i = 0 THEN first ELSE step(F[i - 1])
    OBVIOUS
  <2> HIDE DEF Def
  <2>2. QED
    BY <2>1, <1>8
<1> DEFINE S == {i \in 0..n : F[i] = g[i]}
<1> HIDE DEF F, step, D, first
<1>11. 0 \in S
  BY <1>5, <1>10
<1>12. ASSUME NEW i \in 0..(n - 1), i \in S PROVE i + 1 \in S
  <2>1. i + 1 \in 0..n /\ i + 1 \in 1..n /\ (i + 1) - 1 = i /\ i + 1 # 0
    OBVIOUS
  <2>2. F[i + 1] = step(F[(i + 1) - 1]) /\ g[i + 1] = step(g[(i + 1) - 1])
    BY <2>1, <1>6, <1>10
  <2>3. F[i] = g[i]
    BY <1>12
  <2>4. F[i + 1] = g[i + 1]
    BY <2>1, <2>2, <2>3
  <2>5. QED
    BY <2>1, <2>4
<1>13. Meant(f, n) = g[n]
  <2>1. 0..n \subseteq S
    <3> HIDE DEF S
    <3> QED
      BY <1>11, <1>12, InductionUpTo
  <2>2. QED
    BY <2>1, <1>9
<1>14. QED
  BY <1>5, <1>6, <1>13 DEF D, first, step

(* The pieces of a text, and the keys among them.                           *)
SymbolsOf(w) == {w[i] : i \in 1..Len(w)}
KeysOf(w) == SymbolsOf(w) \intersect Keys

(* The keys whose text has no key left after following the references.      *)
Settled(m) == {k \in Keys : m[k] \in Seq(Fixed)}

(* A text spells without keys exactly if its keys do.                      *)
LEMMA SpelledSettled ==
  ASSUME NEW m \in [Keys -> Texts], NEW w \in Texts
  PROVE  Spelled(m, w) \in Seq(Fixed) <=> KeysOf(w) \subseteq Settled(m)
<1>0. Literals \union Refs = Fixed \union Keys /\ Fixed \intersect Keys = {}
  BY DEF Fixed, Refs
<1>1. ASSUME KeysOf(w) \subseteq Settled(m) PROVE Spelled(m, w) \in Seq(Fixed)
  <2>1. \A i \in 1..Len(w) : IF w[i] \in Keys THEN m[w[i]] \in Seq(Fixed) ELSE w[i] \in Fixed
    <3> TAKE i \in 1..Len(w)
    <3>1. CASE w[i] \in Keys
      BY <3>1, <1>1 DEF KeysOf, SymbolsOf, Settled
    <3>2. CASE w[i] \notin Keys
      BY <3>2, <1>0 DEF Texts
    <3>3. QED
      BY <3>1, <3>2
  <2>2. QED
    BY <2>1, PiecesType
<1>2. ASSUME Spelled(m, w) \in Seq(Fixed) PROVE KeysOf(w) \subseteq Settled(m)
  <2>1. SUFFICES ASSUME NEW i \in 1..Len(w), w[i] \in Keys PROVE m[w[i]] \in Seq(Fixed)
    BY DEF KeysOf, SymbolsOf, Settled
  <2> DEFINE p == m[w[i]]
             s == Spelled(m, w)
  <2>2. \A j \in 1..Len(p) : \E q \in 1..Len(s) : s[q] = p[j]
    <3> DEFINE P == IF w[i] \in Keys THEN m[w[i]] ELSE <<w[i]>>
    <3>1. \A j \in 1..Len(P) : \E q \in 1..Len(s) : s[q] = P[j]
      BY SpelledPart
    <3>2. P = p
      BY <2>1
    <3> HIDE DEF P, p, s
    <3>3. QED
      BY <3>1, <3>2
  <2>3. p \in Seq(Literals \union Refs)
    BY <2>1 DEF Texts
  <2> HIDE DEF p, s
  <2>4. \A q \in 1..Len(s) : s[q] \in Fixed
    BY <1>2 DEF s
  <2>5. \A j \in 1..Len(p) : p[j] \in Fixed
    BY <2>2, <2>4
  <2>6. p \in Seq(Fixed)
    <3>1. p = [j \in 1..Len(p) |-> p[j]] /\ Len(p) \in Nat
      BY <2>3
    <3>2. [j \in 1..Len(p) |-> p[j]] \in Seq(Fixed)
      BY <2>5, <3>1
    <3>3. QED
      BY <3>1, <3>2, Zenon
  <2>7. QED
    BY <2>6 DEF p
<1>3. QED
  BY <1>1, <1>2

(* Nothing new is settled once the keys that only refer to settled keys are *)
(* settled.                                                                *)
Closed(f, L) == \A k \in Keys : KeysOf(f[k].text) \subseteq L => k \in L

(* Following the references as often as there are keys settles every key     *)
(* that can be settled, and what it settles it leaves alone.                 *)
LEMMA MeaningSettles ==
  ASSUME NEW f, IsFileTable(f)
  PROVE  LET m == Meant(f, Depth)
         IN  /\ m \in [Keys -> Texts]
             /\ Closed(f, Settled(m))
             /\ \A k \in Settled(m) : m[k] = Spelled(m, f[k].text)
<1> DEFINE n == Depth
<1>1. IsFiniteSet(Keys) /\ n \in Nat /\ Cardinality(Keys) = n
  BY FS_CardinalityType DEF Depth
<1>2. PICK g : /\ g \in [0..n -> [Keys -> Texts]]
               /\ g[0] = [k \in Keys |-> f[k].text]
               /\ \A i \in 1..n : g[i] = [k \in Keys |-> Spelled(g[i - 1], f[k].text)]
               /\ Meant(f, n) = g[n]
  <2> HIDE DEF n
  <2> QED
    BY <1>1, MeantIsIterated
<1> HIDE DEF n
<1> DEFINE L(i) == Settled(g[i])
           Same(i) == \A k \in L(i) : g[i][k] = Spelled(g[i], f[k].text)
           S == {i \in 0..n : Same(i)}
<1>3. ASSUME NEW k \in Keys PROVE f[k].text \in Texts
  BY TextType
<1>4. \A i \in 0..n : g[i] \in [Keys -> Texts]
  BY <1>2
<1>5. ASSUME NEW i \in 0..(n - 1), NEW k \in Keys
      PROVE  /\ i \in 0..n /\ i + 1 \in 0..n /\ g[i + 1][k] = Spelled(g[i], f[k].text)
             /\ k \in L(i + 1) <=> KeysOf(f[k].text) \subseteq L(i)
  <2>1. i \in 0..n /\ i + 1 \in 0..n /\ i + 1 \in 1..n /\ (i + 1) - 1 = i
    BY <1>1
  <2>2. g[i + 1] = [j \in Keys |-> Spelled(g[(i + 1) - 1], f[j].text)]
    BY <1>2, <2>1
  <2>3. g[i + 1][k] = Spelled(g[i], f[k].text)
    BY <2>1, <2>2
  <2>4. Spelled(g[i], f[k].text) \in Seq(Fixed) <=> KeysOf(f[k].text) \subseteq Settled(g[i])
    BY <1>3, <1>4, <2>1, SpelledSettled
  <2>5. k \in L(i + 1) <=> g[i + 1][k] \in Seq(Fixed)
    BY DEF Settled
  <2>6. QED
    BY <2>1, <2>3, <2>4, <2>5
<1>6. 0 \in S
  <2>1. ASSUME NEW k \in L(0) PROVE g[0][k] = Spelled(g[0], f[k].text)
    <3>1. k \in Keys /\ g[0][k] = f[k].text /\ f[k].text \in Seq(Fixed)
      BY <1>2 DEF Settled
    <3>2. g[0] \in [Keys -> Texts]
      BY <1>1, <1>2
    <3>3. QED
      BY <3>1, <3>2, SpelledFixed
  <2> HIDE DEF L
  <2>2. QED
    BY <1>1, <2>1
<1>7. ASSUME NEW i \in 0..(n - 1), i \in S PROVE i + 1 \in S
  <2>1. ASSUME NEW k \in L(i + 1) PROVE g[i + 1][k] = Spelled(g[i + 1], f[k].text)
    <3>1. k \in Keys
      BY DEF Settled
    <3>2. g[i + 1][k] = Spelled(g[i], f[k].text) /\ KeysOf(f[k].text) \subseteq L(i)
      <4> HIDE DEF L
      <4> QED
        BY <1>5, <2>1, <3>1
    <3>3. ASSUME NEW q \in L(i) PROVE g[i][q] = g[i + 1][q]
      <4>1. q \in Keys /\ g[i][q] = Spelled(g[i], f[q].text)
        BY <1>7 DEF Settled
      <4>2. g[i + 1][q] = Spelled(g[i], f[q].text)
        <5> HIDE DEF L
        <5> QED
          BY <1>5, <4>1
      <4>3. QED
        BY <4>1, <4>2
    <3>4. \A j \in 1..Len(f[k].text) : f[k].text[j] \in Keys => g[i][f[k].text[j]] = g[i + 1][f[k].text[j]]
      <4> HIDE DEF L
      <4> QED
        BY <3>2, <3>3 DEF KeysOf, SymbolsOf
    <3>5. Spelled(g[i], f[k].text) = Spelled(g[i + 1], f[k].text)
      BY <3>4, SpelledAlike
    <3>6. QED
      BY <3>2, <3>5
  <2>2. i + 1 \in 0..n
    BY <1>1
  <2> HIDE DEF L
  <2>3. QED
    BY <2>1, <2>2
<1>8. 0..n \subseteq S
  <2> HIDE DEF S
  <2> QED
    BY <1>1, <1>6, <1>7, InductionUpTo
<1> DEFINE R == {i \in 0..n : Closed(f, L(i)) \/ Cardinality(L(i)) >= i}
<1>9. ASSUME NEW i \in 0..n PROVE L(i) \subseteq Keys /\ IsFiniteSet(L(i)) /\ Cardinality(L(i)) \in Nat
  <2>1. L(i) \subseteq Keys
    BY DEF Settled
  <2> HIDE DEF L
  <2>2. QED
    BY <1>1, <2>1, FS_Subset, FS_CardinalityType
<1>10. 0 \in R
  <2>1. 0 \in 0..n
    BY <1>1
  <2>2. Cardinality(L(0)) \in Nat
    BY <1>9, <2>1
  <2> HIDE DEF L
  <2>3. QED
    BY <2>1, <2>2
<1>11. ASSUME NEW i \in 0..(n - 1), i \in R PROVE i + 1 \in R
  <2>0. i \in 0..n /\ i + 1 \in 0..n /\ i \in S /\ i \in Nat
    BY <1>1, <1>8
  <2>1. \A k \in Keys : k \in L(i + 1) <=> KeysOf(f[k].text) \subseteq L(i)
    <3> HIDE DEF L
    <3> QED
      BY <1>5
  <2>2. ASSUME NEW k \in L(i) PROVE k \in L(i + 1)
    <3>1. k \in Keys /\ g[i][k] \in Seq(Fixed) /\ g[i][k] = Spelled(g[i], f[k].text)
      BY <2>0 DEF Settled
    <3>2. g[i + 1][k] = Spelled(g[i], f[k].text)
      <4> HIDE DEF L
      <4> QED
        BY <1>5, <3>1
    <3>3. QED
      BY <3>1, <3>2 DEF Settled
  <2> HIDE DEF L, S
  <2>3. L(i) \subseteq Keys /\ L(i + 1) \subseteq Keys /\ IsFiniteSet(L(i)) /\ IsFiniteSet(L(i + 1))
        /\ Cardinality(L(i)) \in Nat /\ Cardinality(L(i + 1)) \in Nat
    BY <1>9, <2>0
  <2>4. CASE Closed(f, L(i))
    <3>1. L(i + 1) = L(i)
      BY <2>1, <2>2, <2>3, <2>4 DEF Closed
    <3>2. QED
      BY <2>0, <2>4, <3>1
  <2>5. CASE ~Closed(f, L(i))
    <3>1. PICK k \in Keys : KeysOf(f[k].text) \subseteq L(i) /\ k \notin L(i)
      BY <2>5 DEF Closed
    <3>2. L(i) \union {k} \subseteq L(i + 1)
      BY <2>1, <2>2, <3>1
    <3>3. IsFiniteSet(L(i) \union {k}) /\ Cardinality(L(i) \union {k}) = Cardinality(L(i)) + 1
      BY <2>3, <3>1, FS_AddElement
    <3>4. Cardinality(L(i) \union {k}) <= Cardinality(L(i + 1))
      BY <2>3, <3>2, FS_Subset
    <3>5. Cardinality(L(i)) >= i
      BY <1>11, <2>5
    <3>6. Cardinality(L(i + 1)) >= i + 1
      BY <2>0, <2>3, <3>3, <3>4, <3>5
    <3>7. QED
      BY <2>0, <3>6
  <2>6. QED
    BY <2>4, <2>5
<1>12. n \in R /\ n \in S
  <2>1. 0..n \subseteq R
    <3> HIDE DEF R
    <3> QED
      BY <1>1, <1>10, <1>11, InductionUpTo
  <2>2. n \in 0..n
    BY <1>1
  <2> HIDE DEF R, S
  <2>3. QED
    BY <1>8, <2>1, <2>2
<1>13. Closed(f, L(n))
  <2>1. L(n) \subseteq Keys /\ (Closed(f, L(n)) \/ Cardinality(L(n)) >= n)
    BY <1>1, <1>9, <1>12
  <2> HIDE DEF L
  <2>2. CASE Cardinality(L(n)) >= n
    <3>1. Cardinality(L(n)) <= Cardinality(Keys) /\ Cardinality(L(n)) \in Nat
      BY <1>1, <2>1, FS_Subset, FS_CardinalityType
    <3>2. Cardinality(L(n)) = Cardinality(Keys)
      BY <1>1, <2>2, <3>1
    <3>3. L(n) = Keys
      BY <1>1, <2>1, <3>2, FS_Subset
    <3>4. QED
      BY <3>3 DEF Closed
  <2>3. QED
    BY <2>1, <2>2
<1>14. Same(n)
  BY <1>12
<1>15. QED
  <2>1. n \in 0..n
    BY <1>1
  <2>2. QED
    BY <1>2, <1>4, <1>13, <1>14, <2>1 DEF n
-----------------------------------------------------------------------------
(* Some key of the file refers to the absent one.                          *)
Lost(f) == \E k \in Keys : Absent \in RefsOf(f[k])

(* Key k is one reference to a typed key.                                  *)
Carries(f, k) == Len(f[k].text) = 1 /\ f[k].text[1] \in Keys /\ f[f[k].text[1]].typed

(* A key has the value it has in the file, or the text it means.            *)
Row(f, m, v, k) ==
  \/ v = f[k]
  \/ /\ ~f[k].typed
     /\ v.text = m[k] /\ v.text \in Seq(Literals)
     /\ Carries(f, k) => v.typed

(* The text of a key on its way: it still means what the key means, and has  *)
(* a key that cannot be settled if the key cannot.                          *)
Underway(f, m, k, w) ==
  /\ k \in Keys /\ ~f[k].typed /\ w \in Texts
  /\ KeysOf(w) \subseteq Settled(m) <=> k \in Settled(m)
  /\ k \in Settled(m) => Spelled(m, w) = m[k]
  /\ Absent \in SymbolsOf(w) => Lost(f)

(* Types of the variables; the resolver is at one of its places.            *)
TypeInv ==
  /\ file \in Files /\ flat \in [Keys -> Value]
  /\ pc \in {"pass", "expand", "done", "failed"}
  /\ pass \in {0, 1} /\ todo \in SUBSET Keys /\ changed \in BOOLEAN

(* Every key has its value of the file or the text it means.                *)
Rows == \A k \in Keys : Row(file, Meant(file, Depth), flat[k], k)

(* The key being expanded still has its value of the file.                  *)
Expanding == pc = "expand" => /\ Underway(file, Meant(file, Depth), key, out)
                              /\ flat[key] = file[key]

(* The first pass resolves every key it reaches, so that there is nothing    *)
(* for another to change.                                                   *)
Passes ==
  /\ pass = 0 => \A k \in Keys \ todo : ~HasRef(flat[k].text) \/ (pc \in {"expand", "failed"} /\ k = key)
  /\ pass = 1 => ~changed /\ pc # "expand" /\ \A k \in Keys : ~HasRef(flat[k].text)
  /\ pc = "done" => \A k \in Keys : ~HasRef(flat[k].text)
  /\ pc = "failed" => Lost(file)

(* The inductive invariant of the interpolation.                            *)
CInv == TypeInv /\ Rows /\ Expanding /\ Passes

(* The files of the model are tables of values in which a typed value has   *)
(* no reference.                                                            *)
LEMMA FilesAreTables == ASSUME NEW f \in Files PROVE IsFileTable(f)
  BY FilesAssumption DEF IsFileTable

(* A key is settled exactly if the keys it refers to are.                   *)
LEMMA SettledKeys ==
  ASSUME NEW f, IsFileTable(f), NEW k \in Keys
  PROVE  LET m == Meant(f, Depth)
         IN  /\ m \in [Keys -> Texts] /\ f[k].text \in Texts
             /\ KeysOf(f[k].text) \subseteq Settled(m) <=> k \in Settled(m)
             /\ k \in Settled(m) => Spelled(m, f[k].text) = m[k]
<1> DEFINE m == Meant(f, Depth)
<1>1. m \in [Keys -> Texts] /\ Closed(f, Settled(m)) /\ \A q \in Settled(m) : m[q] = Spelled(m, f[q].text)
  BY MeaningSettles
<1>2. f[k].text \in Texts
  BY TextType
<1> HIDE DEF m
<1>3. ASSUME k \in Settled(m) PROVE KeysOf(f[k].text) \subseteq Settled(m)
  <2>1. Spelled(m, f[k].text) \in Seq(Fixed)
    BY <1>1, <1>3 DEF Settled
  <2>2. QED
    BY <1>1, <1>2, <2>1, SpelledSettled
<1>4. ASSUME KeysOf(f[k].text) \subseteq Settled(m) PROVE k \in Settled(m)
  BY <1>1, <1>4 DEF Closed
<1>5. QED
  BY <1>1, <1>2, <1>3, <1>4 DEF m

(* Texts without references.                                               *)
LEMMA NoReference ==
  ASSUME NEW w \in Texts
  PROVE  /\ ~HasRef(w) <=> w \in Seq(Literals)
         /\ w \in Seq(Literals) => w \in Seq(Fixed) /\ KeysOf(w) = {} /\ Absent \notin SymbolsOf(w)
<1>1. \A x \in Literals : x \notin Refs /\ x \notin Keys /\ x # Absent
  BY DEF Refs
<1>2. ASSUME ~HasRef(w) PROVE w \in Seq(Literals)
  <2>1. w = [i \in 1..Len(w) |-> w[i]] /\ Len(w) \in Nat
    BY DEF Texts
  <2>2. \A i \in 1..Len(w) : w[i] \in Literals
    BY <1>2 DEF HasRef, Texts
  <2>3. [i \in 1..Len(w) |-> w[i]] \in Seq(Literals)
    BY <2>1, <2>2
  <2>4. QED
    BY <2>1, <2>3, Zenon
<1>3. ASSUME w \in Seq(Literals) PROVE ~HasRef(w) /\ w \in Seq(Fixed) /\ KeysOf(w) = {} /\ Absent \notin SymbolsOf(w)
  <2>1. \A i \in 1..Len(w) : w[i] \in Literals
    BY <1>3
  <2>2. ~HasRef(w) /\ KeysOf(w) = {} /\ Absent \notin SymbolsOf(w)
    BY <1>1, <2>1 DEF HasRef, KeysOf, SymbolsOf
  <2>3. w \in Seq(Fixed)
    <3>1. Literals \subseteq Fixed
      BY DEF Fixed
    <3>2. QED
      BY <1>3, <3>1
  <2>4. QED
    BY <2>2, <2>3
<1>4. QED
  BY <1>2, <1>3

(* What stands for a key in the table may take its place.                   *)
LEMMA RowMeans ==
  ASSUME NEW f, IsFileTable(f), NEW k \in Keys, NEW v \in Value, Row(f, Meant(f, Depth), v, k)
  PROVE  LET m == Meant(f, Depth)
         IN  /\ v.text \in Texts
             /\ KeysOf(v.text) \subseteq Settled(m) <=> k \in Settled(m)
             /\ k \in Settled(m) => Spelled(m, v.text) = m[k]
             /\ Absent \in SymbolsOf(v.text) => Lost(f)
             /\ v.typed => ~HasRef(v.text)
             /\ HasRef(v.text) => v = f[k]
<1> DEFINE m == Meant(f, Depth)
<1>1. /\ m \in [Keys -> Texts] /\ f[k].text \in Texts
      /\ KeysOf(f[k].text) \subseteq Settled(m) <=> k \in Settled(m)
      /\ k \in Settled(m) => Spelled(m, f[k].text) = m[k]
  BY SettledKeys
<1>2. v.text \in Texts
  BY DEF Value, Texts
<1> HIDE DEF m
<1>3. CASE v = f[k]
  <2>1. Absent \in SymbolsOf(v.text) => Lost(f)
    <3>1. Absent \in Refs
      BY DEF Refs
    <3>2. QED
      BY <1>3, <3>1 DEF Lost, RefsOf, SymbolsOf
  <2>2. v.typed => ~HasRef(v.text)
    BY <1>3 DEF IsFileTable, RefsOf, HasRef
  <2>3. QED
    BY <1>1, <1>3, <2>1, <2>2 DEF m
<1>4. CASE v # f[k]
  <2>1. v.text = m[k] /\ v.text \in Seq(Literals)
    BY <1>4 DEF Row, m
  <2>2. v.text \in Seq(Fixed) /\ KeysOf(v.text) = {} /\ Absent \notin SymbolsOf(v.text) /\ ~HasRef(v.text)
    BY <1>2, <2>1, NoReference
  <2>3. k \in Settled(m)
    BY <2>1, <2>2 DEF Settled
  <2>4. Spelled(m, v.text) = m[k]
    BY <1>1, <2>1, <2>2, SpelledFixed
  <2>5. QED
    BY <1>2, <2>2, <2>3, <2>4 DEF m
<1>5. QED
  BY <1>3, <1>4

(* Texts joined are texts.                                                  *)
LEMMA TextsJoin ==
  ASSUME NEW x \in Texts, NEW y \in Texts
  PROVE  /\ x \o y \in Texts /\ Len(x \o y) = Len(x) + Len(y) /\ Len(x) \in Nat /\ Len(y) \in Nat
         /\ \A i \in 1..Len(x) : (x \o y)[i] = x[i]
         /\ \A i \in 1..Len(y) : (x \o y)[Len(x) + i] = y[i]
  BY DEF Texts

(* A join has the symbols of both.                                         *)
LEMMA SymbolsJoin ==
  ASSUME NEW x \in Texts, NEW y \in Texts
  PROVE  /\ x \o y \in Texts
         /\ SymbolsOf(x \o y) = SymbolsOf(x) \union SymbolsOf(y)
         /\ KeysOf(x \o y) = KeysOf(x) \union KeysOf(y)
<1> DEFINE z == x \o y
<1>1. /\ z \in Texts /\ Len(z) = Len(x) + Len(y) /\ Len(x) \in Nat /\ Len(y) \in Nat
      /\ \A i \in 1..Len(x) : z[i] = x[i]
      /\ \A i \in 1..Len(y) : z[Len(x) + i] = y[i]
  BY TextsJoin
<1> HIDE DEF z
<1>2. ASSUME NEW i \in 1..Len(x) PROVE \E j \in 1..Len(z) : z[j] = x[i]
  <2>1. i \in 1..Len(z)
    BY <1>1
  <2>2. QED
    BY <1>1, <2>1
<1>3. ASSUME NEW i \in 1..Len(y) PROVE \E j \in 1..Len(z) : z[j] = y[i]
  <2>1. Len(x) + i \in 1..Len(z)
    BY <1>1
  <2>2. QED
    BY <1>1, <2>1
<1>4. ASSUME NEW j \in 1..Len(z) PROVE (\E i \in 1..Len(x) : z[j] = x[i]) \/ \E i \in 1..Len(y) : z[j] = y[i]
  <2>1. CASE j \in 1..Len(x)
    BY <1>1, <2>1
  <2>2. CASE j \notin 1..Len(x)
    <3> DEFINE i == j - Len(x)
    <3>1. i \in 1..Len(y) /\ Len(x) + i = j
      BY <1>1, <2>2
    <3> HIDE DEF i
    <3>2. QED
      BY <1>1, <3>1
  <2>3. QED
    BY <2>1, <2>2
<1>5. SymbolsOf(z) = SymbolsOf(x) \union SymbolsOf(y)
  <2>1. ASSUME NEW q PROVE q \in SymbolsOf(z) <=> q \in SymbolsOf(x) \/ q \in SymbolsOf(y)
    <3>1. \A v : q \in SymbolsOf(v) <=> \E j \in 1..Len(v) : v[j] = q
      BY DEF SymbolsOf
    <3>2. q \in SymbolsOf(x) \/ q \in SymbolsOf(y) => q \in SymbolsOf(z)
      BY <3>1, <1>2, <1>3, Zenon
    <3>3. q \in SymbolsOf(z) => q \in SymbolsOf(x) \/ q \in SymbolsOf(y)
      BY <3>1, <1>4, Zenon
    <3>4. QED
      BY <3>2, <3>3
  <2>2. QED
    BY <2>1
<1>6. QED
  BY <1>1, <1>5 DEF z, KeysOf

(* A text is what stands before its i-th piece, that piece, and the rest.   *)
LEMMA TextAround ==
  ASSUME NEW w \in Texts, NEW i \in 1..Len(w)
  PROVE  LET a == SubSeq(w, 1, i - 1)
             b == SubSeq(w, i + 1, Len(w))
         IN  /\ a \in Texts /\ b \in Texts /\ <<w[i]>> \in Texts
             /\ w = (a \o <<w[i]>>) \o b
<1> DEFINE n == Len(w)
           a == SubSeq(w, 1, i - 1)
           s == <<w[i]>>
           b == SubSeq(w, i + 1, n)
           z == (a \o s) \o b
<1>0. n \in Nat /\ i \in 1..n
  BY DEF Texts
<1>1. a \in Texts /\ Len(a) = i - 1 /\ \A j \in 1..(i - 1) : a[j] = w[j]
  BY <1>0 DEF Texts
<1>2. b \in Texts /\ Len(b) = n - i /\ \A j \in 1..(n - i) : b[j] = w[i + j]
  BY <1>0 DEF Texts
<1>3. s \in Texts /\ Len(s) = 1 /\ s[1] = w[i]
  BY DEF Texts
<1> HIDE DEF a, b, s, n
<1>4. a \o s \in Texts /\ Len(a \o s) = i /\ (\A j \in 1..(i - 1) : (a \o s)[j] = w[j]) /\ (a \o s)[i] = w[i]
  <2>1. a \o s \in Texts /\ Len(a \o s) = Len(a) + Len(s)
    BY <1>1, <1>3, TextsJoin
  <2>2. (\A j \in 1..Len(a) : (a \o s)[j] = a[j]) /\ (a \o s)[Len(a) + 1] = s[1]
    <3>1. \A j \in 1..Len(s) : (a \o s)[Len(a) + j] = s[j]
      BY <1>1, <1>3, TextsJoin
    <3>2. 1 \in 1..Len(s)
      BY <1>3
    <3>3. \A j \in 1..Len(a) : (a \o s)[j] = a[j]
      BY <1>1, <1>3, TextsJoin
    <3>4. QED
      BY <3>1, <3>2, <3>3
  <2>3. Len(a) + 1 = i /\ Len(a) + Len(s) = i
    BY <1>0, <1>1, <1>3
  <2>4. QED
    BY <1>1, <1>3, <2>1, <2>2, <2>3
<1> DEFINE c == a \o s
<1> HIDE DEF c
<1>5. z \in Texts /\ Len(z) = n /\ (\A j \in 1..i : z[j] = c[j]) /\ \A j \in 1..(n - i) : z[i + j] = b[j]
  <2>1. c \in Texts /\ Len(c) = i
    BY <1>4 DEF c
  <2>2. c \o b \in Texts /\ Len(c \o b) = Len(c) + Len(b) /\ (\A j \in 1..Len(c) : (c \o b)[j] = c[j])
        /\ \A j \in 1..Len(b) : (c \o b)[Len(c) + j] = b[j]
    BY <1>2, <2>1, TextsJoin
  <2>3. Len(c) + Len(b) = n
    BY <1>0, <1>2, <2>1
  <2>4. QED
    BY <1>2, <2>1, <2>2, <2>3 DEF c
<1> HIDE DEF z
<1>6. ASSUME NEW j \in 1..n PROVE z[j] = w[j]
  <2>1. CASE j < i
    <3>1. j \in 1..(i - 1) /\ j \in 1..i
      BY <1>0, <2>1
    <3>2. QED
      BY <3>1, <1>4, <1>5 DEF c
  <2>2. CASE j = i
    <3>1. j \in 1..i
      BY <1>0, <2>2
    <3>2. QED
      BY <3>1, <2>2, <1>4, <1>5 DEF c
  <2>3. CASE j > i
    <3> DEFINE q == j - i
    <3>1. q \in 1..(n - i) /\ i + q = j
      BY <1>0, <2>3
    <3> HIDE DEF q
    <3>2. QED
      BY <3>1, <1>2, <1>5
  <2>4. j < i \/ j = i \/ j > i
    BY <1>0
  <2>5. QED
    BY <2>1, <2>2, <2>3, <2>4
<1>7. w = z
  <2>1. w = [j \in 1..n |-> w[j]] /\ z = [j \in 1..n |-> z[j]]
    BY <1>5 DEF Texts, n
  <2>2. QED
    BY <1>6, <2>1
<1>8. QED
  BY <1>1, <1>2, <1>3, <1>7 DEF a, b, s, z, n

(* A reference may give way to what its key has in the table.               *)
LEMMA SubstituteMeans ==
  ASSUME NEW m \in [Keys -> Texts], NEW a \in Texts, NEW k \in Keys, NEW t \in Texts, NEW b \in Texts,
         KeysOf(t) \subseteq Settled(m) <=> k \in Settled(m),
         k \in Settled(m) => Spelled(m, t) = m[k]
  PROVE  /\ (a \o t) \o b \in Texts
         /\ KeysOf((a \o t) \o b) \subseteq Settled(m) <=> KeysOf((a \o <<k>>) \o b) \subseteq Settled(m)
         /\ KeysOf((a \o <<k>>) \o b) \subseteq Settled(m) =>
              Spelled(m, (a \o t) \o b) = Spelled(m, (a \o <<k>>) \o b)
         /\ SymbolsOf((a \o t) \o b) \subseteq SymbolsOf((a \o <<k>>) \o b) \union SymbolsOf(t)
<1> DEFINE s == <<k>>
           c == a \o s
           d == a \o t
           w == (a \o <<k>>) \o b
           v == (a \o t) \o b
<1>1. s \in Texts /\ KeysOf(s) = {k} /\ Spelled(m, s) = m[k]
  <2>1. KeysOf(s) = {k}
    BY DEF KeysOf, SymbolsOf
  <2>2. k \in Literals \union Refs
    BY DEF Refs
  <2>3. s \in Texts
    BY <2>2 DEF Texts
  <2>4. QED
    BY <2>1, <2>2, <2>3, SpelledOne
<1> HIDE DEF s
<1>2. c \in Texts /\ KeysOf(c) = KeysOf(a) \union {k} /\ SymbolsOf(a) \subseteq SymbolsOf(c)
  BY <1>1, SymbolsJoin
<1>3. d \in Texts /\ KeysOf(d) = KeysOf(a) \union KeysOf(t) /\ SymbolsOf(d) = SymbolsOf(a) \union SymbolsOf(t)
  BY SymbolsJoin
<1>4. Spelled(m, c) = Spelled(m, a) \o Spelled(m, s) /\ Spelled(m, d) = Spelled(m, a) \o Spelled(m, t)
  BY <1>1, SpelledJoin
<1>5. w = c \o b /\ v = d \o b
  BY DEF s
<1> HIDE DEF c, d, w, v
<1>6. /\ KeysOf(c \o b) = KeysOf(c) \union KeysOf(b) /\ SymbolsOf(c \o b) = SymbolsOf(c) \union SymbolsOf(b)
      /\ KeysOf(d \o b) = KeysOf(d) \union KeysOf(b) /\ SymbolsOf(d \o b) = SymbolsOf(d) \union SymbolsOf(b)
      /\ d \o b \in Texts
  BY <1>2, <1>3, SymbolsJoin
<1>7. KeysOf(v) \subseteq Settled(m) <=> KeysOf(w) \subseteq Settled(m)
  BY <1>2, <1>3, <1>5, <1>6
<1>8. ASSUME KeysOf(w) \subseteq Settled(m) PROVE Spelled(m, v) = Spelled(m, w)
  <2>1. Spelled(m, t) = Spelled(m, s)
    BY <1>1, <1>2, <1>5, <1>6, <1>8
  <2>2. Spelled(m, c) = Spelled(m, d)
    BY <1>4, <2>1
  <2>3. Spelled(m, c \o b) = Spelled(m, c) \o Spelled(m, b) /\ Spelled(m, d \o b) = Spelled(m, d) \o Spelled(m, b)
    BY <1>2, <1>3, SpelledJoin
  <2>4. QED
    BY <1>5, <2>2, <2>3
<1>9. v \in Texts /\ SymbolsOf(v) \subseteq SymbolsOf(w) \union SymbolsOf(t)
  BY <1>2, <1>3, <1>5, <1>6
<1>10. QED
  BY <1>7, <1>8, <1>9 DEF w, v
-----------------------------------------------------------------------------
(* The file means itself before the first pass.                             *)
LEMMA InitInv == Init => CInv
<1>1. SUFFICES ASSUME Init PROVE CInv
  OBVIOUS
<1>2. TypeInv
  BY <1>1, FilesAssumption DEF Init, TypeInv
<1>3. Rows
  BY <1>1 DEF Init, Rows, Row
<1>4. Expanding /\ Passes
  BY <1>1 DEF Init, Expanding, Passes
<1>5. QED
  BY <1>2, <1>3, <1>4 DEF CInv

(* The table is a table of values whose rows may stand for their keys.       *)
LEMMA TableMeans ==
  ASSUME CInv
  PROVE  /\ IsFileTable(file) /\ Meant(file, Depth) \in [Keys -> Texts]
         /\ \A k \in Keys :
              LET m == Meant(file, Depth)
              IN  /\ flat[k] \in Value /\ flat[k].text \in Texts
                  /\ KeysOf(flat[k].text) \subseteq Settled(m) <=> k \in Settled(m)
                  /\ k \in Settled(m) => Spelled(m, flat[k].text) = m[k]
                  /\ Absent \in SymbolsOf(flat[k].text) => Lost(file)
                  /\ flat[k].typed => ~HasRef(flat[k].text)
                  /\ HasRef(flat[k].text) => flat[k] = file[k]
<1>1. IsFileTable(file) /\ flat \in [Keys -> Value] /\ Rows
  BY FilesAreTables DEF CInv, TypeInv
<1>2. Meant(file, Depth) \in [Keys -> Texts]
  BY <1>1, MeaningSettles
<1>3. \A k \in Keys : flat[k] \in Value /\ Row(file, Meant(file, Depth), flat[k], k)
  BY <1>1 DEF Rows
<1>4. QED
  BY <1>1, <1>2, <1>3, RowMeans

(* A key that is passed over has no reference, so what it has is what it    *)
(* means.                                                                   *)
LEMMA SkipKeeps == ASSUME CInv, NEW k \in Keys, Skip(k) PROVE CInv'
<1>1. TypeInv' /\ Rows' /\ Expanding'
  BY DEF CInv, Skip, TypeInv, Rows, Expanding
<1>2. ~HasRef(flat[k].text)
  BY TableMeans DEF Skip
<1>3. Passes'
  BY <1>2 DEF CInv, Skip, Passes
<1>4. QED
  BY <1>1, <1>3 DEF CInv

(* The expansion of a key starts with what the table has for it.            *)
LEMMA ExpandKeeps == ASSUME CInv, NEW k \in Keys, Expand(k) PROVE CInv'
<1> DEFINE m == Meant(file, Depth)
<1>1. TypeInv' /\ Rows'
  BY DEF CInv, Expand, TypeInv, Rows
<1>2. Passes'
  BY DEF CInv, Expand, Passes, TypeInv
<1>3. /\ flat[k] = file[k] /\ ~file[k].typed /\ file[k].text \in Texts
      /\ KeysOf(file[k].text) \subseteq Settled(m) <=> k \in Settled(m)
      /\ k \in Settled(m) => Spelled(m, file[k].text) = m[k]
      /\ Absent \in SymbolsOf(file[k].text) => Lost(file)
  BY TableMeans DEF Expand
<1>4. Underway(file, m, k, file[k].text)
  BY <1>3 DEF Underway
<1>5. Expanding'
  BY <1>3, <1>4 DEF Expand, Expanding
<1>6. QED
  BY <1>1, <1>2, <1>5 DEF CInv

(* The first reference of a text.                                           *)
LEMMA FirstRefFacts ==
  ASSUME NEW w \in Texts, HasRef(w)
  PROVE  FirstRef(w) \in 1..Len(w) /\ w[FirstRef(w)] \in Refs
<1> DEFINE S == {i \in 1..Len(w) : w[i] \in Refs}
<1>1. Len(w) \in Nat /\ S \in SUBSET (0..Len(w)) /\ S # {}
  BY DEF Texts, HasRef
<1>2. \E i \in S : \A j \in S : i <= j
  <2> DEFINE n == Len(w)
             R == {n - i : i \in S}
  <2>1. R \in SUBSET (0..n) /\ R # {} /\ n \in Nat
    BY <1>1
  <2>2. PICK r \in R : \A q \in R : q <= r
    <3> HIDE DEF R, n
    <3> QED
      BY <2>1, Greatest
  <2>3. PICK i \in S : r = n - i
    BY <2>2
  <2>4. ASSUME NEW j \in S PROVE i <= j
    <3>1. n - j \in R /\ n - j <= n - i
      BY <2>2, <2>3
    <3>2. QED
      BY <3>1, <1>1
  <2>5. QED
    BY <2>4
<1>3. \E i \in 1..Len(w) : w[i] \in Refs /\ \A j \in 1..(i - 1) : w[j] \notin Refs
  <2>1. PICK i \in S : \A j \in S : i <= j
    BY <1>2
  <2>2. \A j \in 1..(i - 1) : w[j] \notin Refs
    BY <2>1, <1>1
  <2>3. QED
    BY <2>2
<1>4. QED
  BY <1>3 DEF FirstRef

(* expandRefs: the text on its way means the same after a reference gave    *)
(* way.                                                                     *)
LEMMA ReplaceKeeps == ASSUME CInv, Replace PROVE CInv'
<1> DEFINE m == Meant(file, Depth)
           i == FirstRef(out)
           t == flat[out[i]].text
           v == SubSeq(out, 1, i - 1) \o t \o SubSeq(out, i + 1, Len(out))
<1>1. /\ pc = "expand" /\ HasRef(out) /\ out[i] # Absent /\ out' = v
      /\ file' = file /\ flat' = flat /\ pc' = pc /\ pass' = pass /\ todo' = todo
      /\ changed' = changed /\ key' = key
  BY DEF Replace, Substitute
<1>2. TypeInv' /\ Rows' /\ Passes'
  BY <1>1 DEF CInv, TypeInv, Rows, Passes
<1>3. Underway(file, m, key, out) /\ flat[key] = file[key]
  BY <1>1 DEF CInv, Expanding
<1>4. out \in Texts
  BY <1>3 DEF Underway
<1>5. i \in 1..Len(out) /\ out[i] \in Keys
  <2>1. i \in 1..Len(out) /\ out[i] \in Refs
    BY <1>1, <1>4, FirstRefFacts
  <2>2. QED
    BY <1>1, <2>1 DEF Refs
<1>6. /\ m \in [Keys -> Texts] /\ t \in Texts
      /\ KeysOf(t) \subseteq Settled(m) <=> out[i] \in Settled(m)
      /\ out[i] \in Settled(m) => Spelled(m, t) = m[out[i]]
      /\ Absent \in SymbolsOf(t) => Lost(file)
  BY <1>5, TableMeans
<1> HIDE DEF m, i, t
<1>7. /\ v \in Texts
      /\ KeysOf(v) \subseteq Settled(m) <=> KeysOf(out) \subseteq Settled(m)
      /\ KeysOf(out) \subseteq Settled(m) => Spelled(m, v) = Spelled(m, out)
      /\ SymbolsOf(v) \subseteq SymbolsOf(out) \union SymbolsOf(t)
  <2> DEFINE a == SubSeq(out, 1, i - 1)
             b == SubSeq(out, i + 1, Len(out))
             k == out[i]
  <2>1. a \in Texts /\ b \in Texts /\ out = (a \o <<k>>) \o b
    BY <1>4, <1>5, TextAround
  <2>2. v = (a \o t) \o b
    OBVIOUS
  <2>3. k \in Keys /\ (KeysOf(t) \subseteq Settled(m) <=> k \in Settled(m)) /\ (k \in Settled(m) => Spelled(m, t) = m[k])
    BY <1>5, <1>6
  <2> DEFINE x == (a \o <<k>>) \o b
             y == (a \o t) \o b
  <2> HIDE DEF a, b, k, v
  <2>4. /\ y \in Texts
        /\ KeysOf(y) \subseteq Settled(m) <=> KeysOf(x) \subseteq Settled(m)
        /\ KeysOf(x) \subseteq Settled(m) => Spelled(m, y) = Spelled(m, x)
        /\ SymbolsOf(y) \subseteq SymbolsOf(x) \union SymbolsOf(t)
    BY <1>6, <2>1, <2>3, SubstituteMeans
  <2>5. x = out /\ y = v
    BY <2>1, <2>2
  <2> HIDE DEF x, y
  <2>6. QED
    BY <2>4, <2>5
<1> HIDE DEF v
<1>8. Underway(file, m, key, v)
  BY <1>3, <1>6, <1>7 DEF Underway
<1>9. Expanding'
  BY <1>1, <1>3, <1>8 DEF Expanding, m
<1>10. QED
  BY <1>2, <1>9 DEF CInv

(* expandRefs gives up only on a key that the file does not have.           *)
LEMMA UnresolvedKeeps == ASSUME CInv, Unresolved PROVE CInv'
<1>1. TypeInv' /\ Rows' /\ Expanding'
  BY DEF CInv, Unresolved, TypeInv, Rows, Expanding
<1>2. Lost(file)
  <2>1. out \in Texts /\ (Absent \in SymbolsOf(out) => Lost(file))
    BY DEF CInv, Unresolved, Expanding, Underway
  <2>2. FirstRef(out) \in 1..Len(out) /\ out[FirstRef(out)] = Absent
    BY <2>1, FirstRefFacts DEF Unresolved
  <2>3. QED
    BY <2>1, <2>2 DEF SymbolsOf
<1>3. Passes'
  BY <1>2 DEF CInv, Unresolved, Passes, Lost
<1>4. QED
  BY <1>1, <1>3 DEF CInv

(* A text without references is what its key means, unless the key is one   *)
(* reference to a typed key, whose typed value it takes.                    *)
LEMMA StoreKeeps == ASSUME CInv, Store PROVE CInv'
<1> DEFINE m == Meant(file, Depth)
           v == IF IsFull(flat[key].text) THEN flat[flat[key].text[1]]
                ELSE [typed |-> FALSE, text |-> out]
<1>1. /\ pc = "expand" /\ ~HasRef(out) /\ flat' = [flat EXCEPT ![key] = v]
      /\ changed' = TRUE /\ pc' = "pass" /\ file' = file /\ pass' = pass /\ todo' = todo /\ key' = key
      /\ out' = out
  BY DEF Store
<1>2. /\ key \in Keys /\ ~file[key].typed /\ out \in Texts
      /\ KeysOf(out) \subseteq Settled(m) <=> key \in Settled(m)
      /\ key \in Settled(m) => Spelled(m, out) = m[key]
      /\ flat[key] = file[key]
  BY <1>1 DEF CInv, Expanding, Underway
<1>3. flat \in [Keys -> Value] /\ IsFileTable(file) /\ m \in [Keys -> Texts]
  BY TableMeans DEF CInv, TypeInv
<1> HIDE DEF m
<1>4. out \in Seq(Literals) /\ out = m[key]
  <2>1. out \in Seq(Literals) /\ out \in Seq(Fixed) /\ KeysOf(out) = {}
    BY <1>1, <1>2, NoReference
  <2>2. QED
    BY <1>2, <1>3, <2>1, SpelledFixed
<1>5. v \in Value /\ v.text = out /\ (Carries(file, key) => v.typed)
  <2>1. CASE IsFull(flat[key].text)
    <3> DEFINE w == file[key].text
               q == w[1]
    <3>1. Len(w) = 1 /\ q \in Keys /\ flat[q].typed /\ v = flat[q]
      BY <1>2, <2>1 DEF IsFull
    <3>2. /\ flat[q] \in Value /\ flat[q].text \in Texts
          /\ KeysOf(flat[q].text) \subseteq Settled(m) <=> q \in Settled(m)
          /\ q \in Settled(m) => Spelled(m, flat[q].text) = m[q]
          /\ ~HasRef(flat[q].text)
      BY <3>1, TableMeans DEF m
    <3>3. flat[q].text \in Seq(Fixed) /\ KeysOf(flat[q].text) = {}
      BY <3>2, NoReference
    <3>4. q \in Settled(m) /\ flat[q].text = m[q]
      BY <1>3, <3>2, <3>3, SpelledFixed
    <3>5. /\ w \in Texts
          /\ KeysOf(w) \subseteq Settled(m) <=> key \in Settled(m)
          /\ key \in Settled(m) => Spelled(m, w) = m[key]
      BY <1>2, <1>3, SettledKeys DEF m
    <3>6. w = <<q>>
      <4> HIDE DEF q
      <4>1. w[1] = q
        BY DEF q
      <4> HIDE DEF w
      <4>2. QED
        BY <3>1, <3>5, <4>1 DEF Texts
    <3>7. KeysOf(w) = {q} /\ Spelled(m, w) = m[q]
      <4> HIDE DEF q, w
      <4>1. KeysOf(<<q>>) = {q}
        BY <3>1 DEF KeysOf, SymbolsOf
      <4>2. Spelled(m, <<q>>) = m[q]
        BY <1>3, <3>1, SpelledOne DEF Refs
      <4>3. QED
        BY <3>6, <4>1, <4>2
    <3> HIDE DEF q, w
    <3>8. flat[q].text = out
      BY <1>4, <3>4, <3>5, <3>7
    <3>9. QED
      BY <3>1, <3>2, <3>8
  <2>2. CASE ~IsFull(flat[key].text)
    <3>1. v = [typed |-> FALSE, text |-> out]
      BY <2>2
    <3>2. v \in Value /\ v.text = out
      <4>1. [typed |-> FALSE, text |-> out] \in Value
        BY <1>2 DEF Value, Texts
      <4> HIDE DEF v
      <4>2. QED
        BY <3>1, <4>1
    <3>3. ~Carries(file, key)
      <4>1. SUFFICES ASSUME Carries(file, key) PROVE FALSE
        OBVIOUS
      <4> DEFINE q == file[key].text[1]
      <4>2. Len(file[key].text) = 1 /\ q \in Keys /\ file[q].typed
        BY <4>1 DEF Carries
      <4>3. flat[q] = file[q]
        BY <4>2 DEF CInv, Rows, Row
      <4>4. QED
        BY <1>2, <2>2, <4>2, <4>3 DEF IsFull
    <3>4. QED
      BY <3>2, <3>3
  <2>3. QED
    BY <2>1, <2>2
<1> HIDE DEF v
<1>6. TypeInv'
  BY <1>1, <1>2, <1>3, <1>5 DEF CInv, TypeInv
<1>7. Rows'
  <2>1. ASSUME NEW k \in Keys PROVE Row(file, m, flat'[k], k)
    <3>1. CASE k = key
      <4>1. flat'[k] = v
        BY <1>1, <1>3, <3>1
      <4>2. QED
        BY <1>2, <1>4, <1>5, <3>1, <4>1 DEF Row
    <3>2. CASE k # key
      <4>1. flat'[k] = flat[k]
        BY <1>1, <1>3, <3>2
      <4>2. QED
        BY <4>1 DEF CInv, Rows, m
    <3>3. QED
      BY <3>1, <3>2
  <2>2. QED
    BY <1>1, <2>1 DEF Rows, m
<1>8. Expanding'
  BY <1>1 DEF Expanding
<1>9. Passes'
  <2>1. pass = 0
    BY <1>1 DEF CInv, TypeInv, Passes
  <2>2. ~HasRef(flat'[key].text)
    BY <1>1, <1>2, <1>3, <1>5
  <2>3. \A k \in Keys \ {key} : flat'[k] = flat[k]
    BY <1>1, <1>3
  <2>4. \A k \in Keys \ todo : ~HasRef(flat'[k].text)
    BY <2>1, <2>2, <2>3 DEF CInv, Passes
  <2>5. QED
    BY <1>1, <2>1, <2>4 DEF Passes
<1>10. QED
  BY <1>6, <1>7, <1>8, <1>9 DEF CInv

(* A pass that changed nothing is the last; the second one never reaches    *)
(* the limit.                                                               *)
LEMMA EndPassKeeps == ASSUME CInv, EndPass PROVE CInv'
<1>1. pass = 0 /\ \A k \in Keys : ~HasRef(flat[k].text)
  BY DEF CInv, EndPass, Passes, TypeInv
<1>2. pass' = 1 /\ todo' = Keys /\ changed' = FALSE /\ pc' = "pass" /\ file' = file /\ flat' = flat
  BY <1>1 DEF EndPass
<1>3. TypeInv' /\ Rows' /\ Expanding'
  BY <1>2 DEF CInv, TypeInv, Rows, Expanding
<1>4. Passes'
  BY <1>1, <1>2 DEF Passes
<1>5. QED
  BY <1>3, <1>4 DEF CInv

(* The resolver stops when a pass changed nothing.                          *)
LEMMA FinishKeeps == ASSUME CInv, Finish PROVE CInv'
<1>1. TypeInv' /\ Rows' /\ Expanding'
  BY DEF CInv, Finish, TypeInv, Rows, Expanding
<1>2. \A k \in Keys : ~HasRef(flat[k].text)
  BY DEF CInv, Finish, Passes, TypeInv
<1>3. Passes'
  BY <1>2 DEF CInv, Finish, Passes
<1>4. QED
  BY <1>1, <1>3 DEF CInv

(* No step, no change.                                                      *)
LEMMA StutterKeeps == ASSUME CInv, UNCHANGED vars PROVE CInv'
<1>1. TypeInv' /\ Rows'
  BY DEF vars, CInv, TypeInv, Rows
<1>2. Expanding' /\ Passes'
  BY DEF vars, CInv, Expanding, Passes
<1>3. QED
  BY <1>1, <1>2 DEF CInv

(* The invariant says of the last pass what the file means.                 *)
LEMMA InvariantResolves == ASSUME CInv PROVE ResolvedAsWritten
<1> DEFINE m == Meant(file, Depth)
<1>1. ASSUME pc = "done", NEW k \in Keys
      PROVE  /\ flat[k].text = m[k] /\ Absent \notin RefsOf(file[k])
             /\ Carries(file, k) => flat[k].typed
  <2>1. ~HasRef(flat[k].text)
    BY <1>1 DEF CInv, Passes
  <2>2. /\ IsFileTable(file) /\ m \in [Keys -> Texts] /\ flat[k].text \in Texts
        /\ KeysOf(flat[k].text) \subseteq Settled(m) <=> k \in Settled(m)
        /\ k \in Settled(m) => Spelled(m, flat[k].text) = m[k]
        /\ Row(file, m, flat[k], k)
    BY TableMeans DEF CInv, Rows
  <2>3. /\ file[k].text \in Texts
        /\ k \in Settled(m) => Spelled(m, file[k].text) = m[k]
    BY <2>2, SettledKeys
  <2> HIDE DEF m
  <2>4. flat[k].text \in Seq(Literals) /\ flat[k].text \in Seq(Fixed) /\ KeysOf(flat[k].text) = {}
        /\ Absent \notin SymbolsOf(flat[k].text)
    BY <2>1, <2>2, NoReference
  <2>5. k \in Settled(m) /\ flat[k].text = m[k]
    BY <2>2, <2>4, SpelledFixed
  <2>6. Absent \notin RefsOf(file[k])
    <3>1. SUFFICES ASSUME NEW i \in 1..Len(file[k].text), file[k].text[i] = Absent PROVE FALSE
      BY DEF RefsOf
    <3> DEFINE w == file[k].text
               p == IF w[i] \in Keys THEN m[w[i]] ELSE <<w[i]>>
    <3>2. \A j \in 1..Len(p) : \E q \in 1..Len(Spelled(m, w)) : Spelled(m, w)[q] = p[j]
      <4>1. m \in [Keys -> Texts] /\ w \in Texts /\ i \in 1..Len(w)
        BY <2>2, <2>3
      <4> HIDE DEF w
      <4>2. QED
        BY <4>1, SpelledPart
    <3>3. p = <<Absent>>
      BY <3>1
    <3>4. Spelled(m, w) = flat[k].text
      BY <2>3, <2>5
    <3> HIDE DEF p, w
    <3>5. 1 \in 1..Len(p) /\ p[1] = Absent
      BY <3>3
    <3>6. QED
      BY <2>4, <3>2, <3>4, <3>5 DEF SymbolsOf
  <2>7. Carries(file, k) => flat[k].typed
    <3>1. CASE flat[k] = file[k]
      <4>1. ~Carries(file, k)
        BY <2>1, <2>3, <3>1 DEF Carries, HasRef, Refs
      <4>2. QED
        BY <4>1
    <3>2. CASE flat[k] # file[k]
      BY <2>2, <3>2 DEF Row
    <3>3. QED
      BY <3>1, <3>2
  <2>8. QED
    BY <2>5, <2>6, <2>7
<1>2. Meaning(Depth) = m
  BY MeaningIsMeant
<1>3. pc = "failed" => \E k \in Keys : Absent \in RefsOf(file[k])
  BY DEF CInv, Passes, Lost
<1> HIDE DEF m
<1>4. QED
  BY <1>1, <1>2, <1>3 DEF ResolvedAsWritten, Carries

(* A table that is resolved says what the file means, in whatever order the  *)
(* map iterations of resolveInterpolations took the keys, and a file is      *)
(* refused only for a reference to a key it does not have.  Cyclic files are  *)
(* not excluded: the expansion of a key that leads to a cycle never ends.    *)
THEOREM ResolvedMeansFile == Spec => []ResolvedAsWritten
<1>1. CInv /\ [Next]_vars => CInv'
  BY SkipKeeps, ExpandKeeps, ReplaceKeeps, UnresolvedKeeps, StoreKeeps, EndPassKeeps, FinishKeeps,
     StutterKeeps DEF Next
<1>2. QED
  BY InitInv, <1>1, InvariantResolves, PTL DEF Spec
=============================================================================
