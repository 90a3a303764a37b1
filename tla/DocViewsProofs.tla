--------------------------- MODULE DocViewsProofs ---------------------------
(***************************************************************************)
(* Proofs about the deprojectivizer and the views of the document, for      *)
(* documents of any length: heads stay a forest and tokens only move down,  *)
(* the child index and the subtrees agree with the heads, and noun chunks   *)
(* lie in order, each within one sentence.                                  *)
(***************************************************************************)
EXTENDS DocViews, InductionProofs

USE NAssumption
-----------------------------------------------------------------------------
(* InOrder(S) is what a walk over the tokens has collected at its end.      *)
LEMMA InOrderIsIterated ==
  ASSUME NEW S
  PROVE  \E f :
           /\ f[0] = <<>>
           /\ \A k \in 1..N : f[k] = IF k - 1 \in S THEN Append(f[k - 1], k - 1) ELSE f[k - 1]
           /\ InOrder(S) = f[N]
<1> DEFINE D == Seq(Tokens)
           step(k, d) == IF k - 1 \in S THEN Append(d, k - 1) ELSE d
           Def(f) == [k \in 0..N |-> IF k = 0 THEN <<>>
                                     ELSE IF k - 1 \in S THEN Append(f[k - 1], k - 1) ELSE f[k - 1]]
           G == [i \in 1..N |-> [d \in D |-> step(i, d)]]
           F == CHOOSE f : f = Def(f)
<1>1. ASSUME NEW i \in 1..N, NEW d \in D PROVE step(i, d) \in D
  <2>1. i - 1 \in Tokens
    BY DEF Tokens
  <2>2. QED
    BY <2>1
<1>2. G \in [1..N -> [D -> D]]
  <2> HIDE DEF step, D
  <2> QED
    BY <1>1
<1>3. <<>> \in D
  OBVIOUS
<1>4. PICK f : IsIteration(f, N, D, <<>>, G)
  <2> HIDE DEF G, D
  <2> QED
    BY <1>2, <1>3, Recursion
<1>5. f \in [0..N -> D] /\ f[0] = <<>>
  BY <1>4 DEF IsIteration
<1>6. \A i \in 1..N : f[i] = step(i, f[i - 1])
  <2> HIDE DEF step, D
  <2> TAKE i \in 1..N
  <2>1. f[i - 1] \in D
    BY <1>5
  <2>2. f[i] = G[i][f[i - 1]]
    <3> HIDE DEF G
    <3> QED
      BY <1>4 DEF IsIteration
  <2>3. QED
    BY <2>1, <2>2
<1>7. f = Def(f)
  <2> DEFINE e(k) == IF k = 0 THEN <<>>
                     ELSE IF k - 1 \in S THEN Append(f[k - 1], k - 1) ELSE f[k - 1]
  <2>1. \A k \in 0..N : f[k] = e(k)
    <3> TAKE k \in 0..N
    <3>1. CASE k = 0
      BY <3>1, <1>5
    <3>2. CASE k \in 1..N
      BY <3>2, <1>6
    <3>3. QED
      BY <3>1, <3>2
  <2>2. f = [k \in 0..N |-> f[k]]
    BY <1>5
  <2> HIDE DEF e
  <2>3. [k \in 0..N |-> f[k]] = [k \in 0..N |-> e(k)]
    BY <2>1
  <2>4. QED
    BY <2>2, <2>3 DEF e
<1>8. F = Def(F)
  <2> HIDE DEF Def
  <2> QED
    BY <1>7, Zenon
<1>9. InOrder(S) = F[N]
  BY DEF InOrder
<1>10. \A k \in 0..N : F[k] = IF k = 0 THEN <<>>
                              ELSE IF k - 1 \in S THEN Append(F[k - 1], k - 1) ELSE F[k - 1]
  <2> HIDE DEF F
  <2>1. \A k \in 0..N : Def(F)[k] = IF k = 0 THEN <<>>
                              ELSE IF k - 1 \in S THEN Append(F[k - 1], k - 1) ELSE F[k - 1]
    OBVIOUS
  <2> HIDE DEF Def
  <2>2. QED
    BY <2>1, <1>8
<1> HIDE DEF F
<1>11. F[0] = <<>>
  BY <1>10
<1>12. \A k \in 1..N : F[k] = IF k - 1 \in S THEN Append(F[k - 1], k - 1) ELSE F[k - 1]
  BY <1>10
<1>13. QED
  BY <1>9, <1>11, <1>12

(* s holds the members of S in increasing order, each once.                 *)
Lists(s, S) ==
  /\ s \in Seq(S)
  /\ \A x \in S : \E i \in 1..Len(s) : s[i] = x
  /\ \A i, j \in 1..Len(s) : i < j => s[i] < s[j]

(* The members of S a walk has passed when it stands on k.                  *)
Upto(S, k) == {x \in S : x < k}

(* One more token of the walk.                                              *)
LEMMA ListsAppend ==
  ASSUME NEW S \in SUBSET Tokens, NEW k \in Tokens, NEW s, Lists(s, Upto(S, k)),
         Len(s) = Cardinality(Upto(S, k)), IsFiniteSet(Upto(S, k))
  PROVE  LET r == IF k \in S THEN Append(s, k) ELSE s
         IN  /\ Lists(r, Upto(S, k + 1)) /\ Len(r) = Cardinality(Upto(S, k + 1))
             /\ IsFiniteSet(Upto(S, k + 1))
<1> DEFINE A == Upto(S, k)
           B == Upto(S, k + 1)
           n == Len(s)
<1>1. s \in Seq(A) /\ n \in Nat
  BY DEF Lists
<1>0. k \in Int /\ \A x \in S : x \in Int
  BY DEF Tokens
<1>2. CASE k \in S
  <2> DEFINE r == Append(s, k)
  <2>1. B = A \union {k} /\ k \notin A
    <3>1. \A x \in S : x < k + 1 <=> (x < k \/ x = k)
      BY <1>0
    <3>2. ~(k < k)
      BY <1>0
    <3>3. QED
      BY <1>2, <3>1, <3>2 DEF Upto
  <2>2. Cardinality(B) = Cardinality(A) + 1 /\ IsFiniteSet(B)
    <3>1. IsFiniteSet(A)
      OBVIOUS
    <3> HIDE DEF A, B
    <3>2. IsFiniteSet(A \union {k}) /\ Cardinality(A \union {k}) = IF k \in A THEN Cardinality(A) ELSE Cardinality(A) + 1
      BY <3>1, FS_AddElement
    <3>3. QED
      BY <2>1, <3>2
  <2>3. r \in Seq(B) /\ Len(r) = n + 1 /\ r[n + 1] = k /\ \A i \in 1..n : r[i] = s[i]
    <3> HIDE DEF A, B
    <3>1. s \in Seq(B) /\ k \in B
      BY <1>1, <2>1
    <3>2. QED
      BY <3>1
  <2>4. ASSUME NEW x \in B PROVE \E i \in 1..Len(r) : r[i] = x
    <3>1. CASE x = k
      BY <3>1, <2>3, <1>1
    <3>2. CASE x \in A
      <4>1. PICK i \in 1..n : s[i] = x
        BY <3>2 DEF Lists
      <4>2. i \in 1..Len(r) /\ r[i] = x
        <5> HIDE DEF r, n
        <5> QED
          BY <4>1, <2>3, <1>1
      <4>3. QED
        BY <4>2
    <3>3. QED
      BY <3>1, <3>2, <2>1
  <2>5. ASSUME NEW i \in 1..Len(r), NEW j \in 1..Len(r), i < j PROVE r[i] < r[j]
    <3> HIDE DEF r
    <3>1. i \in 1..n /\ r[i] = s[i]
      BY <2>3, <2>5, <1>1
    <3>2. CASE j = n + 1
      <4>1. s[i] \in A
        BY <3>1, <1>1
      <4>2. QED
        BY <4>1, <3>1, <3>2, <2>3 DEF Upto
    <3>3. CASE j # n + 1
      <4>1. j \in 1..n /\ r[j] = s[j]
        BY <3>3, <2>3, <1>1
      <4>2. QED
        BY <4>1, <3>1, <2>5 DEF Lists
    <3>4. QED
      BY <3>2, <3>3
  <2>6. Lists(r, B)
    <3> HIDE DEF r, B
    <3> QED
      BY <2>3, <2>4, <2>5 DEF Lists
  <2>7. QED
    <3>1. Len(r) = Cardinality(B)
      <4>1. Len(s) = Cardinality(A)
        OBVIOUS
      <4> HIDE DEF r, A, B
      <4>2. QED
        BY <4>1, <2>2, <2>3
    <3>2. r = IF k \in S THEN Append(s, k) ELSE s
      BY <1>2
    <3> HIDE DEF r
    <3>3. QED
      BY <2>2, <2>6, <3>1, <3>2
<1>3. CASE k \notin S
  <2>1. B = A
    <3>1. \A x \in S : x < k + 1 <=> (x < k \/ x = k)
      BY <1>0
    <3>2. QED
      BY <1>3, <3>1 DEF Upto
  <2>2. QED
    BY <1>3, <2>1
<1>4. QED
  BY <1>2, <1>3

(* InOrder(S) lists S.                                                      *)
LEMMA InOrderLists ==
  ASSUME NEW S \in SUBSET Tokens
  PROVE  /\ Lists(InOrder(S), S)
         /\ Len(InOrder(S)) = Cardinality(S) /\ IsFiniteSet(S)
<1>1. PICK f : /\ f[0] = <<>>
               /\ \A k \in 1..N : f[k] = IF k - 1 \in S THEN Append(f[k - 1], k - 1) ELSE f[k - 1]
               /\ InOrder(S) = f[N]
  BY InOrderIsIterated
<1> DEFINE Ok(k) == /\ Lists(f[k], Upto(S, k)) /\ Len(f[k]) = Cardinality(Upto(S, k))
                    /\ IsFiniteSet(Upto(S, k))
           T == {k \in 0..N : Ok(k)}
<1>2. 0 \in T
  <2>1. Upto(S, 0) = {}
    <3>1. \A x \in S : ~(x < 0)
      BY DEF Tokens
    <3>2. QED
      BY <3>1 DEF Upto
  <2>2. Lists(<<>>, {}) /\ Len(<<>>) = 0
    BY DEF Lists
  <2>3. Cardinality({}) = 0 /\ IsFiniteSet({})
    BY FS_EmptySet
  <2>4. Ok(0)
    BY <1>1, <2>1, <2>2, <2>3
  <2>5. QED
    BY <2>4
<1>3. ASSUME NEW k \in 0..(N - 1), k \in T PROVE k + 1 \in T
  <2>1. k \in Tokens /\ k + 1 \in 1..N /\ (k + 1) - 1 = k
    BY DEF Tokens
  <2>2. f[k + 1] = IF k \in S THEN Append(f[k], k) ELSE f[k]
    BY <1>1, <2>1
  <2>3. Ok(k)
    BY <1>3
  <2>4. Ok(k + 1)
    BY <2>1, <2>2, <2>3, ListsAppend
  <2>5. QED
    BY <2>1, <2>4
<1>4. N \in T
  <2> HIDE DEF T
  <2>1. 0..N \subseteq T
    BY <1>2, <1>3, InductionUpTo
  <2>2. QED
    BY <2>1
<1>5. Upto(S, N) = S
  <2>1. \A x \in S : x < N
    BY DEF Tokens
  <2>2. QED
    BY <2>1 DEF Upto
<1>6. QED
  BY <1>1, <1>4, <1>5
-----------------------------------------------------------------------------
(* The search stays within the document, and it searches for a token whose  *)
(* label is decorated.                                                      *)
TypeOK ==
  /\ head \in [Tokens -> Tokens]
  /\ dep \in [Tokens -> Dep]
  /\ tok \in 0..N
  /\ pc \in {"scan", "search"}
  /\ queue \in Seq(Tokens) /\ next \in Seq(Tokens)
  /\ pos \in Nat \ {0}
  /\ pc = "search" => tok \in Tokens /\ Decorated(tok)

(* A root has no decoration, so no search starts from one.                  *)
RootsPlain == \A t \in Tokens : head[t] = t => ~Decorated(t)

(* X has the children of its members, except the token that is to be moved. *)
Avoids(X) == \A c \in Tokens \ {tok} : head[c] \in X => c \in X

(* q is the head of the token being read or lies below it without passing   *)
(* through that token: q is in every set the head is in that avoids the     *)
(* token.                                                                   *)
Visited(q) == \A X \in SUBSET Tokens : head[tok] \in X /\ Avoids(X) => q \in X

(* The search looks at such tokens only, whatever a level overwrites of the *)
(* one being read.                                                          *)
SearchStays ==
  pc = "search" => /\ \A i \in 1..Len(queue) : Visited(queue[i])
                   /\ \A i \in 1..Len(next) : Visited(next[i])

(* The inductive invariant of the deprojectivizer.                          *)
SearchInv == TypeOK /\ RootsPlain /\ StaysForest /\ SearchStays

(* Heads without a cycle: every set of tokens has a member that is a root   *)
(* or whose head lies outside.                                              *)
LEMMA ForestSets ==
  ASSUME NEW h \in [Tokens -> Tokens]
  PROVE  Acyclic(Unrooted(h)) <=>
           \A X \in SUBSET Tokens : X # {} => \E t \in X : h[t] = t \/ h[t] \notin X
<1>1. DOMAIN Unrooted(h) = Tokens
  BY DEF Unrooted
<1>2. \A t \in Tokens : Unrooted(h)[t] = IF h[t] = t THEN NoHead ELSE h[t]
  BY DEF Unrooted
<1>3. NoHead \notin Tokens
  BY DEF NoHead, Tokens
<1>4. ASSUME NEW X \in SUBSET Tokens, NEW t \in X
      PROVE  Unrooted(h)[t] \notin X <=> h[t] = t \/ h[t] \notin X
  BY <1>2, <1>3
<1>5. Acyclic(Unrooted(h)) <=>
        \A X \in SUBSET Tokens : X # {} => \E t \in X : Unrooted(h)[t] \notin X
  BY <1>1 DEF Acyclic
<1>6. QED
  BY <1>4, <1>5

(* The children of a token, and those the search looks at, as lists.        *)
LEMMA ChildrenList ==
  ASSUME NEW h
  PROVE  /\ Children(h) \in Seq(Tokens) /\ Searchable(h) \in Seq(Tokens)
         /\ \A i \in 1..Len(Searchable(h)) :
              Searchable(h)[i] \in Tokens \ {h, tok} /\ head[Searchable(h)[i]] = h
         /\ Lists(Children(h), ChildSet(h)) /\ ChildSet(h) \subseteq Tokens
         /\ Len(Children(h)) = Cardinality(ChildSet(h)) /\ IsFiniteSet(ChildSet(h))
<1> DEFINE S == ChildSet(h)
           T == ChildSet(h) \ {tok}
<1>1. S \in SUBSET Tokens /\ T \in SUBSET Tokens
  BY DEF ChildSet
<1>2. Lists(InOrder(S), S) /\ Lists(InOrder(T), T) /\ Len(InOrder(S)) = Cardinality(S) /\ IsFiniteSet(S)
  <2> HIDE DEF S, T
  <2> QED
    BY <1>1, InOrderLists
<1>3. InOrder(S) \in Seq(S) /\ InOrder(T) \in Seq(T)
  BY <1>2 DEF Lists
<1>4. InOrder(S) \in Seq(Tokens) /\ InOrder(T) \in Seq(Tokens)
  <2> HIDE DEF S, T
  <2> QED
    BY <1>1, <1>3
<1>5. \A i \in 1..Len(InOrder(T)) : InOrder(T)[i] \in T
  <2> HIDE DEF T
  <2> QED
    BY <1>3
<1>6. \A c \in T : c \in Tokens \ {h, tok} /\ head[c] = h
  BY DEF ChildSet
<1>7. QED
  BY <1>1, <1>2, <1>4, <1>5, <1>6 DEF Children, Searchable

(* The children of a token the search stands on are visited tokens too.     *)
LEMMA KidsVisited ==
  ASSUME TypeOK, SearchStays, pc = "search", pos <= Len(queue),
         NEW i \in 1..Len(Searchable(queue[pos]))
  PROVE  /\ Searchable(queue[pos])[i] \in Tokens \ {tok, queue[pos]}
         /\ head[Searchable(queue[pos])[i]] = queue[pos]
         /\ Visited(queue[pos])
         /\ Visited(Searchable(queue[pos])[i])
<1> DEFINE c == Searchable(queue[pos])[i]
<1>1. pos \in 1..Len(queue)
  BY DEF TypeOK
<1>2. Visited(queue[pos])
  BY <1>1 DEF SearchStays
<1>3. c \in Tokens \ {queue[pos], tok} /\ head[c] = queue[pos]
  BY ChildrenList
<1>4. Visited(c)
  <2> HIDE DEF c
  <2> QED
    BY <1>2, <1>3 DEF Visited, Avoids
<1>5. QED
  BY <1>2, <1>3, <1>4

(* Attaching the token to a visited one builds no cycle: what leads from    *)
(* the new head to a root never passes through the token.                   *)
LEMMA ReattachKeepsForest ==
  ASSUME TypeOK, RootsPlain, StaysForest, tok \in Tokens, Decorated(tok),
         NEW c \in Tokens \ {tok}, Visited(c), head' = [head EXCEPT ![tok] = c]
  PROVE  StaysForest'
<1>1. head \in [Tokens -> Tokens] /\ head' \in [Tokens -> Tokens] /\ head[tok] # tok
  BY DEF TypeOK, RootsPlain
<1>2. \A t \in Tokens : head'[t] = IF t = tok THEN c ELSE head[t]
  BY <1>1
<1>3. SUFFICES ASSUME NEW X \in SUBSET Tokens, X # {},
                      \A t \in X : head'[t] # t /\ head'[t] \in X
               PROVE  FALSE
  BY <1>1, ForestSets DEF StaysForest
<1>4. \E t \in X : head[t] = t \/ head[t] \notin X
  BY <1>1, <1>3, ForestSets DEF StaysForest
<1>5. tok \in X /\ head[tok] \notin X
  BY <1>1, <1>2, <1>3, <1>4
<1>6. c \in X
  BY <1>2, <1>3, <1>5
<1> DEFINE Y == Tokens \ X
<1>7. Avoids(Y)
  BY <1>2, <1>3 DEF Avoids
<1>8. head[tok] \in Y
  BY <1>1, <1>5
<1>9. c \in Y
  BY <1>7, <1>8 DEF Visited
<1>10. QED
  BY <1>6, <1>9

(* The loop starts in a forest.                                             *)
LEMMA SearchInit == ASSUME NEW p \in Parses, Start(p) PROVE SearchInv
<1>1. /\ p.head \in [Tokens -> Tokens] /\ p.dep \in [Tokens -> Dep]
      /\ Acyclic(Unrooted(p.head))
      /\ \A t \in Tokens : p.head[t] = t => p.dep[t] = [label |-> Root, lifted |-> NoLabel]
  BY ParsesAssumption DEF IsParse
<1>2. head = p.head /\ dep = p.dep /\ tok = 0 /\ pc = "scan" /\ queue = <<>> /\ pos = 1 /\ next = <<>>
  BY DEF Start
<1>3. TypeOK
  <2>1. <<>> \in Seq(Tokens) /\ 0 \in 0..N /\ 1 \in Nat \ {0}
    OBVIOUS
  <2>2. QED
    BY <1>1, <1>2, <2>1 DEF TypeOK
<1>4. RootsPlain
  BY <1>1, <1>2 DEF RootsPlain, Decorated
<1>5. QED
  BY <1>1, <1>2, <1>3, <1>4 DEF SearchInv, SearchStays, StaysForest

(* A move leaves the labels of all other tokens alone.                      *)
LEMMA TypeReattach ==
  ASSUME TypeOK, pc = "search", NEW h \in Tokens, Reattach(h)
  PROVE  TypeOK' /\ dep' = [dep EXCEPT ![tok].lifted = NoLabel] /\ pc' = "scan"
<1>1. tok \in Tokens /\ tok + 1 \in 0..N
  BY DEF TypeOK, Tokens
<1>2. dep' \in [Tokens -> Dep]
  <2>1. dep[tok] \in Dep
    BY <1>1 DEF TypeOK
  <2>2. [dep[tok] EXCEPT !.lifted = NoLabel] \in Dep
    BY <2>1 DEF Dep
  <2>3. QED
    BY <1>1, <2>2 DEF TypeOK, Reattach
<1>3. head' \in [Tokens -> Tokens]
  BY <1>1 DEF TypeOK, Reattach
<1>4. <<>> \in Seq(Tokens) /\ 1 \in Nat \ {0}
  OBVIOUS
<1>5. QED
  BY <1>1, <1>2, <1>3, <1>4 DEF TypeOK, Reattach

(* A move to a visited token, or to the old head, keeps the invariant.      *)
LEMMA ReattachKeeps ==
  ASSUME SearchInv, pc = "search", NEW h \in Tokens, Reattach(h),
         \/ h # tok /\ Visited(h)
         \/ h = head[tok]
  PROVE  SearchInv'
<1>1. TypeOK' /\ dep' = [dep EXCEPT ![tok].lifted = NoLabel] /\ pc' = "scan"
  BY TypeReattach DEF SearchInv
<1>2. TypeOK /\ RootsPlain /\ StaysForest /\ tok \in Tokens /\ Decorated(tok)
  BY DEF SearchInv, TypeOK
<1>3. head' = [head EXCEPT ![tok] = h]
  BY DEF Reattach
<1>4. head[tok] # tok
  BY <1>2 DEF RootsPlain
<1>5. ASSUME NEW t \in Tokens, head'[t] = t PROVE dep'[t].lifted = NoLabel
  <2>1. t # tok /\ head[t] = t
    BY <1>2, <1>3, <1>4, <1>5 DEF TypeOK
  <2>2. dep'[t] = dep[t] /\ ~Decorated(t)
    BY <1>1, <1>2, <2>1 DEF RootsPlain, TypeOK
  <2>3. QED
    BY <2>2 DEF Decorated
<1>6. RootsPlain'
  BY <1>5 DEF RootsPlain, Decorated
<1>7. StaysForest'
  <2>1. CASE h # tok /\ Visited(h)
    BY <1>2, <1>3, <2>1, ReattachKeepsForest
  <2>2. CASE h = head[tok]
    <3>1. head' = head
      BY <1>2, <1>3, <2>2 DEF TypeOK
    <3>2. QED
      BY <1>2, <3>1 DEF StaysForest
  <2>3. QED
    BY <2>1, <2>2
<1>8. SearchStays'
  BY <1>1 DEF SearchStays
<1>9. QED
  BY <1>1, <1>6, <1>7, <1>8 DEF SearchInv

(* A Find ends the search at a child of the token being read. *)
LEMMA FindTarget ==
  ASSUME SearchInv, Find
  PROVE  \E c \in Tokens \ {tok} : /\ Visited(c) /\ Reattach(c)
                                   /\ head[c] # c /\ Visited(head[c])
<1>1. pc = "search" /\ pos <= Len(queue)
  BY DEF Find
<1>2. PICK i \in 1..Len(Searchable(queue[pos])) : Reattach(Searchable(queue[pos])[i])
  BY DEF Find
<1>3. TypeOK /\ SearchStays
  BY DEF SearchInv
<1> DEFINE c == Searchable(queue[pos])[i]
<1>4. /\ c \in Tokens \ {tok, queue[pos]}
      /\ head[c] = queue[pos] /\ Visited(queue[pos]) /\ Visited(c)
  BY <1>1, <1>3, KidsVisited
<1> HIDE DEF c
<1>5. Reattach(c)
  BY <1>2 DEF c
<1>6. QED
  BY <1>4, <1>5

(* The next level, and with it the overwritten part of this one, holds      *)
(* children of visited tokens.                                              *)
LEMMA VisitKeeps ==
  ASSUME SearchInv, Visit
  PROVE  SearchInv'
<1> DEFINE kids == Searchable(queue[pos])
<1>1. /\ pc = "search" /\ pos <= Len(queue)
      /\ next' = next \o kids
      /\ queue' = [p \in 1..Len(queue) |-> IF p <= Len(next') THEN next'[p] ELSE queue[p]]
      /\ pos' = pos + 1 /\ UNCHANGED <<head, dep, tok, pc>>
  BY DEF Visit
<1>2. TypeOK /\ SearchStays /\ kids \in Seq(Tokens) /\ queue \in Seq(Tokens) /\ next \in Seq(Tokens)
  BY ChildrenList DEF SearchInv, TypeOK
<1>3. \A i \in 1..Len(kids) : Visited(kids[i])
  BY <1>1, <1>2, KidsVisited
<1>4. (\A i \in 1..Len(queue) : Visited(queue[i])) /\ (\A i \in 1..Len(next) : Visited(next[i]))
  BY <1>1, <1>2 DEF SearchStays
<1> HIDE DEF kids
<1>5. next' \in Seq(Tokens) /\ Len(next') = Len(next) + Len(kids)
  BY <1>1, <1>2
<1>6. \A i \in 1..Len(next') : Visited(next'[i])
  <2> TAKE i \in 1..Len(next')
  <2>1. CASE i <= Len(next)
    <3>1. next'[i] = next[i] /\ i \in 1..Len(next)
      BY <1>1, <1>2, <1>5, <2>1
    <3>2. QED
      BY <3>1, <1>4
  <2>2. CASE i > Len(next)
    <3>1. next'[i] = kids[i - Len(next)] /\ i - Len(next) \in 1..Len(kids)
      BY <1>1, <1>2, <1>5, <2>2
    <3>2. QED
      BY <3>1, <1>3
  <2>3. QED
    BY <2>1, <2>2, <1>2
<1>7. ASSUME NEW p \in 1..Len(queue)
      PROVE  /\ (IF p <= Len(next') THEN next'[p] ELSE queue[p]) \in Tokens
             /\ Visited(IF p <= Len(next') THEN next'[p] ELSE queue[p])
  <2>1. CASE p <= Len(next')
    <3>1. p \in 1..Len(next')
      BY <2>1, <1>2
    <3>2. next'[p] \in Tokens /\ Visited(next'[p])
      BY <3>1, <1>5, <1>6
    <3>3. QED
      BY <2>1, <3>2
  <2>2. CASE ~(p <= Len(next'))
    <3>1. queue[p] \in Tokens /\ Visited(queue[p])
      BY <1>2, <1>4
    <3>2. QED
      BY <2>2, <3>1
  <2>3. QED
    BY <2>1, <2>2
<1>8. queue' \in Seq(Tokens) /\ Len(queue') = Len(queue)
  <2>1. Len(queue) \in Nat
    BY <1>2
  <2>2. queue' \in [1..Len(queue) -> Tokens]
    BY <1>1, <1>7
  <2>3. QED
    BY <2>1, <2>2
<1>9. \A i \in 1..Len(queue') : Visited(queue'[i])
  <2> TAKE i \in 1..Len(queue')
  <2>1. i \in 1..Len(queue) /\ queue'[i] = IF i <= Len(next') THEN next'[i] ELSE queue[i]
    BY <1>1, <1>8
  <2>2. QED
    BY <2>1, <1>7
<1>11. SearchStays'
  <2>1. ASSUME NEW X \in SUBSET Tokens, (head[tok] \in X /\ Avoids(X))'
        PROVE  head[tok] \in X /\ Avoids(X)
    BY <1>1, <2>1 DEF Avoids
  <2>2. \A i \in 1..Len(queue') : \A X \in SUBSET Tokens :
          (head[tok] \in X /\ Avoids(X))' => queue'[i] \in X
    BY <2>1, <1>9 DEF Visited
  <2>3. \A i \in 1..Len(next') : \A X \in SUBSET Tokens :
          (head[tok] \in X /\ Avoids(X))' => next'[i] \in X
    BY <2>1, <1>6 DEF Visited
  <2>4. QED
    BY <2>2, <2>3 DEF SearchStays, Visited
<1>12. TypeOK'
  <2>1. pos + 1 \in Nat \ {0}
    BY <1>2 DEF TypeOK
  <2>2. QED
    BY <1>1, <1>2, <1>5, <1>8, <2>1 DEF TypeOK, Decorated
<1>13. RootsPlain' /\ StaysForest'
  BY <1>1 DEF SearchInv, RootsPlain, StaysForest, Decorated
<1>14. QED
  BY <1>11, <1>12, <1>13 DEF SearchInv

(* The next level becomes the level.                                        *)
LEMMA DescendKeeps ==
  ASSUME SearchInv, Descend
  PROVE  SearchInv'
<1>1. queue' = next /\ pos' = 1 /\ next' = <<>> /\ UNCHANGED <<head, dep, tok, pc>> /\ pc = "search"
  BY DEF Descend
<1>2. \A i \in 1..Len(next) : Visited(next[i])
  BY <1>1 DEF SearchInv, SearchStays
<1>3. SearchStays'
  <2>1. ASSUME NEW X \in SUBSET Tokens, (head[tok] \in X /\ Avoids(X))'
        PROVE  head[tok] \in X /\ Avoids(X)
    BY <1>1, <2>1 DEF Avoids
  <2>2. \A i \in 1..Len(queue') : \A X \in SUBSET Tokens :
          (head[tok] \in X /\ Avoids(X))' => queue'[i] \in X
    BY <2>1, <1>1, <1>2 DEF Visited
  <2>3. Len(next') = 0
    BY <1>1
  <2>4. QED
    BY <2>2, <2>3 DEF SearchStays, Visited
<1>4. TypeOK'
  <2>1. <<>> \in Seq(Tokens) /\ 1 \in Nat \ {0}
    OBVIOUS
  <2>2. QED
    BY <1>1, <2>1 DEF SearchInv, TypeOK, Decorated
<1>5. QED
  BY <1>1, <1>3, <1>4 DEF SearchInv, RootsPlain, StaysForest, Decorated

(* The loop goes on to the next token, or starts a search at its head.      *)
LEMMA ScanKeeps ==
  ASSUME SearchInv, Skip \/ Search
  PROVE  SearchInv'
<1>1. TypeOK
  BY DEF SearchInv
<1>2. CASE Skip
  <2>1. /\ pc = "scan" /\ tok \in Tokens /\ tok' = tok + 1
        /\ UNCHANGED <<head, dep, pc, queue, pos, next>>
    BY <1>1, <1>2 DEF Skip, TypeOK, Tokens
  <2>2. tok' \in 0..N
    BY <2>1 DEF Tokens
  <2>3. TypeOK' /\ SearchStays'
    BY <1>1, <2>1, <2>2 DEF TypeOK, SearchStays
  <2>4. QED
    BY <2>1, <2>3 DEF SearchInv, RootsPlain, StaysForest, Decorated
<1>3. CASE Search
  <2>1. /\ tok \in Tokens /\ Decorated(tok)
        /\ pc' = "search" /\ queue' = <<head[tok]>> /\ pos' = 1 /\ next' = <<>>
        /\ UNCHANGED <<head, dep, tok>>
    BY <1>1, <1>3 DEF Search, TypeOK, Tokens
  <2>2. head[tok] \in Tokens /\ <<head[tok]>> \in Seq(Tokens) /\ <<>> \in Seq(Tokens) /\ 1 \in Nat \ {0}
    BY <1>1, <2>1 DEF TypeOK
  <2>3. TypeOK'
    BY <1>1, <2>1, <2>2 DEF TypeOK, Decorated
  <2>4. Len(next') = 0 /\ Len(queue') = 1 /\ queue'[1] = head[tok]
    BY <2>1
  <2>5. \A i \in 1..Len(queue') : i = 1
    BY <2>4
  <2>6. \A i \in 1..Len(queue') : Visited(queue[i])'
    BY <2>1, <2>4, <2>5 DEF Visited
  <2>7. SearchStays'
    BY <2>4, <2>6 DEF SearchStays
  <2>8. QED
    BY <2>1, <2>3, <2>7 DEF SearchInv, RootsPlain, StaysForest, Decorated
<1>4. QED
  BY <1>2, <1>3

(* Every step keeps the invariant.                                          *)
LEMMA SearchStep == SearchInv /\ [DocNext]_docVars => SearchInv'
<1> SUFFICES ASSUME SearchInv, [DocNext]_docVars
             PROVE  SearchInv'
  OBVIOUS
<1>1. CASE Skip \/ Search
  BY <1>1, ScanKeeps
<1>2. CASE Find
  <2>1. pc = "search"
    BY <1>2 DEF Find
  <2>2. PICK c \in Tokens \ {tok} : Visited(c) /\ Reattach(c)
    BY <1>2, FindTarget
  <2>3. QED
    BY <2>1, <2>2, ReattachKeeps
<1>3. CASE Visit
  BY <1>3, VisitKeeps
<1>4. CASE Descend
  BY <1>4, DescendKeeps
<1>5. CASE GiveUp
  <2>1. pc = "search" /\ Reattach(head[tok]) /\ head[tok] \in Tokens
    BY <1>5 DEF GiveUp, SearchInv, TypeOK
  <2>2. QED
    BY <2>1, ReattachKeeps
<1>6. CASE EnsureChildIdx \/ UNCHANGED docVars
  <2>1. UNCHANGED <<head, dep, tok, pc, queue, pos, next>>
    BY <1>6 DEF EnsureChildIdx, docVars
  <2>2. TypeOK' /\ RootsPlain' /\ StaysForest'
    BY <2>1 DEF SearchInv, TypeOK, RootsPlain, StaysForest, Decorated
  <2>3. SearchStays'
    BY <2>1 DEF SearchInv, SearchStays, Visited, Avoids
  <2>4. QED
    BY <2>2, <2>3 DEF SearchInv
<1>7. QED
  BY <1>1, <1>2, <1>3, <1>4, <1>5, <1>6 DEF DocNext, Deproject, Next

(* So it holds for every parse, every label scheme and every length.        *)
LEMMA SearchInvariant == DocSpec => []SearchInv
<1>1. DocInit => SearchInv
  BY SearchInit DEF DocInit
<1>2. QED
  BY <1>1, SearchStep, PTL DEF DocSpec

(* Moving tokens one after the other, each search in the tree the moves     *)
(* before left (nonproj.go:20-38), never builds a cycle of heads, for a     *)
(* document of any length.                                                  *)
THEOREM DeprojectivizeStaysForest == DocSpec => []StaysForest
<1>1. SearchInv => StaysForest
  BY DEF SearchInv
<1>2. QED
  BY <1>1, SearchInvariant, PTL
-----------------------------------------------------------------------------
(* h and the tokens below it are the least set with h and its tokens' children. *)
LEMMA BelowLeast ==
  ASSUME TypeOK, NEW h \in Tokens
  PROVE  LET R == {h} \union Below(h)
         IN  /\ R \subseteq Tokens /\ HasChildren(R)
             /\ \A X \in SUBSET Tokens : h \in X /\ HasChildren(X) => R \subseteq X
             /\ \A x \in R \ {h} : head[x] \in R /\ head[x] # x
<1> DEFINE R == {h} \union Below(h)
<1>1. R \subseteq Tokens
  BY DEF Below
<1>2. ASSUME NEW X \in SUBSET Tokens, h \in X, HasChildren(X) PROVE R \subseteq X
  BY <1>2 DEF Below
<1>3. HasChildren(R)
  <2>1. ASSUME NEW c \in Tokens, head[c] \in R, c # h PROVE c \in Below(h)
    <3>1. ASSUME NEW X \in SUBSET Tokens, h \in X, HasChildren(X) PROVE c \in X
      <4>1. head[c] \in X
        BY <3>1, <2>1, <1>2
      <4>2. QED
        BY <4>1, <3>1, <2>1 DEF HasChildren
    <3>2. QED
      BY <2>1, <3>1 DEF Below
  <2>2. QED
    BY <2>1 DEF HasChildren
<1>4. ASSUME NEW x \in R \ {h}, head[x] \notin R \/ head[x] = x PROVE FALSE
  <2> DEFINE X == R \ {x}
  <2>1. HasChildren(X)
    BY <1>3, <1>4 DEF HasChildren
  <2>2. X \in SUBSET Tokens /\ h \in X /\ x \notin X
    BY <1>1
  <2> HIDE DEF X, R
  <2>3. R \subseteq X
    BY <1>2, <2>1, <2>2
  <2>4. QED
    BY <2>2, <2>3
<1>5. QED
  BY <1>1, <1>2, <1>3, <1>4

(* In a forest the head of a token is not below it.                         *)
LEMMA HeadNotBelow ==
  ASSUME TypeOK, StaysForest, NEW h \in Tokens, head[h] # h
  PROVE  head[h] \notin {h} \union Below(h)
<1> DEFINE R == {h} \union Below(h)
<1>1. R \subseteq Tokens /\ \A x \in R \ {h} : head[x] \in R /\ head[x] # x
  BY BelowLeast
<1>2. R # {} /\ h \in R
  OBVIOUS
<1> HIDE DEF R
<1>3. \E t \in R : head[t] = t \/ head[t] \notin R
  BY <1>1, <1>2, ForestSets DEF StaysForest, TypeOK
<1>4. head[h] \notin R
  BY <1>1, <1>3
<1>5. QED
  BY <1>4 DEF R

(* What a search finds lies below the old head and not below the token.     *)
LEMMA FindMovesDown ==
  ASSUME SearchInv, pc = "search", NEW c \in Tokens \ {tok}, Visited(c),
         head[c] # c, Visited(head[c])
  PROVE  c \in Below(head[tok]) \ (Below(tok) \union {tok})
<1>1. TypeOK /\ StaysForest /\ tok \in Tokens /\ head[tok] \in Tokens /\ head[tok] # tok
  BY DEF SearchInv, TypeOK, RootsPlain
<1> DEFINE h == head[tok]
           R == {h} \union Below(h)
           D == {tok} \union Below(tok)
<1>2. R \subseteq Tokens /\ HasChildren(R)
  BY <1>1, BelowLeast
<1>3. c \in R /\ head[c] \in R
  <2>1. h \in R /\ Avoids(R)
    BY <1>2 DEF Avoids, HasChildren
  <2> HIDE DEF R
  <2>2. QED
    BY <2>1, <1>2 DEF Visited
<1>4. c # h
  <2> HIDE DEF R
  <2>1. SUFFICES ASSUME c = h PROVE FALSE
    OBVIOUS
  <2>2. head[h] # h /\ head[h] \in R
    BY <2>1, <1>3
  <2>3. QED
    BY <1>1, <2>2, HeadNotBelow DEF R
<1>5. h \notin D
  BY <1>1, HeadNotBelow
<1>6. \A x \in D \ {tok} : head[x] \in D
  BY <1>1, BelowLeast
<1>7. c \notin D
  <2> DEFINE Y == Tokens \ D
  <2> HIDE DEF D
  <2>1. Avoids(Y)
    BY <1>6 DEF Avoids
  <2>2. h \in Y
    BY <1>1, <1>5
  <2>3. c \in Y
    BY <2>1, <2>2 DEF Visited
  <2>4. QED
    BY <2>3
<1>8. QED
  BY <1>3, <1>4, <1>7

(* A step moves a token down or not at all.                                 *)
LEMMA StepMovesDown ==
  SearchInv /\ [DocNext]_docVars =>
    \A t \in Tokens : head'[t] # head[t] => head'[t] \in Below(head[t]) \ (Below(t) \union {t})
<1> SUFFICES ASSUME SearchInv, [DocNext]_docVars, NEW t \in Tokens, head'[t] # head[t]
             PROVE  head'[t] \in Below(head[t]) \ (Below(t) \union {t})
  OBVIOUS
<1>1. head \in [Tokens -> Tokens]
  BY DEF SearchInv, TypeOK
<1>2. CASE Find
  <2>1. pc = "search" /\ tok \in Tokens
    BY <1>2 DEF Find, SearchInv, TypeOK
  <2>2. PICK c \in Tokens \ {tok} : Visited(c) /\ Reattach(c) /\ head[c] # c /\ Visited(head[c])
    BY <1>2, FindTarget
  <2>3. head' = [head EXCEPT ![tok] = c]
    BY <2>2 DEF Reattach
  <2>4. t = tok /\ head'[t] = c
    BY <1>1, <2>1, <2>3
  <2>5. QED
    BY <2>1, <2>2, <2>4, FindMovesDown
<1>3. CASE GiveUp
  <2>1. head' = [head EXCEPT ![tok] = head[tok]]
    BY <1>3 DEF GiveUp, Reattach
  <2>2. QED
    BY <1>1, <2>1
<1>4. QED
  BY <1>2, <1>3 DEF DocNext, Deproject, Next, EnsureChildIdx, docVars, Skip, Search, Visit, Descend

(* A token only moves down (nonproj.go:63-70 skips the token itself): its   *)
(* new head is below the old one and not below the token, so it keeps its   *)
(* root.                                                                    *)
THEOREM DeprojectivizeMovesDown == DocSpec => MovesDown
<1>1. SearchInv /\ [DocNext]_docVars =>
        [\A t \in Tokens : head'[t] # head[t] =>
           head'[t] \in Below(head[t]) \ (Below(t) \union {t})]_vars
  BY StepMovesDown
<1>2. QED
  BY <1>1, SearchInvariant, PTL DEF DocSpec, MovesDown
-----------------------------------------------------------------------------
(* The tokens with a head before k: their number is where row k of the      *)
(* index starts.                                                            *)
Heads(k) == {t \in Tokens : head[t] # t /\ head[t] < k}

(* Row h of the index is as long as h has children.                         *)
LEMMA RowStartStep ==
  ASSUME TypeOK
  PROVE  /\ RowStart(0) = 0
         /\ \A h \in Tokens : RowStart(h) \in Nat /\ RowStart(h + 1) = RowStart(h) + Len(Children(h))
<1>1. head \in [Tokens -> Tokens] /\ \A t \in Tokens : head[t] \in Int /\ 0 <= head[t]
  BY DEF TypeOK, Tokens
<1>2. IsFiniteSet(Tokens)
  BY FS_Interval DEF Tokens
<1>3. \A k : RowStart(k) = Cardinality(Heads(k)) /\ Heads(k) \subseteq Tokens
  BY DEF RowStart, Heads
<1>4. \A k : IsFiniteSet(Heads(k)) /\ Cardinality(Heads(k)) \in Nat
  BY <1>2, <1>3, FS_Subset, FS_CardinalityType
<1>5. RowStart(0) = 0
  <2>1. \A t \in Tokens : ~(head[t] < 0)
    BY <1>1
  <2>2. Heads(0) = {}
    BY <2>1 DEF Heads
  <2>3. QED
    BY <1>3, <2>2, FS_EmptySet
<1>6. ASSUME NEW h \in Tokens
      PROVE  RowStart(h) \in Nat /\ RowStart(h + 1) = RowStart(h) + Len(Children(h))
  <2>1. h \in Int
    BY DEF Tokens
  <2>2. \A t \in Tokens : head[t] < h + 1 <=> head[t] < h \/ head[t] = h
    BY <1>1, <2>1
  <2>3. Heads(h + 1) = Heads(h) \union ChildSet(h)
    BY <2>2 DEF Heads, ChildSet
  <2>4. \A t \in Tokens : ~(head[t] < h /\ head[t] = h)
    BY <1>1, <2>1
  <2>5. Heads(h) \cap ChildSet(h) = {}
    BY <2>4 DEF Heads, ChildSet
  <2>6. IsFiniteSet(ChildSet(h)) /\ Len(Children(h)) = Cardinality(ChildSet(h))
    BY ChildrenList
  <2> DEFINE A == Heads(h)
             B == ChildSet(h)
  <2>7. Cardinality(A \union B) = Cardinality(A) + Cardinality(B) - Cardinality(A \cap B)
    <3>1. IsFiniteSet(A) /\ IsFiniteSet(B)
      BY <1>4, <2>6
    <3> HIDE DEF A, B
    <3>2. QED
      BY <3>1, FS_Union
  <2>8. Cardinality(A \cap B) = 0
    BY <2>5, FS_EmptySet
  <2>9. Cardinality(B) \in Nat /\ Cardinality(A) \in Nat
    BY <1>4, <2>6, FS_CardinalityType
  <2>10. Cardinality(A \union B) = Cardinality(A) + Cardinality(B)
    <3> HIDE DEF A, B
    <3> QED
      BY <2>7, <2>8, <2>9
  <2>11. QED
    BY <1>3, <2>3, <2>6, <2>9, <2>10
<1>7. QED
  BY <1>5, <1>6

(* A row of a current index holds the children of its token.                *)
LEMMA ChildrenFromRows ==
  ASSUME TypeOK, index = Rows
  PROVE  \A t \in Tokens : ChildrenOf(t) = Children(t)
<1> DEFINE seqs == [h \in 1..N |-> Children(h - 1)]
           flat(k) == FlattenSeq(SubSeq(seqs, 1, k))
           T == {k \in 0..N : Len(flat(k)) = RowStart(k)}
<1>1. seqs \in Seq(Seq(Tokens)) /\ Len(seqs) = N
  <2>1. \A h \in 1..N : Children(h - 1) \in Seq(Tokens)
    BY ChildrenList
  <2>2. QED
    BY <2>1
<1>2. index.childIdx = FlattenSeq(seqs) /\ \A k \in 0..N : index.childStart[k] = RowStart(k)
  BY DEF Rows
<1>3. \A k \in 1..N : seqs[k] = Children(k - 1)
  OBVIOUS
<1> HIDE DEF seqs
<1>4. 0 \in T
  <2>1. flat(0) = <<>>
    BY <1>1, FlattenType
  <2>2. Len(flat(0)) = 0
    BY <2>1
  <2>3. QED
    BY <2>2, RowStartStep
<1>5. ASSUME NEW k \in 1..N
      PROVE  /\ Len(flat(k - 1)) \in Nat /\ Len(flat(k)) = Len(flat(k - 1)) + Len(Children(k - 1))
             /\ SubSeq(FlattenSeq(seqs), Len(flat(k - 1)) + 1, Len(flat(k))) = Children(k - 1)
  BY <1>1, <1>3, FlattenPart
<1>6. ASSUME NEW k \in 0..(N - 1), k \in T PROVE k + 1 \in T
  <2>1. k \in Tokens /\ k + 1 \in 1..N /\ (k + 1) - 1 = k
    BY DEF Tokens
  <2>2. Len(flat(k + 1)) = Len(flat(k)) + Len(Children(k))
    BY <2>1, <1>5
  <2>3. RowStart(k + 1) = RowStart(k) + Len(Children(k))
    BY <2>1, RowStartStep
  <2>4. Len(flat(k + 1)) = RowStart(k + 1)
    BY <2>2, <2>3, <1>6
  <2>5. QED
    BY <2>1, <2>4
<1>7. 0..N \subseteq T
  <2> HIDE DEF T
  <2> QED
    BY <1>4, <1>6, InductionUpTo
<1>8. ASSUME NEW t \in Tokens PROVE ChildrenOf(t) = Children(t)
  <2>1. t + 1 \in 1..N /\ (t + 1) - 1 = t /\ t \in 0..N /\ t + 1 \in 0..N
    BY DEF Tokens
  <2>2. Len(flat(t)) = RowStart(t) /\ Len(flat(t + 1)) = RowStart(t + 1)
    BY <1>7, <2>1
  <2>3. SubSeq(FlattenSeq(seqs), Len(flat(t)) + 1, Len(flat(t + 1))) = Children(t)
    BY <1>5, <2>1
  <2>4. QED
    BY <1>2, <2>1, <2>2, <2>3 DEF ChildrenOf
<1>9. QED
  BY <1>8

(* SubtreeOf collects children level by level: after N levels nothing is    *)
(* missing.                                                                 *)
LEMMA SubtreeIsIterated ==
  ASSUME NEW t \in Tokens, \A c \in Tokens : ToSet(ChildrenOf(c)) \subseteq Tokens
  PROVE  \E f : /\ f[0] = {t}
                /\ \A k \in 1..N : f[k] = f[k - 1] \union UNION {ToSet(ChildrenOf(c)) : c \in f[k - 1]}
                /\ SubtreeOf(t) = InOrder(f[N])
<1> DEFINE D == SUBSET Tokens
           wider(R) == R \union UNION {ToSet(ChildrenOf(c)) : c \in R}
           Def(f) == [k \in 0..N |-> IF k = 0 THEN {t}
                        ELSE LET reached == f[k - 1]
                             IN reached \union UNION {ToSet(ChildrenOf(c)) : c \in reached}]
           G == [i \in 1..N |-> [R \in D |-> wider(R)]]
           F == CHOOSE f : f = Def(f)
<1>1. G \in [1..N -> [D -> D]]
  <2>1. \A R \in D : wider(R) \in D
    OBVIOUS
  <2> HIDE DEF wider, D
  <2>2. QED
    BY <2>1
<1>2. PICK f : IsIteration(f, N, D, {t}, G)
  <2>1. {t} \in D
    OBVIOUS
  <2> HIDE DEF G, D
  <2>2. QED
    BY <1>1, <2>1, Recursion
<1>3. f \in [0..N -> D] /\ f[0] = {t}
  BY <1>2 DEF IsIteration
<1>4. \A i \in 1..N : f[i] = wider(f[i - 1])
  <2> HIDE DEF wider, D
  <2> TAKE i \in 1..N
  <2>1. f[i - 1] \in D
    BY <1>3
  <2>2. f[i] = G[i][f[i - 1]]
    <3> HIDE DEF G
    <3> QED
      BY <1>2 DEF IsIteration
  <2>3. QED
    BY <2>1, <2>2
<1>5. f = Def(f)
  <2> DEFINE e(k) == IF k = 0 THEN {t} ELSE wider(f[k - 1])
  <2>1. \A k \in 0..N : f[k] = e(k)
    <3> HIDE DEF wider
    <3> TAKE k \in 0..N
    <3>1. CASE k = 0
      BY <3>1, <1>3
    <3>2. CASE k \in 1..N
      BY <3>2, <1>4
    <3>3. QED
      BY <3>1, <3>2
  <2>2. f = [k \in 0..N |-> f[k]]
    BY <1>3
  <2> HIDE DEF e
  <2>3. [k \in 0..N |-> f[k]] = [k \in 0..N |-> e(k)]
    BY <2>1
  <2>4. QED
    BY <2>2, <2>3 DEF e
<1>6. F = Def(F)
  <2> HIDE DEF Def
  <2> QED
    BY <1>5, Zenon
<1>7. SubtreeOf(t) = InOrder(F[N])
  BY DEF SubtreeOf
<1>8. \A k \in 0..N : F[k] = IF k = 0 THEN {t} ELSE wider(F[k - 1])
  <2> HIDE DEF F
  <2>1. \A k \in 0..N : Def(F)[k] = IF k = 0 THEN {t} ELSE wider(F[k - 1])
    OBVIOUS
  <2> HIDE DEF Def
  <2>2. QED
    BY <2>1, <1>6
<1> HIDE DEF F
<1>9. F[0] = {t} /\ \A k \in 1..N : F[k] = wider(F[k - 1])
  <2> HIDE DEF wider
  <2>1. F[0] = {t}
    BY <1>8
  <2>2. ASSUME NEW k \in 1..N PROVE F[k] = wider(F[k - 1])
    <3>1. k \in 0..N /\ k # 0
      OBVIOUS
    <3>2. QED
      BY <3>1, <1>8
  <2>3. QED
    BY <2>1, <2>2
<1>10. QED
  BY <1>7, <1>9

(* SubtreeOf(t) lists t and the tokens below t.                             *)
LEMMA SubtreeMembers ==
  ASSUME TypeOK, index = Rows, NEW t \in Tokens
  PROVE  Lists(SubtreeOf(t), {t} \union Below(t))
<1> DEFINE R == {t} \union Below(t)
           kids(X) == UNION {ToSet(ChildrenOf(c)) : c \in X}
<1>1. \A c \in Tokens : ToSet(ChildrenOf(c)) = ChildSet(c)
  <2> TAKE c \in Tokens
  <2>1. ChildrenOf(c) = Children(c)
    BY ChildrenFromRows
  <2>2. Lists(Children(c), ChildSet(c))
    BY ChildrenList
  <2>3. ToSet(Children(c)) = ChildSet(c)
    BY <2>2 DEF Lists, ToSet
  <2>4. QED
    BY <2>1, <2>3
<1>2. ASSUME NEW X \in SUBSET Tokens
      PROVE  kids(X) = {c \in Tokens : head[c] \in X /\ head[c] # c}
  <2>1. kids(X) = UNION {ChildSet(c) : c \in X}
    BY <1>1
  <2>2. QED
    BY <2>1 DEF ChildSet
<1> HIDE DEF kids
<1>3. /\ R \subseteq Tokens /\ HasChildren(R)
      /\ \A X \in SUBSET Tokens : t \in X /\ HasChildren(X) => R \subseteq X
  BY BelowLeast
<1> HIDE DEF R
<1>4. t \in R
  BY DEF R
<1>5. PICK f : /\ f[0] = {t}
               /\ \A k \in 1..N : f[k] = f[k - 1] \union kids(f[k - 1])
               /\ SubtreeOf(t) = InOrder(f[N])
  <2>1. \A c \in Tokens : ToSet(ChildrenOf(c)) \subseteq Tokens
    BY <1>1 DEF ChildSet
  <2>2. QED
    BY <2>1, SubtreeIsIterated DEF kids
<1>6. \A k \in 0..(N - 1) : f[k + 1] = f[k] \union kids(f[k])
  <2> TAKE k \in 0..(N - 1)
  <2>1. k + 1 \in 1..N /\ (k + 1) - 1 = k
    OBVIOUS
  <2>2. QED
    BY <2>1, <1>5
<1> DEFINE Grown(k) == /\ f[k] \subseteq R /\ t \in f[k]
                       /\ HasChildren(f[k]) \/ Cardinality(f[k]) > k
           T == {k \in 0..N : Grown(k)}
<1>7. 0 \in T
  <2>1. Cardinality({t}) = 1
    BY FS_Singleton
  <2>2. Grown(0)
    BY <1>4, <1>5, <2>1
  <2>3. QED
    BY <2>2
<1>8. IsFiniteSet(Tokens) /\ Cardinality(Tokens) = N
  BY FS_Interval DEF Tokens
<1>9. ASSUME NEW k \in 0..(N - 1), k \in T PROVE k + 1 \in T
  <2> DEFINE X == f[k]
             Y == f[k + 1]
  <2>1. X \subseteq R /\ t \in X /\ X \subseteq Tokens /\ (HasChildren(X) \/ Cardinality(X) > k)
    BY <1>3, <1>9
  <2>2. Y = X \union {c \in Tokens : head[c] \in X /\ head[c] # c}
    BY <1>2, <1>6, <2>1
  <2> HIDE DEF X, Y
  <2>3. Y \subseteq R
    BY <1>3, <2>1, <2>2 DEF HasChildren
  <2>4. HasChildren(Y) \/ Cardinality(Y) > k + 1
    <3>1. CASE HasChildren(X)
      <4>1. Y = X
        BY <3>1, <2>2 DEF HasChildren
      <4>2. QED
        BY <3>1, <4>1
    <3>2. CASE ~HasChildren(X)
      <4>1. X # Y
        <5>1. PICK c \in Tokens : head[c] \in X /\ c \notin X
          BY <3>2 DEF HasChildren
        <5>2. c \in Y
          BY <5>1, <2>2
        <5>3. QED
          BY <5>1, <5>2
      <4>2. X \subseteq Y /\ IsFiniteSet(Y)
        BY <1>3, <1>8, <2>2, <2>3, FS_Subset
      <4>3. IsFiniteSet(X) /\ Cardinality(X) <= Cardinality(Y) /\ Cardinality(X) # Cardinality(Y)
        BY <4>1, <4>2, FS_Subset
      <4>4. Cardinality(X) \in Nat /\ Cardinality(Y) \in Nat
        BY <4>2, <4>3, FS_CardinalityType
      <4>5. QED
        BY <2>1, <3>2, <4>3, <4>4
    <3>3. QED
      BY <3>1, <3>2
  <2>5. t \in Y
    BY <2>1, <2>2
  <2>6. Grown(k + 1)
    BY <2>3, <2>4, <2>5 DEF Y
  <2>7. k + 1 \in 0..N
    OBVIOUS
  <2>8. QED
    BY <2>6, <2>7
<1>10. Grown(N)
  <2> HIDE DEF Grown
  <2>1. 0..N \subseteq T
    <3> HIDE DEF T
    <3> QED
      BY <1>7, <1>9, InductionUpTo
  <2>2. QED
    BY <2>1
<1>11. HasChildren(f[N])
  <2>1. f[N] \subseteq Tokens
    BY <1>3, <1>10
  <2>2. Cardinality(f[N]) <= N /\ Cardinality(f[N]) \in Nat
    BY <2>1, <1>8, FS_Subset, FS_CardinalityType
  <2>3. QED
    BY <1>10, <2>2
<1>12. f[N] = R /\ R \in SUBSET Tokens
  BY <1>3, <1>10, <1>11
<1>13. Lists(InOrder(R), R)
  BY <1>12, InOrderLists
<1>14. QED
  BY <1>5, <1>12, <1>13 DEF R

(* The index is built when the last token has been read and no head changes *)
(* after that.                                                              *)
IndexCurrent == index # NoIndex => index = Rows /\ tok = N

(* So it never goes stale.                                                  *)
LEMMA IndexStep == SearchInv /\ IndexCurrent /\ [DocNext]_docVars => IndexCurrent'
<1> SUFFICES ASSUME SearchInv, IndexCurrent, [DocNext]_docVars
             PROVE  IndexCurrent'
  OBVIOUS
<1>1. CASE Deproject
  <2>1. index' = index
    BY <1>1 DEF Deproject
  <2>2. tok # N
    <3>1. tok < N \/ pc = "search"
      BY <1>1 DEF Deproject, Next, Skip, Search, Find, Visit, Descend, GiveUp
    <3>2. pc = "search" => tok \in Tokens
      BY DEF SearchInv, TypeOK
    <3>3. \A t \in Tokens : t # N
      BY DEF Tokens
    <3>4. tok < N => tok # N
      BY DEF SearchInv, TypeOK
    <3>5. QED
      BY <3>1, <3>2, <3>3, <3>4
  <2>3. QED
    BY <2>1, <2>2 DEF IndexCurrent
<1>2. CASE EnsureChildIdx
  <2>1. index' = Rows /\ tok' = N /\ head' = head
    BY <1>2 DEF EnsureChildIdx
  <2>2. Rows' = Rows
    BY <2>1 DEF Rows, RowStart, Children, ChildSet
  <2>3. QED
    BY <2>1, <2>2 DEF IndexCurrent
<1>3. CASE UNCHANGED docVars
  <2>1. index' = index /\ tok' = tok /\ head' = head
    BY <1>3 DEF docVars
  <2>2. Rows' = Rows
    BY <2>1 DEF Rows, RowStart, Children, ChildSet
  <2>3. QED
    BY <2>1, <2>2 DEF IndexCurrent
<1>4. QED
  BY <1>1, <1>2, <1>3 DEF DocNext

(* A current index gives the children and the subtrees of the heads.        *)
LEMMA ViewsAgree ==
  ASSUME SearchInv, IndexCurrent
  PROVE  ViewsFollowHeads
<1>1. SUFFICES ASSUME index # NoIndex, NEW t \in Tokens
               PROVE  ChildrenOf(t) = Children(t) /\ ToSet(SubtreeOf(t)) = {t} \union Below(t)
  BY DEF ViewsFollowHeads
<1>2. TypeOK /\ index = Rows
  BY <1>1 DEF SearchInv, IndexCurrent
<1>3. ChildrenOf(t) = Children(t)
  BY <1>2, ChildrenFromRows
<1>4. Lists(SubtreeOf(t), {t} \union Below(t))
  BY <1>2, SubtreeMembers
<1>5. ToSet(SubtreeOf(t)) = {t} \union Below(t)
  <2> DEFINE s == SubtreeOf(t)
             R == {t} \union Below(t)
  <2>1. s \in Seq(R) /\ \A x \in R : \E k \in 1..Len(s) : s[k] = x
    BY <1>4 DEF Lists
  <2> HIDE DEF s, R
  <2>2. ToSet(s) = R
    BY <2>1 DEF ToSet
  <2>3. QED
    BY <2>2 DEF s, R
<1>6. QED
  BY <1>3, <1>5

(* Children and subtrees read from the index that is built once             *)
(* (children.go:14-53) are those of the heads, for a document of any        *)
(* length: the index is never older than the last move.                     *)
THEOREM ViewsStayTrue == DocSpec => []ViewsFollowHeads
<1>1. DocInit => IndexCurrent
  BY DEF DocInit, IndexCurrent
<1>2. SearchInv /\ IndexCurrent => ViewsFollowHeads
  BY ViewsAgree
<1>3. QED
  BY <1>1, <1>2, IndexStep, SearchInvariant, PTL DEF DocSpec
-----------------------------------------------------------------------------
(* No sentence starts between x and y.                                      *)
SameSentence(x, y) == \A s \in sentStarts : s <= x <=> s <= y

(* Heads lie in the sentence of their token.                                *)
HeadsInSentence ==
  /\ sentStarts \subseteq Tokens
  /\ \A t \in Tokens : SameSentence(t, head[t])

(* A search never leaves the sentence of its token.                         *)
LEMMA VisitedInSentence ==
  ASSUME SearchInv, HeadsInSentence, tok \in Tokens, NEW c \in Tokens, Visited(c)
  PROVE  SameSentence(tok, c)
<1> DEFINE X == {x \in Tokens : SameSentence(tok, x)}
<1>1. head[tok] \in Tokens
  BY DEF SearchInv, TypeOK
<1>2. SameSentence(tok, head[tok])
  BY DEF HeadsInSentence
<1>3. Avoids(X)
  BY DEF Avoids, HeadsInSentence, SameSentence
<1>4. c \in X
  <2>1. X \in SUBSET Tokens /\ head[tok] \in X
    BY <1>1, <1>2
  <2> HIDE DEF X
  <2>2. QED
    BY <1>3, <2>1 DEF Visited
<1>5. QED
  BY <1>4

(* So no move leads out of a sentence.                                      *)
LEMMA SentenceStep == SearchInv /\ HeadsInSentence /\ [DocNext]_docVars => HeadsInSentence'
<1> SUFFICES ASSUME SearchInv, HeadsInSentence, [DocNext]_docVars
             PROVE  HeadsInSentence'
  OBVIOUS
<1>1. sentStarts' = sentStarts
  BY DEF DocNext, Deproject, EnsureChildIdx, docVars
<1>2. head \in [Tokens -> Tokens]
  BY DEF SearchInv, TypeOK
<1>3. CASE Find
  <2>1. tok \in Tokens
    BY <1>3 DEF Find, SearchInv, TypeOK
  <2>2. PICK c \in Tokens \ {tok} : Visited(c) /\ Reattach(c)
    BY <1>3, FindTarget
  <2>3. head' = [head EXCEPT ![tok] = c]
    BY <2>2 DEF Reattach
  <2>4. SameSentence(tok, c)
    BY <2>1, <2>2, VisitedInSentence
  <2>5. \A t \in Tokens : SameSentence(t, head'[t])
    BY <1>2, <2>1, <2>3, <2>4 DEF HeadsInSentence
  <2>6. QED
    BY <1>1, <2>5 DEF HeadsInSentence, SameSentence
<1>4. CASE head' = head
  BY <1>1, <1>4 DEF HeadsInSentence, SameSentence
<1>5. CASE GiveUp
  <2>1. head' = [head EXCEPT ![tok] = head[tok]]
    BY <1>5 DEF GiveUp, Reattach
  <2>2. head' = head
    BY <1>2, <2>1
  <2>3. QED
    BY <1>4, <2>2
<1>6. QED
  BY <1>3, <1>4, <1>5 DEF DocNext, Deproject, Next, EnsureChildIdx, docVars, Skip, Search, Visit, Descend

(* The parser's heads do not leave a sentence either.                       *)
LEMMA SentenceInit == ASSUME DocInit PROVE HeadsInSentence
<1>1. PICK p \in Parses : Start(p) /\ sentStarts = p.starts
  BY DEF DocInit
<1>2. /\ p.head \in [Tokens -> Tokens] /\ head = p.head
      /\ p.starts \subseteq Tokens /\ WithinSentences(Unrooted(p.head), p.starts)
  BY <1>1, ParsesAssumption, StartsAssumption DEF IsParse, Start
<1>3. ASSUME NEW t \in Tokens, NEW s \in sentStarts PROVE s <= t <=> s <= head[t]
  <2>1. t \in Int /\ s \in Int /\ head[t] \in Int /\ head[t] # NoHead
    <3>1. s \in Tokens /\ head[t] \in Tokens
      BY <1>1, <1>2
    <3>2. QED
      BY <3>1 DEF Tokens, NoHead
  <2>2. CASE head[t] = t
    BY <2>2
  <2>3. CASE head[t] # t
    <3> DEFINE h == Unrooted(p.head)
    <3>1. DOMAIN h = Tokens /\ h[t] = head[t]
      BY <1>2, <2>3 DEF Unrooted
    <3> HIDE DEF h
    <3>2. ~(Min2(t, head[t]) < s /\ s <= Max2(t, head[t]))
      BY <1>1, <1>2, <2>1, <3>1 DEF WithinSentences, h
    <3>3. QED
      BY <2>1, <3>2 DEF Min2, Max2
  <2>4. QED
    BY <2>2, <2>3
<1>4. QED
  BY <1>1, <1>2, <1>3 DEF HeadsInSentence, SameSentence

(* Two tokens without a sentence start between them lie in one sentence of  *)
(* Sents.                                                                   *)
LEMMA SentenceOf ==
  ASSUME HeadsInSentence, NEW a \in Tokens, NEW b \in Tokens, a <= b, SameSentence(a, b)
  PROVE  \E s \in ToSet(Sents) : s.start <= a /\ b + 1 <= s.end
<1> DEFINE S == sentStarts \union {0}
           starts == InOrder(S)
           n == Len(starts)
           I == {i \in 1..n : starts[i] <= a}
<1>1. S \in SUBSET Tokens /\ 0 \in S
  BY DEF HeadsInSentence, Tokens
<1>2. Lists(starts, S)
  <2> HIDE DEF S
  <2> QED
    BY <1>1, InOrderLists
<1>3. n \in Nat /\ \A i \in 1..n : starts[i] \in S /\ starts[i] \in Int
  <2>1. \A x \in S : x \in Int
    BY <1>1 DEF Tokens
  <2>2. starts \in Seq(S)
    BY <1>2 DEF Lists
  <2> HIDE DEF S, starts
  <2>3. QED
    BY <2>1, <2>2
<1>4. a \in Nat /\ b \in Nat /\ a + 1 <= N /\ b + 1 <= N
  BY DEF Tokens
<1>5. I # {} /\ I \in SUBSET (0..n)
  <2>1. PICK i \in 1..n : starts[i] = 0
    BY <1>1, <1>2 DEF Lists
  <2>2. i \in I
    BY <1>4, <2>1
  <2>3. QED
    BY <1>3, <2>2
<1>6. PICK i \in I : \A j \in I : j <= i
  <2> HIDE DEF I, n
  <2> QED
    BY <1>3, <1>5, Greatest
<1>7. i \in 1..n /\ starts[i] <= a
  BY <1>6
<1> DEFINE end == IF i = n THEN N ELSE starts[i + 1]
<1>8. b + 1 <= end
  <2>1. CASE i = n
    BY <1>4, <2>1
  <2>2. CASE i # n
    <3>1. i + 1 \in 1..n /\ ~(i + 1 <= i)
      BY <1>3, <1>7, <2>2
    <3>2. ~(starts[i + 1] <= a)
      BY <1>6, <3>1
    <3>3. starts[i + 1] \in sentStarts /\ starts[i + 1] \in Int
      <4>1. starts[i + 1] \in S /\ starts[i + 1] \in Int
        BY <1>3, <3>1
      <4>2. starts[i + 1] # 0
        BY <1>4, <3>2
      <4> HIDE DEF starts
      <4>3. QED
        BY <4>1, <4>2
    <3>4. ~(starts[i + 1] <= b)
      BY <3>2, <3>3 DEF SameSentence
    <3>5. QED
      BY <1>4, <2>2, <3>3, <3>4
  <2>3. QED
    BY <2>1, <2>2
<1>9. i \in DOMAIN Sents /\ Sents[i] = Span(starts[i], end)
  BY <1>7 DEF Sents
<1>10. Span(starts[i], end) \in ToSet(Sents)
  BY <1>9 DEF ToSet
<1>11. QED
  BY <1>7, <1>8, <1>10 DEF Span

(* The left edge of t: the first token of its subtree.                      *)
Edge(t) == SubtreeOf(t)[1]

(* The left edge is no later than the token and in its sentence.            *)
LEMMA EdgeInSentence ==
  ASSUME TypeOK, index = Rows, HeadsInSentence, NEW t \in Tokens
  PROVE  Edge(t) \in Tokens /\ Edge(t) <= t /\ SameSentence(Edge(t), t)
<1> DEFINE R == {t} \union Below(t)
           s == SubtreeOf(t)
           X == {x \in Tokens : SameSentence(x, t)}
<1>1. Lists(s, R)
  BY SubtreeMembers
<1>2. R \subseteq X
  <2>1. HasChildren(X)
    BY DEF HasChildren, HeadsInSentence, SameSentence
  <2>2. X \in SUBSET Tokens /\ t \in X
    BY DEF SameSentence
  <2> HIDE DEF X
  <2>3. QED
    BY <2>1, <2>2, BelowLeast
<1> HIDE DEF R, s, X
<1>3. s \in Seq(R) /\ Len(s) \in Nat
  BY <1>1 DEF Lists
<1>4. PICK i \in 1..Len(s) : s[i] = t
  BY <1>1 DEF Lists, R
<1>5. 1 \in 1..Len(s)
  BY <1>3
<1>6. s[1] \in R
  BY <1>3, <1>5
<1>7. s[1] \in Tokens /\ SameSentence(s[1], t)
  BY <1>2, <1>6 DEF X
<1>8. s[1] <= t
  <2>1. s[1] \in Int /\ t \in Int
    BY <1>7 DEF Tokens
  <2>2. CASE i = 1
    BY <1>4, <2>1, <2>2
  <2>3. CASE i # 1
    <3>1. 1 < i
      BY <2>3
    <3>2. s[1] < s[i]
      BY <1>1, <1>5, <3>1 DEF Lists
    <3>3. QED
      BY <1>4, <2>1, <3>2
  <2>4. QED
    BY <2>2, <2>3
<1>9. QED
  BY <1>7, <1>8 DEF Edge, s

(* A noun chunk.                                                            *)
ChunkSpan == [start : Tokens, end : 1..N]

(* What NounChunks carries from token to token.                             *)
Pass == [prevEnd : -1..(N - 1), out : Seq(ChunkSpan)]

(* The pass makes a chunk of t.                                             *)
Takes(nominal, t, acc) == t \in nominal /\ IsNp(t) /\ ChunkFromEdge(Edge(t), acc.prevEnd)

(* NounChunks, one token.                                                   *)
PassStep(nominal, t, acc) ==
  IF Takes(nominal, t, acc)
  THEN [prevEnd |-> t, out |-> Append(acc.out, Span(Edge(t), t + 1))]
  ELSE acc

(* A step of the pass yields a pass.                                        *)
LEMMA PassStepType ==
  ASSUME NEW nominal, NEW t \in Tokens, NEW acc \in Pass, Edge(t) \in Tokens
  PROVE  PassStep(nominal, t, acc) \in Pass
<1>1. t \in -1..(N - 1) /\ t + 1 \in 1..N
  BY DEF Tokens
<1>2. Span(Edge(t), t + 1) \in ChunkSpan
  BY <1>1 DEF Span, ChunkSpan
<1>3. acc.out \in Seq(ChunkSpan)
  BY DEF Pass
<1>4. Append(acc.out, Span(Edge(t), t + 1)) \in Seq(ChunkSpan)
  BY <1>2, <1>3
<1>5. QED
  BY <1>1, <1>4 DEF PassStep, Pass

(* NounChunks(nominal) is what N steps of the pass have made.               *)
LEMMA ChunksAreIterated ==
  ASSUME NEW nominal, \A t \in Tokens : Edge(t) \in Tokens
  PROVE  \E f : /\ f[0] = [prevEnd |-> -1, out |-> <<>>]
                /\ \A k \in 1..N : f[k] = PassStep(nominal, k - 1, f[k - 1])
                /\ NounChunks(nominal) = f[N].out
<1> DEFINE D == Pass
           a == [prevEnd |-> -1, out |-> <<>>]
           step(i, d) == PassStep(nominal, i - 1, d)
           Def(f) == [k \in 0..N |->
              IF k = 0 THEN [prevEnd |-> -1, out |-> <<>>]
              ELSE LET t == k - 1
                       acc == f[k - 1]
                   IN IF t \in nominal /\ IsNp(t) /\ ChunkFromEdge(SubtreeOf(t)[1], acc.prevEnd)
                      THEN [prevEnd |-> t, out |-> Append(acc.out, Span(SubtreeOf(t)[1], t + 1))]
                      ELSE acc]
           G == [i \in 1..N |-> [d \in D |-> step(i, d)]]
           F == CHOOSE f : f = Def(f)
<1>1. G \in [1..N -> [D -> D]]
  <2>1. ASSUME NEW i \in 1..N, NEW d \in D PROVE step(i, d) \in D
    <3>1. i - 1 \in Tokens
      BY DEF Tokens
    <3>2. QED
      BY <3>1, PassStepType
  <2> HIDE DEF step, D
  <2>2. QED
    BY <2>1
<1>2. PICK f : IsIteration(f, N, D, a, G)
  <2>1. a \in D
    <3>1. -1 \in -1..(N - 1) /\ <<>> \in Seq(ChunkSpan)
      OBVIOUS
    <3>2. QED
      BY <3>1 DEF Pass
  <2> HIDE DEF G, D, a
  <2>2. QED
    BY <1>1, <2>1, Recursion
<1>3. f \in [0..N -> D] /\ f[0] = a
  <2> HIDE DEF D, a, G
  <2> QED
    BY <1>2 DEF IsIteration
<1>4. \A i \in 1..N : f[i] = step(i, f[i - 1])
  <2> HIDE DEF step, D, a
  <2> TAKE i \in 1..N
  <2>1. f[i - 1] \in D
    BY <1>3
  <2>2. f[i] = G[i][f[i - 1]]
    <3> HIDE DEF G
    <3> QED
      BY <1>2 DEF IsIteration
  <2>3. QED
    BY <2>1, <2>2
<1> DEFINE e(g, k) == IF k = 0 THEN a ELSE step(k, g[k - 1])
<1>5. ASSUME NEW g PROVE Def(g) = [k \in 0..N |-> e(g, k)]
  BY DEF PassStep, Takes, Edge
<1> HIDE DEF Def
<1>6. f = Def(f)
  <2> HIDE DEF step, a, D
  <2>1. \A k \in 0..N : f[k] = e(f, k)
    <3> TAKE k \in 0..N
    <3>1. CASE k = 0
      BY <3>1, <1>3
    <3>2. CASE k \in 1..N
      BY <3>2, <1>4
    <3>3. QED
      BY <3>1, <3>2
  <2>2. f = [k \in 0..N |-> f[k]]
    BY <1>3
  <2> HIDE DEF e
  <2>3. [k \in 0..N |-> f[k]] = [k \in 0..N |-> e(f, k)]
    BY <2>1
  <2>4. QED
    BY <2>2, <2>3, <1>5
<1>7. F = Def(F)
  BY <1>6, Zenon
<1>8. NounChunks(nominal) = F[N].out
  BY DEF NounChunks, Def
<1> HIDE DEF F
<1>9. \A k \in 0..N : F[k] = e(F, k)
  <2>1. Def(F) = [k \in 0..N |-> e(F, k)]
    BY <1>5
  <2> HIDE DEF e
  <2>2. QED
    BY <1>7, <2>1
<1>10. F[0] = a
  <2> HIDE DEF a, step
  <2>1. 0 \in 0..N
    OBVIOUS
  <2>2. QED
    BY <1>9, <2>1
<1>11. ASSUME NEW k \in 1..N PROVE F[k] = step(k, F[k - 1])
  <2> HIDE DEF a, step
  <2>1. k \in 0..N /\ k # 0
    OBVIOUS
  <2>2. QED
    BY <1>9, <2>1
<1>12. QED
  BY <1>8, <1>10, <1>11

(* After k tokens: the chunks are in order, none is empty or leaves a       *)
(* sentence, and for every nominal before k that qualifies a chunk ends     *)
(* behind its left edge and no later than itself.                           *)
PassInv(nominal, k, acc) ==
  /\ acc \in Pass /\ acc.prevEnd < k
  /\ acc.out = <<>> => acc.prevEnd = -1
  /\ acc.out # <<>> => acc.out[Len(acc.out)].end = acc.prevEnd + 1
  /\ \A i \in 1..Len(acc.out) :
       /\ acc.out[i].start < acc.out[i].end
       /\ SameSentence(acc.out[i].start, acc.out[i].end - 1)
       /\ i < Len(acc.out) => acc.out[i].end <= acc.out[i + 1].start
  /\ \A t \in nominal : t < k /\ IsNp(t) =>
       \E i \in 1..Len(acc.out) : Edge(t) < acc.out[i].end /\ acc.out[i].end <= t + 1

(* A token the pass makes a chunk of.                                       *)
LEMMA PassTakes ==
  ASSUME NEW nominal \in SUBSET Tokens, NEW k \in Tokens, NEW acc, PassInv(nominal, k, acc),
         Edge(k) \in Tokens, Edge(k) <= k, SameSentence(Edge(k), k),
         Takes(nominal, k, acc)
  PROVE  PassInv(nominal, k + 1, PassStep(nominal, k, acc))
<1> DEFINE out == acc.out
           n == Len(out)
           span == Span(Edge(k), k + 1)
           new == Append(out, span)
           res == PassStep(nominal, k, acc)
<1>1. acc \in Pass /\ out \in Seq(ChunkSpan) /\ n \in Nat /\ acc.prevEnd \in Int
  BY DEF PassInv, Pass
<1>2. res = [prevEnd |-> k, out |-> new] /\ res \in Pass
  BY <1>1, PassStepType DEF PassStep
<1>3. span.start = Edge(k) /\ span.end = k + 1 /\ span \in ChunkSpan
  <2>1. k + 1 \in 1..N
    BY DEF Tokens
  <2>2. QED
    BY <2>1 DEF Span, ChunkSpan
<1>4. k \in Nat /\ Edge(k) \in Nat /\ acc.prevEnd < Edge(k)
  BY DEF Tokens, Takes, ChunkFromEdge
<1>5. \A t \in nominal : t \in Nat /\ Edge(t) = Edge(t)
  BY DEF Tokens
<1> HIDE DEF span
<1>6. new \in Seq(ChunkSpan) /\ Len(new) = n + 1 /\ new[n + 1] = span /\ \A i \in 1..n : new[i] = out[i]
  BY <1>1, <1>3
<1>7. \A i \in 1..n : out[i] \in ChunkSpan /\ out[i].start \in Nat /\ out[i].end \in Nat
  <2>1. \A x \in ChunkSpan : x.start \in Tokens /\ x.end \in 1..N
    BY DEF ChunkSpan
  <2>2. Tokens \subseteq Nat /\ 1..N \subseteq Nat
    BY DEF Tokens
  <2>3. \A i \in 1..n : out[i] \in ChunkSpan
    BY <1>1
  <2>4. QED
    BY <2>1, <2>2, <2>3
<1> HIDE DEF new, res
<1>8. ASSUME NEW i \in 1..Len(new)
      PROVE  /\ new[i].start < new[i].end
             /\ SameSentence(new[i].start, new[i].end - 1)
             /\ i < Len(new) => new[i].end <= new[i + 1].start
  <2>1. CASE i = n + 1
    <3>1. (k + 1) - 1 = k /\ Edge(k) < k + 1 /\ ~(i < Len(new))
      BY <1>4, <1>6, <2>1, <1>1
    <3>2. QED
      BY <1>3, <1>6, <2>1, <3>1
  <2>2. CASE i \in 1..n
    <3>1. new[i] = out[i] /\ out[i].start < out[i].end /\ SameSentence(out[i].start, out[i].end - 1)
      BY <1>6, <2>2 DEF PassInv
    <3>2. CASE i < n
      <4>1. i + 1 \in 1..n /\ new[i + 1] = out[i + 1]
        BY <1>1, <1>6, <2>2, <3>2
      <4>2. QED
        BY <2>2, <3>1, <3>2, <4>1 DEF PassInv
    <3>3. CASE i = n
      <4>1. out # <<>>
        BY <1>1, <2>2
      <4>2. out[i].end = acc.prevEnd + 1
        BY <3>3, <4>1 DEF PassInv
      <4>3. new[i + 1].start = Edge(k)
        BY <1>3, <1>6, <3>3
      <4>4. QED
        BY <1>1, <1>4, <3>1, <4>2, <4>3
    <3>4. QED
      BY <1>1, <2>2, <3>2, <3>3
  <2>3. QED
    BY <1>1, <1>6, <2>1, <2>2
<1>9. ASSUME NEW t \in nominal, t < k + 1, IsNp(t)
      PROVE  \E i \in 1..Len(new) : Edge(t) < new[i].end /\ new[i].end <= t + 1
  <2>1. CASE t = k
    <3>1. n + 1 \in 1..Len(new) /\ new[n + 1].end = k + 1 /\ Edge(k) < k + 1 /\ k + 1 <= k + 1
      BY <1>1, <1>3, <1>4, <1>6
    <3>2. QED
      BY <2>1, <3>1
  <2>2. CASE t # k
    <3>1. t < k
      BY <1>4, <1>5, <1>9, <2>2
    <3>2. PICK i \in 1..n : Edge(t) < out[i].end /\ out[i].end <= t + 1
      BY <1>9, <3>1 DEF PassInv
    <3>3. i \in 1..Len(new) /\ new[i] = out[i]
      BY <1>1, <1>6, <3>2
    <3>4. QED
      BY <3>2, <3>3
  <2>3. QED
    BY <2>1, <2>2
<1>10. res.out = new /\ res.prevEnd = k /\ k < k + 1
  BY <1>2, <1>4
<1>11. new # <<>> /\ new[Len(new)].end = k + 1
  <2>1. Len(new) # 0
    BY <1>1, <1>6
  <2>2. QED
    BY <1>3, <1>6, <2>1
<1>12. PassInv(nominal, k + 1, res)
  <2>1. res \in Pass /\ res.prevEnd < k + 1
    BY <1>2, <1>10
  <2>2. res.out = <<>> => res.prevEnd = -1
    BY <1>10, <1>11
  <2>3. res.out # <<>> => res.out[Len(res.out)].end = res.prevEnd + 1
    BY <1>10, <1>11
  <2>4. QED
    BY <1>8, <1>9, <1>10, <2>1, <2>2, <2>3, Zenon DEF PassInv
<1>13. QED
  BY <1>12 DEF res

(* A token it passes over.                                                  *)
LEMMA PassPasses ==
  ASSUME NEW nominal \in SUBSET Tokens, NEW k \in Tokens, NEW acc, PassInv(nominal, k, acc),
         Edge(k) \in Tokens, ~Takes(nominal, k, acc)
  PROVE  PassInv(nominal, k + 1, acc)
<1> DEFINE out == acc.out
           n == Len(out)
<1>1. acc \in Pass /\ out \in Seq(ChunkSpan) /\ n \in Nat /\ acc.prevEnd \in Int /\ acc.prevEnd < k
  BY DEF PassInv, Pass
<1>2. k \in Nat /\ Edge(k) \in Nat /\ \A t \in nominal : t \in Nat
  BY DEF Tokens
<1>3. acc.prevEnd < k + 1
  BY <1>1, <1>2
<1>4. ASSUME NEW t \in nominal, t < k + 1, IsNp(t)
      PROVE  \E i \in 1..n : Edge(t) < out[i].end /\ out[i].end <= t + 1
  <2>1. CASE t = k
    <3>1. Edge(k) <= acc.prevEnd
      BY <1>1, <1>2, <1>4, <2>1 DEF Takes, ChunkFromEdge
    <3>2. out # <<>>
      BY <1>1, <1>2, <3>1 DEF PassInv
    <3>3. out[n].end = acc.prevEnd + 1 /\ n \in 1..n
      BY <1>1, <3>2 DEF PassInv
    <3>4. QED
      BY <1>1, <1>2, <2>1, <3>1, <3>3
  <2>2. CASE t # k
    <3>1. t < k
      BY <1>2, <1>4, <2>2
    <3>2. QED
      BY <1>4, <3>1 DEF PassInv
  <2>3. QED
    BY <2>1, <2>2
<1>5. QED
  BY <1>1, <1>3, <1>4 DEF PassInv

(* The chunks of the whole document.                                        *)
LEMMA ChunksFit ==
  ASSUME SearchInv, IndexCurrent, HeadsInSentence
  PROVE  ChunksFitSentences
<1>1. SUFFICES ASSUME index # NoIndex, NEW nominal \in NominalSets
               PROVE  LET chunks == NounChunks(nominal) IN
                        /\ \A i \in 1..Len(chunks) :
                             /\ chunks[i].start < chunks[i].end
                             /\ \E s \in ToSet(Sents) : s.start <= chunks[i].start /\ chunks[i].end <= s.end
                             /\ i < Len(chunks) => chunks[i].end <= chunks[i + 1].start
                        /\ \A t \in nominal : IsNp(t) =>
                             \E i \in 1..Len(chunks) : SubtreeOf(t)[1] < chunks[i].end /\ chunks[i].end <= t + 1
  BY DEF ChunksFitSentences
<1>2. TypeOK /\ index = Rows /\ nominal \in SUBSET Tokens
  BY <1>1, NominalAssumption DEF SearchInv, IndexCurrent
<1>3. \A t \in Tokens : Edge(t) \in Tokens /\ Edge(t) <= t /\ SameSentence(Edge(t), t)
  BY <1>2, EdgeInSentence
<1>4. PICK f : /\ f[0] = [prevEnd |-> -1, out |-> <<>>]
               /\ \A k \in 1..N : f[k] = PassStep(nominal, k - 1, f[k - 1])
               /\ NounChunks(nominal) = f[N].out
  BY <1>3, ChunksAreIterated
<1> DEFINE T == {k \in 0..N : PassInv(nominal, k, f[k])}
<1>5. 0 \in T
  <2>1. f[0].out = <<>> /\ f[0].prevEnd = -1 /\ Len(<<>>) = 0
    BY <1>4
  <2>2. f[0] \in Pass
    <3>1. -1 \in -1..(N - 1) /\ <<>> \in Seq(ChunkSpan)
      OBVIOUS
    <3>2. QED
      BY <1>4, <3>1 DEF Pass
  <2>3. \A t \in nominal : ~(t < 0)
    BY <1>2 DEF Tokens
  <2>4. PassInv(nominal, 0, f[0])
    BY <2>1, <2>2, <2>3 DEF PassInv
  <2>5. QED
    BY <2>4
<1>6. ASSUME NEW k \in 0..(N - 1), k \in T PROVE k + 1 \in T
  <2>1. k \in Tokens /\ k + 1 \in 0..N /\ k + 1 \in 1..N /\ (k + 1) - 1 = k
    BY DEF Tokens
  <2>2. f[k + 1] = PassStep(nominal, k, f[k])
    BY <1>4, <2>1
  <2>3. PassInv(nominal, k, f[k])
    BY <1>6
  <2>4. PassInv(nominal, k + 1, f[k + 1])
    <3>1. CASE Takes(nominal, k, f[k])
      BY <1>2, <1>3, <2>1, <2>2, <2>3, <3>1, PassTakes
    <3>2. CASE ~Takes(nominal, k, f[k])
      <4>1. f[k + 1] = f[k]
        BY <2>2, <3>2 DEF PassStep
      <4>2. QED
        BY <1>2, <1>3, <2>1, <2>3, <3>2, <4>1, PassPasses
    <3>3. QED
      BY <3>1, <3>2
  <2>5. QED
    BY <2>1, <2>4
<1>7. PassInv(nominal, N, f[N])
  <2>1. 0..N \subseteq T
    <3> HIDE DEF T
    <3> QED
      BY <1>5, <1>6, InductionUpTo
  <2>2. QED
    BY <2>1
<1> DEFINE chunks == NounChunks(nominal)
<1>8. chunks = f[N].out /\ chunks \in Seq(ChunkSpan)
  BY <1>4, <1>7 DEF PassInv, Pass
<1> HIDE DEF chunks
<1>9. ASSUME NEW i \in 1..Len(chunks)
      PROVE  /\ chunks[i].start < chunks[i].end
             /\ \E s \in ToSet(Sents) : s.start <= chunks[i].start /\ chunks[i].end <= s.end
             /\ i < Len(chunks) => chunks[i].end <= chunks[i + 1].start
  <2> DEFINE a == chunks[i].start
             b == chunks[i].end - 1
  <2>1. a < chunks[i].end /\ SameSentence(a, b) /\ (i < Len(chunks) => chunks[i].end <= chunks[i + 1].start)
    BY <1>7, <1>8 DEF PassInv
  <2>2. chunks[i] \in ChunkSpan
    BY <1>8
  <2>3. a \in Tokens /\ chunks[i].end \in 1..N
    BY <2>2 DEF ChunkSpan
  <2>4. b \in Tokens /\ a <= b /\ b + 1 = chunks[i].end
    BY <2>1, <2>3 DEF Tokens
  <2>5. \E s \in ToSet(Sents) : s.start <= a /\ b + 1 <= s.end
    <3> HIDE DEF a, b
    <3> QED
      BY <2>1, <2>3, <2>4, SentenceOf
  <2>6. QED
    BY <2>1, <2>4, <2>5
<1>10. ASSUME NEW t \in nominal, IsNp(t)
       PROVE  \E i \in 1..Len(chunks) : SubtreeOf(t)[1] < chunks[i].end /\ chunks[i].end <= t + 1
  <2>1. t < N
    BY <1>2 DEF Tokens
  <2>2. QED
    BY <1>7, <1>8, <1>10, <2>1 DEF PassInv, Edge
<1>11. QED
  BY <1>9, <1>10 DEF chunks

(* Noun chunks never overlap, come in order and lie in one sentence of the  *)
(* document each (noun_chunks.go:30-79, sents.go:14-33), for a document of  *)
(* any length, although deprojectivizing has moved heads after the parser   *)
(* set the sentence starts.                                                 *)
THEOREM ChunksStayInSentences == DocSpec => []ChunksFitSentences
<1>1. DocInit => IndexCurrent /\ HeadsInSentence
  BY SentenceInit DEF DocInit, IndexCurrent
<1>2. SearchInv /\ IndexCurrent /\ HeadsInSentence => ChunksFitSentences
  BY ChunksFit
<1>3. QED
  BY <1>1, <1>2, IndexStep, SentenceStep, SearchInvariant, PTL DEF DocSpec
=============================================================================
