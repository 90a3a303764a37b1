-------------------------- MODULE TokenizerProofs --------------------------
(***************************************************************************)
(* Proofs about the tokenizer, for texts of any length, any compiled        *)
(* patterns and any table of special cases that spell their keys: the tokens *)
(* tile the text at every point of both passes and the document spells it    *)
(* again, norms come from the table, and words the rules decide stay whole.  *)
(***************************************************************************)
EXTENDS Tokenizer, InductionProofs

-----------------------------------------------------------------------------
(* Tilings of a text t, apart from the state.                              *)

(* Tokens, stretches of a text, and where a token ends with its space.     *)
Token == [orth : Seq(Runes), idx : Nat, ws : BOOLEAN, norm : Seq(Runes)]
Cut(t, a, b) == SubSeq(t, a + 1, b)
After(tok) == EndOf(tok) + (IF tok.ws THEN 1 ELSE 0)

(* Where the first k of the tokens end, when they start at a.              *)
Reached(toks, a, k) == IF k = 0 THEN a ELSE After(toks[k])

(* A token of t that ends before b together with its space.                *)
Fits(t, tok, b) ==
  /\ tok.orth = Cut(t, tok.idx, EndOf(tok))
  /\ tok.ws => EndOf(tok) < b /\ t[EndOf(tok) + 1] = Space

(* Tokens that tile the runes of t from a to b.                            *)
Tiled(t, toks, a, b) ==
  /\ \A k \in 1..Len(toks) : toks[k].idx = Reached(toks, a, k - 1) /\ Fits(t, toks[k], b)
  /\ b = Reached(toks, a, Len(toks))

(* The tilings of the text are those TokensTile speaks of.                 *)
LEMMA TiledIsTiles ==
  ASSUME NEW toks \in Seq(Token), NEW a, NEW b
  PROVE  Tiles(toks, a, b) <=> Tiled(text, toks, a, b)
<1>1. DOMAIN toks = 1..Len(toks) /\ Len(toks) \in Nat
  OBVIOUS
<1>2. toks = <<>> <=> Len(toks) = 0
  OBVIOUS
<1>3. \A k \in 1..Len(toks) : k - 1 = 0 <=> k = 1
  BY <1>1
<1>4. QED
  BY <1>1, <1>2, <1>3 DEF Tiles, Tiled, Reached, After, Fits, Cut, Slice

(* Where a token and its space end.                                         *)
LEMMA TokenEnds ==
  ASSUME NEW tok \in Token
  PROVE  /\ EndOf(tok) \in Nat /\ After(tok) \in Nat /\ tok.idx \in Nat /\ tok.ws \in BOOLEAN
         /\ tok.orth \in Seq(Runes) /\ Len(tok.orth) \in Nat
         /\ EndOf(tok) = tok.idx + Len(tok.orth)
         /\ tok.idx <= EndOf(tok) /\ EndOf(tok) <= After(tok) /\ tok.idx <= After(tok)
         /\ After(tok) = IF tok.ws THEN EndOf(tok) + 1 ELSE EndOf(tok)
<1>1. tok.idx \in Nat /\ tok.orth \in Seq(Runes) /\ tok.ws \in BOOLEAN
  BY DEF Token
<1>2. Len(tok.orth) \in Nat
  BY <1>1
<1>3. QED
  BY <1>1, <1>2 DEF EndOf, After

(* The tokens of a tiling never go back.                                   *)
LEMMA ReachedGrows ==
  ASSUME NEW t, NEW toks \in Seq(Token), NEW a \in Nat, NEW b, Tiled(t, toks, a, b)
  PROVE  /\ \A k \in 0..Len(toks) : Reached(toks, a, k) \in Nat
         /\ \A k \in 0..Len(toks) : \A j \in 0..k : Reached(toks, a, j) <= Reached(toks, a, k)
         /\ \A k \in 1..Len(toks) : Reached(toks, a, k) = After(toks[k])
         /\ b \in Nat /\ a <= b
<1> DEFINE n == Len(toks)
           R(k) == Reached(toks, a, k)
           T == {k \in 0..n : R(k) \in Nat /\ \A j \in 0..k : R(j) <= R(k)}
<1>1. n \in Nat /\ \A k \in 1..n : toks[k] \in Token
  OBVIOUS
<1>2. R(0) = a /\ \A k \in 1..n : R(k) = After(toks[k])
  BY DEF Reached
<1>3. \A k \in 1..n : R(k) \in Nat /\ R(k - 1) <= R(k)
  <2> TAKE k \in 1..n
  <2>1. toks[k].idx = R(k - 1)
    BY DEF Tiled
  <2>2. toks[k] \in Token /\ R(k) = After(toks[k])
    BY <1>1, <1>2
  <2> HIDE DEF R
  <2>3. After(toks[k]) \in Nat /\ toks[k].idx <= After(toks[k])
    BY <2>2, TokenEnds, Zenon
  <2>4. QED
    BY <2>1, <2>2, <2>3
<1> HIDE DEF R, n
<1>4. 0 \in T
  BY <1>1, <1>2
<1>5. ASSUME NEW k \in 0..(n - 1), k \in T PROVE k + 1 \in T
  <2>1. k \in 0..n /\ k + 1 \in 1..n /\ (k + 1) - 1 = k /\ k + 1 \in 0..n
    BY <1>1
  <2>2. R(k + 1) \in Nat /\ R(k) <= R(k + 1) /\ R(k) \in Nat
    BY <1>3, <1>5, <2>1
  <2>3. ASSUME NEW j \in 0..(k + 1) PROVE R(j) <= R(k + 1)
    <3>1. CASE j = k + 1
      BY <3>1, <2>2
    <3>2. CASE j # k + 1
      <4>1. j \in 0..k
        BY <3>2, <2>1
      <4>2. j = 0 \/ j \in 1..n
        BY <4>1, <2>1, <1>1
      <4>3. R(j) <= R(k) /\ R(j) \in Nat
        BY <4>1, <4>2, <1>2, <1>3, <1>5
      <4>4. QED
        BY <4>3, <2>2
    <3>3. QED
      BY <3>1, <3>2
  <2>4. QED
    BY <2>1, <2>2, <2>3
<1>6. 0..n \subseteq T
  <2> HIDE DEF T
  <2> QED
    BY <1>1, <1>4, <1>5, InductionUpTo
<1>7. b = R(n)
  BY DEF Tiled, R, n
<1>8. n \in 0..n /\ 0 \in 0..n
  BY <1>1
<1>9. b \in Nat /\ a <= b
  BY <1>2, <1>6, <1>7, <1>8
<1>10. \A k \in 0..n : R(k) \in Nat /\ \A j \in 0..k : R(j) <= R(k)
  BY <1>6
<1>11. QED
  BY <1>2, <1>9, <1>10 DEF R, n

(* Two tilings that meet are one.                                          *)
LEMMA TiledJoin ==
  ASSUME NEW t, NEW x \in Seq(Token), NEW y \in Seq(Token), NEW a \in Nat, NEW b, NEW c,
         Tiled(t, x, a, b), Tiled(t, y, b, c)
  PROVE  x \o y \in Seq(Token) /\ Tiled(t, x \o y, a, c)
<1> DEFINE z == x \o y
           m == Len(x)
           n == Len(y)
<1>1. z \in Seq(Token) /\ Len(z) = m + n /\ m \in Nat /\ n \in Nat
  OBVIOUS
<1>2. (\A k \in 1..m : z[k] = x[k]) /\ \A k \in 1..n : z[m + k] = y[k]
  OBVIOUS
<1>3. b \in Nat /\ b = Reached(x, a, m)
  BY ReachedGrows DEF Tiled
<1>4. c \in Nat /\ b <= c /\ c = Reached(y, b, n)
  BY <1>3, ReachedGrows DEF Tiled
<1>5. \A k \in 1..m : x[k].idx = Reached(x, a, k - 1) /\ Fits(t, x[k], b) /\ x[k] \in Token
  BY DEF Tiled
<1>6. \A k \in 1..n : y[k].idx = Reached(y, b, k - 1) /\ Fits(t, y[k], c)
  BY DEF Tiled
<1> HIDE DEF z, m, n
<1>7. \A k \in 0..m : Reached(z, a, k) = Reached(x, a, k)
  BY <1>1, <1>2 DEF Reached
<1>8. ASSUME NEW k \in 0..n PROVE Reached(z, a, m + k) = Reached(y, b, k)
  <2>1. CASE k = 0
    <3>1. m + k = m /\ m \in 0..m
      BY <1>1, <2>1
    <3>2. Reached(z, a, m + k) = b
      BY <3>1, <1>3, <1>7
    <3>3. QED
      BY <3>2, <2>1 DEF Reached
  <2>2. CASE k # 0
    <3>1. k \in 1..n /\ m + k # 0
      BY <1>1, <2>2
    <3>2. QED
      BY <2>2, <3>1, <1>2 DEF Reached
  <2>3. QED
    BY <2>1, <2>2
<1>9. ASSUME NEW k \in 1..(m + n) PROVE z[k].idx = Reached(z, a, k - 1) /\ Fits(t, z[k], c)
  <2>1. CASE k <= m
    <3>1. k \in 1..m /\ k - 1 \in 0..m
      BY <1>1, <2>1
    <3>2. z[k] = x[k] /\ x[k].idx = Reached(x, a, k - 1) /\ Fits(t, x[k], b) /\ x[k] \in Token
      BY <3>1, <1>2, <1>5
    <3>3. EndOf(x[k]) \in Nat
      BY <3>2, TokenEnds
    <3>4. Fits(t, x[k], c)
      BY <3>2, <3>3, <1>3, <1>4 DEF Fits
    <3>5. QED
      BY <3>1, <3>2, <3>4, <1>7
  <2>2. CASE k > m
    <3> DEFINE l == k - m
    <3>1. l \in 1..n /\ k = m + l /\ l - 1 \in 0..n /\ k - 1 = m + (l - 1)
      BY <1>1, <2>2
    <3> HIDE DEF l
    <3>2. z[k] = y[l] /\ y[l].idx = Reached(y, b, l - 1) /\ Fits(t, y[l], c)
      BY <3>1, <1>2, <1>6
    <3>3. QED
      BY <3>1, <3>2, <1>8
  <2>3. QED
    BY <1>1, <2>1, <2>2
<1>10. c = Reached(z, a, m + n)
  BY <1>1, <1>4, <1>8
<1>11. Tiled(t, z, a, c)
  BY <1>1, <1>9, <1>10 DEF Tiled
<1>12. QED
  BY <1>1, <1>11 DEF z

(* A tiling can be cut behind any of its tokens.                           *)
LEMMA TiledSplit ==
  ASSUME NEW t, NEW x \in Seq(Token), NEW a \in Nat, NEW b, Tiled(t, x, a, b),
         NEW k \in 0..Len(x)
  PROVE  /\ SubSeq(x, 1, k) \in Seq(Token) /\ SubSeq(x, k + 1, Len(x)) \in Seq(Token)
         /\ Tiled(t, SubSeq(x, 1, k), a, Reached(x, a, k))
         /\ Tiled(t, SubSeq(x, k + 1, Len(x)), Reached(x, a, k), b)
<1> DEFINE n == Len(x)
           c == Reached(x, a, k)
           y == SubSeq(x, 1, k)
           z == SubSeq(x, k + 1, n)
<1>1. n \in Nat /\ k \in 0..n /\ k \in Nat
  OBVIOUS
<1>2. y \in Seq(Token) /\ Len(y) = k /\ \A j \in 1..k : y[j] = x[j]
  OBVIOUS
<1>3. z \in Seq(Token) /\ Len(z) = n - k /\ \A j \in 1..(n - k) : z[j] = x[k + j]
  OBVIOUS
<1>4. /\ b \in Nat /\ b = Reached(x, a, n)
      /\ \A j \in 0..n : Reached(x, a, j) \in Nat
      /\ \A m \in 0..n : \A j \in 0..m : Reached(x, a, j) <= Reached(x, a, m)
      /\ \A j \in 1..n : Reached(x, a, j) = After(x[j])
  BY ReachedGrows DEF Tiled
<1>5. \A j \in 1..n : x[j].idx = Reached(x, a, j - 1) /\ Fits(t, x[j], b) /\ x[j] \in Token
  BY DEF Tiled
<1> HIDE DEF n, y, z, c
<1>6. c \in Nat
  BY <1>1, <1>4 DEF c
<1>7. Tiled(t, y, a, c)
  <2>1. \A j \in 0..k : Reached(y, a, j) = Reached(x, a, j)
    BY <1>1, <1>2 DEF Reached
  <2>2. ASSUME NEW j \in 1..k PROVE y[j].idx = Reached(y, a, j - 1) /\ Fits(t, y[j], c)
    <3>1. j \in 1..n /\ j - 1 \in 0..k /\ j \in 0..k
      BY <1>1
    <3>2. y[j] = x[j] /\ x[j].idx = Reached(x, a, j - 1) /\ Fits(t, x[j], b) /\ x[j] \in Token
      BY <3>1, <1>2, <1>5
    <3>3. After(x[j]) <= c
      BY <3>1, <1>1, <1>4 DEF c
    <3>4. EndOf(x[j]) \in Nat /\ (x[j].ws => After(x[j]) = EndOf(x[j]) + 1)
      BY <3>2, TokenEnds
    <3>5. Fits(t, x[j], c)
      BY <3>2, <3>3, <3>4, <1>6 DEF Fits
    <3>6. QED
      BY <3>1, <3>2, <3>5, <2>1
  <2>3. c = Reached(y, a, k)
    BY <1>1, <2>1 DEF c
  <2>4. QED
    BY <1>2, <2>2, <2>3 DEF Tiled
<1>8. Tiled(t, z, c, b)
  <2>1. ASSUME NEW j \in 0..(n - k) PROVE Reached(z, c, j) = Reached(x, a, k + j)
    <3>1. CASE j = 0
      <4>1. k + j = k
        BY <1>1, <3>1
      <4>2. QED
        BY <4>1, <3>1 DEF Reached, c
    <3>2. CASE j # 0
      <4>1. j \in 1..(n - k) /\ k + j # 0
        BY <1>1, <3>2
      <4>2. QED
        BY <4>1, <3>2, <1>3 DEF Reached
    <3>3. QED
      BY <3>1, <3>2
  <2>2. ASSUME NEW j \in 1..(n - k) PROVE z[j].idx = Reached(z, c, j - 1) /\ Fits(t, z[j], b)
    <3>1. k + j \in 1..n /\ j - 1 \in 0..(n - k) /\ (k + j) - 1 = k + (j - 1)
      BY <1>1
    <3>2. z[j] = x[k + j] /\ x[k + j].idx = Reached(x, a, (k + j) - 1) /\ Fits(t, x[k + j], b)
      BY <3>1, <1>3, <1>5
    <3>3. QED
      BY <3>1, <3>2, <2>1
  <2>3. b = Reached(z, c, n - k)
    <3>1. n - k \in 0..(n - k) /\ k + (n - k) = n
      BY <1>1
    <3>2. QED
      BY <3>1, <2>1, <1>4
  <2>4. QED
    BY <1>3, <2>2, <2>3 DEF Tiled
<1>9. QED
  BY <1>2, <1>3, <1>7, <1>8 DEF y, z, c, n

(* No token and one token.                                                 *)
LEMMA TiledNone ==
  ASSUME NEW t, NEW a
  PROVE  <<>> \in Seq(Token) /\ Tiled(t, <<>>, a, a)
<1>1. Len(<<>>) = 0 /\ <<>> \in Seq(Token)
  OBVIOUS
<1>2. QED
  BY <1>1 DEF Tiled, Reached

(* The runes from a to b.                                                   *)
LEMMA CutType ==
  ASSUME NEW t \in Seq(Runes), NEW a \in Nat, NEW b \in Nat, a <= b, b <= Len(t)
  PROVE  Cut(t, a, b) \in Seq(Runes) /\ Len(Cut(t, a, b)) = b - a
BY DEF Cut

(* The piece from a to b tiles that stretch.                                *)
LEMMA TiledPiece ==
  ASSUME NEW a \in Nat, NEW b \in Nat, a <= b, b <= Len(text), text \in Seq(Runes)
  PROVE  /\ Piece(a, b) \in Token /\ ~Piece(a, b).ws /\ Piece(a, b).norm = NoNorm
         /\ Piece(a, b).idx = a /\ EndOf(Piece(a, b)) = b /\ Piece(a, b).orth = Cut(text, a, b)
         /\ <<Piece(a, b)>> \in Seq(Token)
         /\ Tiled(text, <<Piece(a, b)>>, a, b)
<1> DEFINE p == Piece(a, b)
<1>1. Slice(a, b) = Cut(text, a, b) /\ Cut(text, a, b) \in Seq(Runes) /\ Len(Cut(text, a, b)) = b - a
  BY CutType DEF Slice, Cut
<1>2. <<>> \in Seq(Runes)
  OBVIOUS
<1>3. p.orth = Cut(text, a, b) /\ p.idx = a /\ p.ws = FALSE /\ p.norm = NoNorm /\ p \in Token
  BY <1>1, <1>2 DEF Piece, Token, NoNorm
<1>4. EndOf(p) = b
  BY <1>1, <1>3 DEF EndOf
<1>5. After(p) = b
  BY <1>3, <1>4 DEF After
<1> HIDE DEF p
<1>6. <<p>> \in Seq(Token) /\ Len(<<p>>) = 1 /\ <<p>>[1] = p
  BY <1>3
<1>7. Fits(text, p, b)
  BY <1>3, <1>4 DEF Fits
<1>8. Tiled(text, <<p>>, a, b)
  <2>1. \A k \in 1..1 : k = 1 /\ k - 1 = 0
    OBVIOUS
  <2>2. QED
    BY <1>3, <1>5, <1>6, <1>7, <2>1 DEF Tiled, Reached
<1>9. QED
  BY <1>3, <1>4, <1>6, <1>8 DEF p

(* A space after the last token becomes its flag.                          *)
LEMMA TiledFlag ==
  ASSUME NEW t, NEW x \in Seq(Token), NEW a \in Nat, NEW b, Tiled(t, x, a, b),
         x # <<>>, ~x[Len(x)].ws, t[b + 1] = Space
  PROVE  /\ [x EXCEPT ![Len(x)].ws = TRUE] \in Seq(Token)
         /\ Tiled(t, [x EXCEPT ![Len(x)].ws = TRUE], a, b + 1)
<1> DEFINE n == Len(x)
           last == [x[n] EXCEPT !.ws = TRUE]
           z == [x EXCEPT ![n].ws = TRUE]
<1>1. n \in Nat /\ n \in 1..n /\ \A k \in 1..n : x[k] \in Token
  OBVIOUS
<1>2. b \in Nat /\ b = Reached(x, a, n)
  BY ReachedGrows DEF Tiled
<1>3. \A k \in 1..n : x[k].idx = Reached(x, a, k - 1) /\ Fits(t, x[k], b)
  BY DEF Tiled
<1>4. last \in Token /\ last.ws = TRUE /\ last.orth = x[n].orth /\ last.idx = x[n].idx
  BY <1>1 DEF Token
<1>5. z = [k \in 1..n |-> IF k = n THEN last ELSE x[k]]
  <2>1. DOMAIN x = 1..n
    OBVIOUS
  <2>2. z = [k \in DOMAIN x |-> IF k = n THEN last ELSE x[k]]
    <3> HIDE DEF n
    <3> QED
      BY <1>1, Zenon
  <2> HIDE DEF n, last, z
  <2>3. QED
    BY <2>1, <2>2
<1> HIDE DEF n, z, last
<1>6. z \in Seq(Token) /\ Len(z) = n /\ z[n] = last /\ \A k \in 1..(n - 1) : z[k] = x[k]
  <2>1. \A k \in 1..n : (IF k = n THEN last ELSE x[k]) \in Token
    BY <1>1, <1>4
  <2>2. QED
    BY <1>1, <1>5, <2>1
<1>7. EndOf(last) = b /\ After(last) = b + 1
  <2>1. EndOf(last) = EndOf(x[n])
    BY <1>4 DEF EndOf
  <2>2. b = After(x[n])
    BY <1>1, <1>2 DEF Reached
  <2>3. After(x[n]) = EndOf(x[n])
    <3>1. x[n] \in Token /\ ~x[n].ws
      BY <1>1 DEF n
    <3>2. QED
      BY <3>1, TokenEnds, Zenon
  <2>4. QED
    BY <1>4, <2>1, <2>2, <2>3 DEF After
<1>8. \A k \in 0..(n - 1) : Reached(z, a, k) = Reached(x, a, k)
  BY <1>1, <1>6 DEF Reached
<1>9. ASSUME NEW k \in 1..n PROVE z[k].idx = Reached(z, a, k - 1) /\ Fits(t, z[k], b + 1)
  <2>1. k - 1 \in 0..(n - 1) /\ x[k].idx = Reached(x, a, k - 1) /\ Fits(t, x[k], b) /\ x[k] \in Token
    BY <1>1, <1>3
  <2>2. CASE k = n
    <3>1. last.orth = Cut(t, last.idx, EndOf(last))
      <4>1. EndOf(last) = EndOf(x[n])
        BY <1>4 DEF EndOf
      <4>2. QED
        BY <4>1, <1>4, <2>1, <2>2 DEF Fits
    <3>2. Fits(t, last, b + 1)
      BY <3>1, <1>2, <1>7 DEF Fits
    <3>3. QED
      BY <3>2, <2>1, <2>2, <1>4, <1>6, <1>8
  <2>3. CASE k # n
    <3>1. z[k] = x[k]
      BY <1>1, <1>6, <2>3
    <3>2. EndOf(x[k]) \in Nat
      BY <2>1, TokenEnds
    <3>3. Fits(t, x[k], b + 1)
      BY <2>1, <3>2, <1>2 DEF Fits
    <3>4. QED
      BY <2>1, <3>1, <3>3, <1>8
  <2>4. QED
    BY <2>2, <2>3
<1>10. b + 1 = Reached(z, a, n)
  BY <1>1, <1>6, <1>7 DEF Reached
<1>11. Tiled(t, z, a, b + 1)
  BY <1>6, <1>9, <1>10 DEF Tiled
<1>12. QED
  BY <1>6, <1>11 DEF z, n

-----------------------------------------------------------------------------
(* Sequences: reversal and stretches of a text.                            *)

(* Reverse, element by element.                                             *)
LEMMA ReverseFacts ==
  ASSUME NEW S, NEW s \in Seq(S), NEW x \in S
  PROVE  /\ Reverse(s) \in Seq(S) /\ Len(Reverse(s)) = Len(s)
         /\ \A k \in 1..Len(s) : Reverse(s)[k] = s[Len(s) - k + 1]
         /\ Reverse(Append(s, x)) = <<x>> \o Reverse(s)
<1> DEFINE n == Len(s)
           r == Reverse(s)
           u == Append(s, x)
           v == Reverse(u)
           w == <<x>> \o r
<1>1. n \in Nat
  OBVIOUS
<1>2. r = [k \in 1..n |-> s[(n - k) + 1]] /\ \A k \in 1..n : s[(n - k) + 1] \in S
  BY DEF Reverse
<1> HIDE DEF r
<1>3. r \in Seq(S) /\ Len(r) = n /\ \A k \in 1..n : r[k] = s[n - k + 1]
  BY <1>1, <1>2
<1>4. u \in Seq(S) /\ Len(u) = n + 1 /\ u[n + 1] = x /\ \A k \in 1..n : u[k] = s[k]
  OBVIOUS
<1>5. v = [k \in 1..Len(u) |-> u[(Len(u) - k) + 1]]
  BY DEF Reverse
<1>6. w \in Seq(S) /\ Len(w) = n + 1 /\ w[1] = x /\ \A k \in 1..n : w[k + 1] = r[k]
  BY <1>3
<1> HIDE DEF u, v, w
<1>7. v = [k \in 1..(n + 1) |-> u[((n + 1) - k) + 1]]
  BY <1>4, <1>5
<1>8. ASSUME NEW k \in 1..(n + 1) PROVE u[((n + 1) - k) + 1] = w[k]
  <2>1. CASE k = 1
    <3>1. ((n + 1) - k) + 1 = n + 1
      BY <1>1, <2>1
    <3>2. QED
      BY <3>1, <2>1, <1>4, <1>6
  <2>2. CASE k # 1
    <3> DEFINE j == k - 1
    <3>1. j \in 1..n /\ k = j + 1 /\ ((n + 1) - k) + 1 = n - j + 1 /\ n - j + 1 \in 1..n
      BY <1>1, <2>2
    <3> HIDE DEF j
    <3>2. w[k] = s[n - j + 1]
      BY <3>1, <1>3, <1>6
    <3>3. QED
      BY <3>1, <3>2, <1>4
  <2>3. QED
    BY <2>1, <2>2
<1>9. v = w
  <2>1. w = [k \in 1..(n + 1) |-> w[k]]
    BY <1>6
  <2>2. [k \in 1..(n + 1) |-> u[((n + 1) - k) + 1]] = [k \in 1..(n + 1) |-> w[k]]
    BY <1>8
  <2>3. QED
    BY <1>7, <2>1, <2>2, Zenon
<1>10. QED
  BY <1>3, <1>9 DEF r, u, v, w

(* A sequence something was appended to is not empty.                       *)
LEMMA AppendNotNone ==
  ASSUME NEW S, NEW s \in Seq(S), NEW x \in S
  PROVE  Append(s, x) # <<>>
<1>1. Len(Append(s, x)) = Len(s) + 1 /\ Len(s) \in Nat /\ Len(<<>>) = 0
  OBVIOUS
<1>2. Len(Append(s, x)) # Len(<<>>)
  BY <1>1
<1>3. QED
  BY <1>2, Zenon

(* The empty sequence reversed.                                             *)
LEMMA ReverseNone == Reverse(<<>>) = <<>>
<1>1. \A s \in Seq({}) : Reverse(s) \in Seq({})
  BY DEF Reverse
<1>2. <<>> \in Seq({})
  OBVIOUS
<1>3. Reverse(<<>>) \in Seq({})
  BY <1>1, <1>2
<1>4. \A s \in Seq({}) : s = <<>>
  OBVIOUS
<1>5. QED
  BY <1>3, <1>4

(* Neighbouring stretches join.                                             *)
LEMMA CutJoin ==
  ASSUME NEW t \in Seq(Runes), NEW a \in Nat, NEW b \in Nat, NEW c \in Nat,
         a <= b, b <= c, c <= Len(t)
  PROVE  Cut(t, a, b) \o Cut(t, b, c) = Cut(t, a, c)
<1> DEFINE x == Cut(t, a, b)
           y == Cut(t, b, c)
           z == Cut(t, a, c)
           w == x \o y
<1>1. x \in Seq(Runes) /\ Len(x) = b - a /\ \A k \in 1..(b - a) : x[k] = t[a + k]
  BY DEF Cut
<1>2. y \in Seq(Runes) /\ Len(y) = c - b /\ \A k \in 1..(c - b) : y[k] = t[b + k]
  BY DEF Cut
<1>3. z \in Seq(Runes) /\ Len(z) = c - a /\ \A k \in 1..(c - a) : z[k] = t[a + k]
  BY DEF Cut
<1> HIDE DEF x, y, z
<1>4. /\ w \in Seq(Runes) /\ Len(w) = c - a
      /\ \A k \in 1..(b - a) : w[k] = x[k]
      /\ \A k \in 1..(c - b) : w[(b - a) + k] = y[k]
  <2>1. /\ w \in Seq(Runes) /\ Len(w) = Len(x) + Len(y)
        /\ \A k \in 1..Len(x) : w[k] = x[k]
        /\ \A k \in 1..Len(y) : w[Len(x) + k] = y[k]
    <3>1. x \in Seq(Runes) /\ y \in Seq(Runes)
      BY <1>1, <1>2
    <3>2. QED
      BY <3>1
  <2> HIDE DEF w
  <2>2. QED
    BY <2>1, <1>1, <1>2
<1> HIDE DEF w
<1>5. ASSUME NEW k \in 1..(c - a) PROVE w[k] = z[k]
  <2>1. CASE k <= b - a
    <3>1. k \in 1..(b - a)
      BY <2>1
    <3>2. w[k] = x[k] /\ x[k] = t[a + k] /\ z[k] = t[a + k]
      BY <3>1, <1>1, <1>3, <1>4
    <3>3. QED
      BY <3>2
  <2>2. CASE k > b - a
    <3> DEFINE j == k - (b - a)
    <3>1. j \in 1..(c - b) /\ (b - a) + j = k /\ b + j = a + k
      BY <2>2
    <3> HIDE DEF j
    <3>2. w[k] = t[a + k]
      BY <3>1, <1>2, <1>4
    <3>3. QED
      BY <3>2, <1>3
  <2>3. QED
    BY <2>1, <2>2
<1>6. w = z
  <2>1. w = [k \in 1..(c - a) |-> w[k]] /\ z = [k \in 1..(c - a) |-> z[k]]
    BY <1>3, <1>4
  <2>2. [k \in 1..(c - a) |-> w[k]] = [k \in 1..(c - a) |-> z[k]]
    BY <1>5
  <2>3. QED
    BY <2>1, <2>2, Zenon
<1>7. QED
  BY <1>6 DEF w, x, y, z

(* The runes of a stretch.                                                 *)
LEMMA CutRunes ==
  ASSUME NEW t \in Seq(Runes), NEW a \in Nat, NEW l \in Nat, a + l <= Len(t)
  PROVE  /\ Cut(t, a, a + l) \in Seq(Runes) /\ Len(Cut(t, a, a + l)) = l
         /\ \A k \in 1..l : Cut(t, a, a + l)[k] = t[a + k]
BY DEF Cut

(* A string that stands at a in t is the stretch of its length there.       *)
LEMMA CutUnique ==
  ASSUME NEW t \in Seq(Runes), NEW a \in Nat, NEW l \in Nat, a + l <= Len(t),
         NEW x \in Seq(Runes), Len(x) = l, \A k \in 1..l : x[k] = t[a + k]
  PROVE  x = Cut(t, a, a + l)
<1> DEFINE z == Cut(t, a, a + l)
<1>1. z \in Seq(Runes) /\ Len(z) = l /\ \A k \in 1..l : z[k] = t[a + k]
  BY CutRunes
<1> HIDE DEF z
<1>2. x = [k \in 1..l |-> x[k]] /\ z = [k \in 1..l |-> z[k]]
  BY <1>1
<1>3. [k \in 1..l |-> x[k]] = [k \in 1..l |-> z[k]]
  BY <1>1
<1>4. x = z
  BY <1>2, <1>3, Zenon
<1>5. QED
  BY <1>4 DEF z

(* A stretch from a to a.                                                   *)
LEMMA CutNone ==
  ASSUME NEW t \in Seq(Runes), NEW a \in Nat, a <= Len(t)
  PROVE  Cut(t, a, a) = <<>> /\ Cut(t, 0, Len(t)) = t
<1>1. Cut(t, a, a) \in Seq(Runes) /\ Len(Cut(t, a, a)) = 0
  BY CutType
<1>2. Len(t) \in Nat /\ SubSeq(t, 1, Len(t)) = t
  OBVIOUS
<1>3. QED
  BY <1>1, <1>2 DEF Cut

(* The strings of a list of pieces or tokens.                               *)
LEMMA OrthsType ==
  ASSUME NEW x \in Seq(Token)
  PROVE  Orths(x) \in Seq(Seq(Runes)) /\ Len(Orths(x)) = Len(x)
         /\ \A k \in 1..Len(x) : Orths(x)[k] = x[k].orth
<1>1. DOMAIN x = 1..Len(x) /\ Len(x) \in Nat /\ \A k \in 1..Len(x) : x[k] \in Token
  OBVIOUS
<1>2. \A k \in 1..Len(x) : x[k].orth \in Seq(Runes)
  BY <1>1, TokenEnds
<1>3. Orths(x) = [k \in 1..Len(x) |-> x[k].orth]
  BY <1>1 DEF Orths
<1>4. QED
  BY <1>1, <1>2, <1>3

(* Tokens with no space between them spell the text they tile.             *)
LEMMA TiledSpells ==
  ASSUME NEW t \in Seq(Runes), NEW x \in Seq(Token), NEW a \in Nat, NEW b, Tiled(t, x, a, b),
         b <= Len(t), x # <<>>, \A k \in 1..(Len(x) - 1) : ~x[k].ws
  PROVE  FlattenSeq(Orths(x)) = Cut(t, a, EndOf(x[Len(x)]))
<1> DEFINE n == Len(x)
           o == Orths(x)
           flat(k) == FlattenSeq(SubSeq(o, 1, k))
           E(k) == IF k = 0 THEN a ELSE EndOf(x[k])
           T == {k \in 0..n : flat(k) = Cut(t, a, E(k))}
<1>1. n \in Nat \ {0} /\ Len(t) \in Nat /\ \A k \in 1..n : x[k] \in Token
  OBVIOUS
<1>2. o \in Seq(Seq(Runes)) /\ Len(o) = n /\ \A k \in 1..n : o[k] = x[k].orth
  BY OrthsType
<1> HIDE DEF o
<1>3. flat(0) = <<>> /\ flat(n) = FlattenSeq(o)
  BY <1>2, FlattenType
<1>4. \A k \in 1..n : flat(k) = flat(k - 1) \o x[k].orth
  <2> TAKE k \in 1..n
  <2>1. k \in 1..Len(o)
    BY <1>2
  <2>2. flat(k) = flat(k - 1) \o o[k]
    BY <2>1, <1>2, FlattenStep
  <2>3. QED
    BY <2>2, <1>2
<1>5. /\ b \in Nat
      /\ \A k \in 0..n : Reached(x, a, k) \in Nat
      /\ \A k \in 1..n : Reached(x, a, k) = After(x[k])
      /\ \A m \in 0..n : \A k \in 0..m : Reached(x, a, k) <= Reached(x, a, m)
      /\ b = Reached(x, a, n)
  BY ReachedGrows DEF Tiled
<1>6. \A k \in 1..n : /\ EndOf(x[k]) \in Nat /\ EndOf(x[k]) <= After(x[k]) /\ After(x[k]) \in Nat
                      /\ ~x[k].ws => After(x[k]) = EndOf(x[k])
                      /\ x[k].idx <= EndOf(x[k]) /\ x[k].idx \in Nat
  BY <1>1, TokenEnds
<1>7. \A k \in 1..n : x[k].idx = Reached(x, a, k - 1) /\ x[k].orth = Cut(t, x[k].idx, EndOf(x[k]))
  BY DEF Tiled, Fits
<1> HIDE DEF n, flat
<1>8. \A k \in 0..(n - 1) : Reached(x, a, k) = E(k)
  <2> TAKE k \in 0..(n - 1)
  <2>1. CASE k = 0
    BY <2>1 DEF Reached
  <2>2. CASE k # 0
    <3>1. k \in 1..n /\ k \in 1..(n - 1)
      BY <2>2, <1>1
    <3>2. ~x[k].ws
      BY <3>1 DEF n
    <3>3. QED
      BY <3>1, <3>2, <2>2, <1>5, <1>6
  <2>3. QED
    BY <2>1, <2>2
<1>9. 0 \in T
  <2>1. Cut(t, a, a) = <<>>
    <3>1. a \in Nat /\ a <= Len(t)
      <4>1. 0 \in 0..n /\ n \in 0..n /\ Reached(x, a, 0) = a
        BY <1>1 DEF Reached
      <4>2. a <= b
        BY <4>1, <1>5
      <4>3. QED
        BY <4>2, <1>1, <1>5
    <3>2. QED
      BY <3>1, CutNone
  <2>2. QED
    BY <2>1, <1>1, <1>3
<1>10. ASSUME NEW k \in 0..(n - 1), k \in T PROVE k + 1 \in T
  <2>1. k + 1 \in 1..n /\ (k + 1) - 1 = k /\ k + 1 \in 0..n /\ k \in 0..n /\ n \in 0..n /\ k + 1 # 0
    BY <1>1
  <2>2. flat(k + 1) = Cut(t, a, E(k)) \o x[k + 1].orth
    BY <1>4, <1>10, <2>1
  <2>3. x[k + 1].orth = Cut(t, E(k), E(k + 1)) /\ x[k + 1].idx = E(k)
    BY <1>7, <1>8, <2>1
  <2>4. /\ E(k) \in Nat /\ E(k + 1) \in Nat /\ E(k) <= E(k + 1) /\ E(k + 1) <= Len(t)
    <3>1. E(k) \in Nat /\ E(k + 1) \in Nat /\ E(k) <= E(k + 1)
      BY <2>1, <2>3, <1>6
    <3>2. E(k + 1) <= Reached(x, a, k + 1)
      BY <2>1, <1>5, <1>6
    <3>3. Reached(x, a, k + 1) <= b /\ Reached(x, a, k + 1) \in Nat
      BY <2>1, <1>5
    <3> HIDE DEF E
    <3>4. QED
      BY <3>1, <3>2, <3>3, <1>1, <1>5
  <2>5. a <= E(k)
    <3>1. 0 \in 0..k /\ Reached(x, a, 0) = a
      BY <2>1 DEF Reached
    <3>2. Reached(x, a, 0) <= Reached(x, a, k)
      BY <3>1, <2>1, <1>5
    <3>3. QED
      BY <3>1, <3>2, <1>8
  <2> HIDE DEF E
  <2>6. Cut(t, a, E(k)) \o Cut(t, E(k), E(k + 1)) = Cut(t, a, E(k + 1))
    BY <2>4, <2>5, CutJoin
  <2>7. QED
    BY <2>1, <2>2, <2>3, <2>6
<1>11. 0..n \subseteq T
  <2> HIDE DEF T
  <2> QED
    BY <1>1, <1>9, <1>10, InductionUpTo
<1>12. n \in T /\ n # 0
  BY <1>1, <1>11
<1>13. QED
  BY <1>3, <1>12 DEF n, o

-----------------------------------------------------------------------------
(* Special cases.                                                          *)

(* The pieces of a special case tile the stretch of the text it was found at. *)
LEMMA SpecialTiled ==
  ASSUME rules \in Compiled, text \in Seq(Runes), NEW key \in DOMAIN rules.specials,
         NEW a \in Nat, a + Len(key) <= Len(text), key = Cut(text, a, a + Len(key))
  PROVE  /\ SpecialTokens(key, a) \in Seq(Token) /\ SpecialTokens(key, a) # <<>>
         /\ DOMAIN SpecialTokens(key, a) = DOMAIN rules.specials[key]
         /\ \A p \in DOMAIN SpecialTokens(key, a) :
              LET tok == SpecialTokens(key, a)[p] IN
              /\ ~tok.ws
              /\ tok.orth = rules.specials[key][p].orth /\ tok.norm = rules.specials[key][p].norm
              /\ tok.idx = a + Len(FlattenSeq(SubSeq(Orths(rules.specials[key]), 1, p - 1)))
              /\ tok.orth = Slice(tok.idx, EndOf(tok))
         /\ Tiled(text, SpecialTokens(key, a), a, a + Len(key))
<1> DEFINE pieces == rules.specials[key]
           n == Len(pieces)
           o == Orths(pieces)
           B(k) == Len(FlattenSeq(SubSeq(o, 1, k)))
           S == SpecialTokens(key, a)
           D == [orth : Seq(Runes) \ {<<>>}, norm : Seq(Runes)]
<1>1. pieces \in Seq(D) /\ pieces # <<>> /\ FlattenSeq(o) = key
  BY SpecialsAssumption
<1>2. n \in Nat \ {0} /\ DOMAIN pieces = 1..n /\ \A p \in 1..n : pieces[p] \in D
  <2> HIDE DEF pieces, D
  <2> QED
    BY <1>1
<1>3. \A d \in D : d.orth \in Seq(Runes) /\ d.norm \in Seq(Runes)
  OBVIOUS
<1>4. \A p \in 1..n : pieces[p].orth \in Seq(Runes) /\ pieces[p].norm \in Seq(Runes)
  <2> HIDE DEF pieces, D
  <2> QED
    BY <1>2, <1>3
<1>5. S = [p \in 1..n |-> [orth |-> pieces[p].orth, idx |-> a + B(p - 1), ws |-> FALSE,
                           norm |-> pieces[p].norm]]
  BY <1>2 DEF SpecialTokens
<1> HIDE DEF S, n, D
<1>6. o \in Seq(Seq(Runes)) /\ Len(o) = n /\ \A p \in 1..n : o[p] = pieces[p].orth
  <2>1. o = [p \in 1..n |-> pieces[p].orth]
    BY <1>2 DEF Orths
  <2> HIDE DEF o, pieces
  <2>2. QED
    BY <1>2, <1>4, <2>1
<1> HIDE DEF o, pieces
<1>7. \A k \in 0..n : B(k) \in Nat
  <2>1. \A k \in 0..n : FlattenSeq(SubSeq(o, 1, k)) \in Seq(Runes)
    BY <1>6, FlattenType
  <2>2. QED
    BY <2>1
<1>8. B(0) = 0 /\ B(n) = Len(key)
  <2>1. SubSeq(o, 1, 0) = <<>> /\ FlattenSeq(<<>>) = <<>> /\ SubSeq(o, 1, n) = o
    BY <1>6, FlattenType
  <2>2. Len(<<>>) = 0
    OBVIOUS
  <2>3. QED
    BY <2>1, <2>2, <1>1
<1>9. ASSUME NEW p \in 1..n
      PROVE  /\ B(p) = B(p - 1) + Len(pieces[p].orth) /\ B(p) <= Len(key)
             /\ \A k \in 1..Len(pieces[p].orth) : key[B(p - 1) + k] = pieces[p].orth[k]
  <2>1. p \in 1..Len(o)
    BY <1>6
  <2>2. /\ B(p) = B(p - 1) + Len(o[p]) /\ B(p) <= Len(FlattenSeq(o))
        /\ \A k \in 1..Len(o[p]) : FlattenSeq(o)[B(p - 1) + k] = o[p][k]
    BY <1>6, <2>1, FlattenPart
  <2>3. QED
    BY <2>2, <1>1, <1>6
<1>16. Len(key) \in Nat /\ \A k \in 1..Len(key) : key[k] = text[a + k]
  <2> DEFINE l == Len(key)
             z == Cut(text, a, a + l)
  <2>1. l \in Nat /\ a + l <= Len(text) /\ key = z
    <3>1. n \in 0..n
      BY <1>2
    <3>2. l = B(n)
      BY <1>8
    <3>3. QED
      BY <3>1, <3>2, <1>7
  <2> HIDE DEF l
  <2>2. \A k \in 1..l : z[k] = text[a + k]
    BY <2>1, CutRunes
  <2> HIDE DEF z
  <2>3. QED
    BY <2>1, <2>2 DEF l
<1> HIDE DEF B
<1>10. ASSUME NEW p \in 1..n
       PROVE  /\ S[p] \in Token /\ ~S[p].ws
              /\ S[p].orth = pieces[p].orth /\ S[p].norm = pieces[p].norm
              /\ S[p].idx = a + B(p - 1) /\ EndOf(S[p]) = a + B(p) /\ After(S[p]) = a + B(p)
              /\ S[p].orth = Cut(text, a + B(p - 1), a + B(p))
  <2>1. S[p] = [orth |-> pieces[p].orth, idx |-> a + B(p - 1), ws |-> FALSE, norm |-> pieces[p].norm]
    BY <1>5
  <2>2. B(p - 1) \in Nat /\ B(p) \in Nat /\ p - 1 \in 0..n
    <3>1. p - 1 \in 0..n /\ p \in 0..n
      BY <1>2
    <3>2. QED
      BY <3>1, <1>7
  <2>3. Len(pieces[p].orth) \in Nat /\ B(p) = B(p - 1) + Len(pieces[p].orth) /\ B(p) <= Len(key)
    BY <1>4, <1>9
  <2>4. S[p] \in Token
    BY <1>4, <2>1, <2>2 DEF Token
  <2>5. /\ S[p].orth = pieces[p].orth /\ S[p].idx = a + B(p - 1) /\ S[p].ws = FALSE
        /\ S[p].norm = pieces[p].norm
    BY <2>1
  <2>6. EndOf(S[p]) = a + B(p)
    BY <2>2, <2>3, <2>5 DEF EndOf
  <2>7. pieces[p].orth = Cut(text, a + B(p - 1), a + B(p))
    <3> DEFINE c == B(p - 1)
               x == pieces[p].orth
               l == Len(x)
    <3>1. c \in Nat /\ l \in Nat /\ B(p) = c + l /\ c + l <= Len(key) /\ x \in Seq(Runes)
      BY <1>4, <2>2, <2>3
    <3>2. \A k \in 1..l : key[c + k] = x[k]
      BY <1>9
    <3> HIDE DEF c, x
    <3>3. ASSUME NEW k \in 1..l PROVE x[k] = text[(a + c) + k]
      <4>1. c + k \in 1..Len(key) /\ a + (c + k) = (a + c) + k
        BY <3>1, <1>16
      <4>2. QED
        BY <4>1, <3>2, <1>16
    <3>4. (a + c) \in Nat /\ (a + c) + l <= Len(text)
      <4>1. Len(text) \in Nat
        OBVIOUS
      <4> HIDE DEF l
      <4>2. QED
        BY <4>1, <3>1, <1>16
    <3>5. x = Cut(text, a + c, (a + c) + l)
      BY <3>1, <3>3, <3>4, CutUnique
    <3>6. (a + c) + l = a + B(p)
      BY <3>1
    <3>7. QED
      BY <3>5, <3>6 DEF c, x
  <2>8. After(S[p]) = a + B(p)
    BY <2>2, <2>5, <2>6 DEF After
  <2>9. QED
    BY <2>4, <2>5, <2>6, <2>7, <2>8
<1>11. S \in Seq(Token) /\ Len(S) = n /\ DOMAIN S = 1..n /\ S # <<>>
  <2>1. \A p \in 1..n : [orth |-> pieces[p].orth, idx |-> a + B(p - 1), ws |-> FALSE,
                          norm |-> pieces[p].norm] \in Token
    BY <1>5, <1>10
  <2>2. S \in Seq(Token) /\ Len(S) = n /\ DOMAIN S = 1..n
    BY <1>2, <1>5, <2>1
  <2>3. QED
    BY <2>2, <1>2
<1>12. \A k \in 0..n : Reached(S, a, k) = a + B(k)
  <2> TAKE k \in 0..n
  <2>1. CASE k = 0
    BY <2>1, <1>8 DEF Reached
  <2>2. CASE k # 0
    <3>1. k \in 1..n
      BY <2>2, <1>2
    <3>2. QED
      BY <2>2, <3>1, <1>10 DEF Reached
  <2>3. QED
    BY <2>1, <2>2
<1>13. Tiled(text, S, a, a + Len(key))
  <2>1. ASSUME NEW p \in 1..n
        PROVE  S[p].idx = Reached(S, a, p - 1) /\ Fits(text, S[p], a + Len(key))
    <3>1. p - 1 \in 0..n
      BY <1>2
    <3>2. QED
      BY <3>1, <1>10, <1>12 DEF Fits
  <2>2. a + Len(key) = Reached(S, a, n)
    <3>1. n \in 0..n
      BY <1>2
    <3>2. QED
      BY <3>1, <1>8, <1>12
  <2>3. QED
    BY <1>11, <2>1, <2>2 DEF Tiled
<1>14. ASSUME NEW p \in DOMAIN S
       PROVE  /\ ~S[p].ws /\ S[p].orth = pieces[p].orth /\ S[p].norm = pieces[p].norm
              /\ S[p].idx = a + B(p - 1) /\ S[p].orth = Slice(S[p].idx, EndOf(S[p]))
  <2>1. p \in 1..n
    BY <1>11
  <2>2. QED
    BY <2>1, <1>10 DEF Slice, Cut
<1>15. QED
  BY <1>2, <1>11, <1>13, <1>14 DEF S, pieces, B, o

-----------------------------------------------------------------------------
(* Bounds of sets of numbers.                                              *)

(* The greatest of a finite set of numbers.                                 *)
LEMMA MaxFacts ==
  ASSUME NEW n \in Nat, NEW S \in SUBSET (0..n), S # {}
  PROVE  Max(S) \in S /\ \A y \in S : Max(S) >= y
<1>1. PICK x \in S : \A y \in S : y <= x
  BY Greatest
<1>2. \A y \in S : x >= y
  BY <1>1
<1>3. QED
  BY <1>2, Zenon DEF Max

(* The least of a set of numbers.                                           *)
LEMMA MinFacts ==
  ASSUME NEW n \in Nat, NEW S \in SUBSET (0..n), S # {}
  PROVE  Min(S) \in S /\ \A y \in S : Min(S) <= y
<1> DEFINE T == {k \in 0..n : n - k \in S}
<1>1. T \in SUBSET (0..n) /\ T # {}
  <2>1. PICK y \in S : TRUE
    OBVIOUS
  <2>2. n - y \in 0..n /\ n - (n - y) = y
    OBVIOUS
  <2>3. n - y \in T
    BY <2>2
  <2>4. QED
    BY <2>3
<1>2. PICK x \in T : \A y \in T : y <= x
  <2> HIDE DEF T
  <2> QED
    BY <1>1, Greatest
<1>3. n - x \in S /\ \A y \in S : n - x <= y
  <2>1. x \in 0..n /\ n - x \in S
    BY <1>2
  <2>2. ASSUME NEW y \in S PROVE n - x <= y
    <3>1. n - y \in 0..n /\ n - (n - y) = y
      OBVIOUS
    <3>2. n - y \in T
      BY <3>1
    <3>3. n - y <= x
      BY <3>2, <1>2
    <3>4. QED
      BY <3>1, <3>3, <2>1
  <2>3. QED
    BY <2>1, <2>2
<1>4. \E z \in S : \A y \in S : z <= y
  BY <1>3
<1>5. QED
  BY <1>4, Zenon DEF Min

(* A run of white space or of other runes ends, and what follows differs.  *)
LEMMA RunEndFacts ==
  ASSUME NEW a \in Nat, a < Len(text), text \in Seq(Runes)
  PROVE  /\ RunEnd(a) \in (a + 1)..Len(text)
         /\ \A c \in a..(RunEnd(a) - 1) : IsSpaceAt(c) <=> IsSpaceAt(a)
         /\ RunEnd(a) = Len(text) \/ ~(IsSpaceAt(RunEnd(a)) <=> IsSpaceAt(a))
<1> DEFINE n == Len(text)
           S == {b \in (a + 1)..n : b = n \/ (IsSpaceAt(b) # IsSpaceAt(a))}
           e == RunEnd(a)
<1>1. n \in Nat /\ a \in Nat /\ a < n
  OBVIOUS
<1>2. \A c : IsSpaceAt(c) \in BOOLEAN
  BY DEF IsSpaceAt
<1> HIDE DEF n
<1>3. S \in SUBSET (0..n)
  BY <1>1
<1>4. n \in S
  BY <1>1
<1>5. e = Min(S)
  BY DEF RunEnd, n
<1>6. e \in S /\ \A y \in S : e <= y
  <2> HIDE DEF S, e
  <2>1. S # {}
    BY <1>4
  <2>2. QED
    BY <1>1, <1>3, <1>5, <2>1, MinFacts
<1> HIDE DEF e
<1>7. e \in (a + 1)..n /\ (e = n \/ IsSpaceAt(e) # IsSpaceAt(a))
  BY <1>6
<1>8. ASSUME NEW c \in a..(e - 1) PROVE IsSpaceAt(c) = IsSpaceAt(a)
  <2>1. CASE c = a
    BY <2>1
  <2>2. CASE c # a
    <3>1. c \in (a + 1)..n /\ c < e
      BY <2>2, <1>1, <1>7
    <3>2. c \notin S
      <4> HIDE DEF S
      <4> QED
        BY <3>1, <1>6, <1>7
    <3>3. QED
      BY <3>1, <3>2
  <2>3. QED
    BY <2>1, <2>2
<1>9. QED
  BY <1>2, <1>7, <1>8 DEF e, n

-----------------------------------------------------------------------------
(* What the rules find in a stretch of the text.                           *)

(* A match of a compiled pattern lies inside the stretch it was looked for  *)
(* in.                                                                      *)
LEMMA MatchesInside ==
  ASSUME rules \in Compiled, text \in Texts, NEW a \in Nat, NEW b \in Nat, a <= b, b <= Len(text),
         0 < Len(text),
         NEW re \in Range(rules.prefixes) \union Range(rules.suffixes) \union Range(rules.infixes)
                      \union ({rules.tokenMatch, rules.urlMatch} \ {NoPattern})
  PROVE  /\ Len(Slice(a, b)) = b - a
         /\ Matches(re, Slice(a, b)) \in Seq([index : Nat, length : Nat])
         /\ \A m \in Range(Matches(re, Slice(a, b))) :
              m.index \in Nat /\ m.length \in Nat /\ m.index + m.length <= b - a
<1> DEFINE s == Slice(a, b)
           Strings == UNION {{SubSeq(t, c, d) : c \in 1..Len(t), d \in 0..Len(t)} : t \in Texts}
<1>1. text \in Seq(Runes) /\ Len(text) \in Nat
  BY TextsAssumption
<1>2. s \in Seq(Runes) /\ Len(s) = b - a
  BY <1>1, CutType DEF Slice, Cut
<1>3. s \in Strings
  <2>1. \E c \in 1..Len(text) : \E d \in 0..Len(text) : s = SubSeq(text, c, d)
    <3>1. CASE a < Len(text)
      <4>1. a + 1 \in 1..Len(text) /\ b \in 0..Len(text)
        BY <1>1, <3>1
      <4>2. QED
        BY <4>1 DEF Slice
    <3>2. CASE a = Len(text)
      <4>1. b = a
        BY <1>1, <3>2
      <4>2. s = <<>>
        BY <1>1, <4>1, CutNone DEF Slice, Cut
      <4>3. SubSeq(text, 1, 0) = <<>> /\ 1 \in 1..Len(text) /\ 0 \in 0..Len(text)
        BY <1>1
      <4>4. QED
        BY <4>2, <4>3
    <3>3. QED
      BY <1>1, <3>1, <3>2
  <2>2. QED
    BY <2>1
<1> HIDE DEF s, Strings
<1>4. /\ Matches(re, s) \in Seq([index : Nat, length : Nat])
      /\ \A m \in Range(Matches(re, s)) : m.index + m.length <= Len(s)
  BY <1>3, MatchesAssumption DEF Strings
<1>5. Range(Matches(re, s)) \subseteq [index : Nat, length : Nat]
  <2> DEFINE q == Matches(re, s)
             M == [index : Nat, length : Nat]
  <2>1. q \in Seq(M)
    BY <1>4
  <2> HIDE DEF q, M
  <2>2. \A x \in DOMAIN q : q[x] \in M
    BY <2>1
  <2>3. Range(q) \subseteq M
    BY <2>2 DEF Range
  <2>4. QED
    BY <2>3 DEF q, M
<1>6. \A m \in [index : Nat, length : Nat] : m.index \in Nat /\ m.length \in Nat
  OBVIOUS
<1>7. \A m \in Range(Matches(re, s)) : m.index \in Nat /\ m.length \in Nat
  BY <1>5, <1>6
<1>8. QED
  BY <1>2, <1>4, <1>7 DEF s

(* A prefix is no longer than the string.                                   *)
LEMMA PrefixInside ==
  ASSUME rules \in Compiled, text \in Texts, NEW a \in Nat, NEW b \in Nat, a <= b, b <= Len(text),
         0 < Len(text)
  PROVE  FindPrefix(Slice(a, b)) \in 0..(b - a)
<1> DEFINE s == Slice(a, b)
           res == {r \in Range(rules.prefixes) : Matches(r, s) # <<>> /\ Matches(r, s)[1].index = 0}
           S == {0} \union {Matches(re, s)[1].length : re \in res}
<1>1. ASSUME NEW re \in res PROVE Matches(re, s)[1].length \in 0..(b - a)
  <2>1. /\ re \in Range(rules.prefixes) \union Range(rules.suffixes) \union Range(rules.infixes)
                    \union ({rules.tokenMatch, rules.urlMatch} \ {NoPattern})
        /\ Matches(re, s) # <<>>
    OBVIOUS
  <2>2. /\ Matches(re, s) \in Seq([index : Nat, length : Nat])
        /\ \A m \in Range(Matches(re, s)) :
              m.index \in Nat /\ m.length \in Nat /\ m.index + m.length <= b - a
    BY <2>1, MatchesInside
  <2>3. Matches(re, s)[1] \in Range(Matches(re, s))
    <3>1. 1 \in DOMAIN Matches(re, s)
      BY <2>1, <2>2
    <3>2. QED
      BY <3>1 DEF Range
  <2>4. QED
    BY <2>2, <2>3
<1>2. S \in SUBSET (0..(b - a)) /\ 0 \in S /\ b - a \in Nat
  <2> HIDE DEF res, s
  <2>1. 0 \in 0..(b - a) /\ b - a \in Nat
    OBVIOUS
  <2>2. QED
    BY <2>1, <1>1
<1>3. Max(S) \in 0..(b - a)
  <2> HIDE DEF S
  <2>1. S # {}
    BY <1>2
  <2>2. Max(S) \in S
    BY <1>2, <2>1, MaxFacts
  <2>3. QED
    BY <1>2, <2>2
<1>4. QED
  BY <1>3 DEF FindPrefix

(* A suffix is no longer than the string.                                   *)
LEMMA SuffixInside ==
  ASSUME rules \in Compiled, text \in Texts, NEW a \in Nat, NEW b \in Nat, a <= b, b <= Len(text),
         0 < Len(text)
  PROVE  FindSuffix(Slice(a, b)) \in 0..(b - a)
<1> DEFINE s == Slice(a, b)
           found == UNION {Range(Matches(re, s)) : re \in Range(rules.suffixes)}
           ends == {m \in found : m.index + m.length = Len(s)}
           S == {Len(s)} \union {m.index : m \in ends}
<1>1. Len(s) = b - a /\ b - a \in Nat
  BY TextsAssumption, CutType DEF Slice, Cut
<1>2. ASSUME NEW m \in ends PROVE m.index \in 0..(b - a)
  <2>1. PICK re \in Range(rules.suffixes) : m \in Range(Matches(re, s))
    OBVIOUS
  <2>2. re \in Range(rules.prefixes) \union Range(rules.suffixes) \union Range(rules.infixes)
                \union ({rules.tokenMatch, rules.urlMatch} \ {NoPattern})
    BY <2>1
  <2>3. \A n \in Range(Matches(re, s)) :
              n.index \in Nat /\ n.length \in Nat /\ n.index + n.length <= b - a
    BY <2>2, MatchesInside
  <2>4. QED
    BY <2>1, <2>3
<1>3. S \in SUBSET (0..(b - a)) /\ Len(s) \in S
  <2> HIDE DEF ends, s
  <2>1. b - a \in 0..(b - a)
    OBVIOUS
  <2>2. QED
    BY <2>1, <1>1, <1>2
<1>4. Min(S) \in 0..(b - a)
  <2> HIDE DEF S
  <2>1. S # {}
    BY <1>3
  <2>2. Min(S) \in S
    BY <1>1, <1>3, <2>1, MinFacts
  <2>3. QED
    BY <1>3, <2>2
<1>5. FindSuffix(s) = Len(s) - Min(S)
  BY DEF FindSuffix
<1>6. QED
  <2> HIDE DEF S
  <2> QED
    BY <1>1, <1>4, <1>5

(* An infix span lies inside the string.                                    *)
LEMMA InfixesInside ==
  ASSUME rules \in Compiled, text \in Texts, NEW a \in Nat, NEW b \in Nat, a <= b, b <= Len(text),
         0 < Len(text)
  PROVE  \A sp \in FindInfixes(Slice(a, b)) :
           sp.start \in Nat /\ sp.end \in Nat /\ sp.start <= sp.end /\ sp.end <= b - a
<1> DEFINE s == Slice(a, b)
<1> SUFFICES ASSUME NEW sp \in FindInfixes(s)
             PROVE  sp.start \in Nat /\ sp.end \in Nat /\ sp.start <= sp.end /\ sp.end <= b - a
  OBVIOUS
<1>1. PICK k \in DOMAIN rules.infixes :
         sp \in {[start |-> m.index, end |-> m.index + m.length, re |-> k] :
                   m \in Range(Matches(rules.infixes[k], s))}
  BY DEF FindInfixes
<1>2. PICK m \in Range(Matches(rules.infixes[k], s)) :
         sp = [start |-> m.index, end |-> m.index + m.length, re |-> k]
  BY <1>1
<1>3. rules.infixes[k] \in Range(rules.prefixes) \union Range(rules.suffixes)
                            \union Range(rules.infixes)
                            \union ({rules.tokenMatch, rules.urlMatch} \ {NoPattern})
  BY DEF Range
<1>4. m.index \in Nat /\ m.length \in Nat /\ m.index + m.length <= b - a
  BY <1>3, MatchesInside
<1>5. sp.start = m.index /\ sp.end = m.index + m.length
  BY <1>2
<1>6. QED
  BY <1>4, <1>5

-----------------------------------------------------------------------------
(* The inductive invariant.                                                *)

(* The types of the state; the second pass has given nothing before it      *)
(* begins.                                                                  *)
TypeInv ==
  /\ rules \in Compiled /\ text \in Texts
  /\ pc \in {"text", "affixes", "infixes", "specials", "doc", "done"}
  /\ i \in Nat /\ lo \in Nat /\ hi \in Nat /\ pos \in Nat
  /\ out \in Seq(Token) /\ prefixes \in Seq(Token) /\ suffixes \in Seq(Token)
  /\ result \in Seq(Token)
  /\ pc \in {"text", "affixes", "infixes"} => result = <<>>

(* No token has the flag, or the last has not.                              *)
Plain(toks) == \A k \in 1..Len(toks) : ~toks[k].ws
LastPlain(toks) == toks # <<>> => ~toks[Len(toks)].ws

(* White space is read before a token gets its flag only once: the walk     *)
(* stands on a space only behind a token without one.                       *)
Walks ==
  pc = "text" =>
    /\ Tiled(text, out, 0, i) /\ i <= Len(text)
    /\ i < Len(text) /\ IsSpaceAt(i) => LastPlain(out)

(* A chunk is cut from both ends, the middle is still to come.  A chunk with *)
(* no runes left has given a token at least.                               *)
Strips ==
  pc = "affixes" =>
    /\ Tiled(text, out \o prefixes, 0, lo) /\ Tiled(text, Reverse(suffixes), hi, i)
    /\ lo <= hi /\ hi <= i /\ i <= Len(text) /\ 0 < Len(text)
    /\ Plain(prefixes) /\ Plain(suffixes)
    /\ lo = hi => prefixes # <<>> \/ suffixes # <<>>

(* The spans that are left lie inside the middle.                          *)
Splits ==
  pc = "infixes" =>
    /\ Tiled(text, out, 0, pos) /\ Tiled(text, Reverse(suffixes), hi, i)
    /\ lo <= pos /\ pos <= hi /\ hi <= i /\ i <= Len(text)
    /\ Plain(suffixes)
    /\ pos = hi => LastPlain(out)
    /\ \A sp \in spans :
         sp.start \in Nat /\ sp.end \in Nat /\ sp.start <= sp.end /\ lo + sp.end <= hi

(* The second pass has got as far in the text as in the tokens.            *)
Merging ==
  pc = "specials" =>
    /\ Tiled(text, out, 0, Len(text)) /\ i <= Len(out)
    /\ Tiled(text, result, 0, Reached(out, 0, i))

(* The second pass is over: its tokens tile the text.                       *)
Settled == pc \in {"doc", "done"} => Tiled(text, result, 0, Len(text))

(* The document is made of the tokens of the second pass.                   *)
Written ==
  pc = "done" =>
    doc = [k \in DOMAIN result |->
             [text |-> result[k].orth, whitespace |-> WhitespaceAfter(k),
              idx |-> result[k].idx, norm |-> result[k].norm]]

(* The inductive invariant of the tokenizer.                                *)
TInv == TypeInv /\ Walks /\ Strips /\ Splits /\ Merging /\ Settled /\ Written

(* The last token of a list followed by another.                            *)
LEMMA LastOfJoin ==
  ASSUME NEW x \in Seq(Token), NEW y \in Seq(Token), LastPlain(y), y = <<>> => LastPlain(x)
  PROVE  LastPlain(x \o y)
<1>1. CASE y = <<>>
  <2>1. x \o y = x
    BY <1>1
  <2>2. QED
    BY <1>1, <2>1
<1>2. CASE y # <<>>
  <2>1. Len(y) \in Nat \ {0} /\ Len(x) \in Nat
    BY <1>2
  <2>2. Len(x \o y) = Len(x) + Len(y) /\ (x \o y)[Len(x) + Len(y)] = y[Len(y)]
    BY <2>1
  <2>3. QED
    BY <1>2, <2>2 DEF LastPlain
<1>3. QED
  BY <1>1, <1>2

(* Joining tokens without flags.                                            *)
LEMMA PlainFacts ==
  ASSUME NEW x \in Seq(Token), NEW y \in Seq(Token), Plain(x), Plain(y)
  PROVE  Plain(x \o y) /\ LastPlain(x)
<1> DEFINE z == x \o y
           m == Len(x)
           n == Len(y)
<1>1. m \in Nat /\ n \in Nat /\ Len(z) = m + n
  OBVIOUS
<1>2. (\A k \in 1..m : z[k] = x[k]) /\ \A k \in 1..n : z[m + k] = y[k]
  OBVIOUS
<1> HIDE DEF z
<1>3. ASSUME NEW k \in 1..(m + n) PROVE ~z[k].ws
  <2>1. CASE k <= m
    BY <2>1, <1>1, <1>2 DEF Plain
  <2>2. CASE k > m
    <3>1. k - m \in 1..n /\ m + (k - m) = k
      BY <2>2, <1>1
    <3>2. z[k] = y[k - m]
      BY <3>1, <1>2
    <3>3. QED
      BY <3>1, <3>2 DEF Plain
  <2>3. QED
    BY <1>1, <2>1, <2>2
<1>4. Plain(z)
  BY <1>1, <1>3 DEF Plain
<1>5. LastPlain(x)
  <2>1. x # <<>> => m \in 1..m
    BY <1>1
  <2>2. QED
    BY <2>1 DEF Plain, LastPlain
<1>6. QED
  BY <1>4, <1>5 DEF z

(* Reversing tokens without flags.                                          *)
LEMMA PlainReverse ==
  ASSUME NEW x \in Seq(Token), Plain(x)
  PROVE  Reverse(x) \in Seq(Token) /\ Plain(Reverse(x)) /\ (Reverse(x) = <<>> <=> x = <<>>)
<1>1. CASE x = <<>>
  <2>1. Reverse(x) = <<>>
    BY <1>1, ReverseNone
  <2>2. QED
    BY <1>1, <2>1
<1>2. CASE x # <<>>
  <2>1. PICK tok \in Token : TRUE
    <3>1. x[1] \in Token
      BY <1>2
    <3>2. QED
      BY <3>1
  <2>2. /\ Reverse(x) \in Seq(Token) /\ Len(Reverse(x)) = Len(x)
        /\ \A k \in 1..Len(x) : Reverse(x)[k] = x[Len(x) - k + 1]
    BY <2>1, ReverseFacts
  <2>3. Len(x) \in Nat \ {0} /\ \A k \in 1..Len(x) : Len(x) - k + 1 \in 1..Len(x)
    BY <1>2
  <2>4. Plain(Reverse(x))
    BY <2>2, <2>3 DEF Plain
  <2>5. Reverse(x) # <<>>
    <3>1. Len(<<>>) = 0
      OBVIOUS
    <3>2. QED
      BY <2>2, <2>3, <3>1
  <2>6. QED
    BY <1>2, <2>2, <2>4, <2>5
<1>3. QED
  BY <1>1, <1>2

(* One token without a flag.                                                *)
LEMMA PlainOne ==
  ASSUME NEW tok \in Token, ~tok.ws
  PROVE  Plain(<<tok>>) /\ <<tok>> # <<>> /\ Plain(<<>>) /\ LastPlain(<<>>) /\ LastPlain(<<tok>>)
<1>1. Len(<<tok>>) = 1 /\ <<tok>>[1] = tok /\ Len(<<>>) = 0 /\ <<tok>> # <<>>
  OBVIOUS
<1>2. QED
  BY <1>1 DEF Plain, LastPlain

-----------------------------------------------------------------------------
(* Every step keeps the invariant.                                         *)

(* The invariant holds before the first rune is read.                       *)
LEMMA InitTiles == Init => TInv
<1> SUFFICES ASSUME Init PROVE TInv
  OBVIOUS
<1>1. <<>> \in Seq(Token) /\ text \in Texts /\ Len(text) \in Nat
  BY TextsAssumption DEF Init
<1>2. TypeInv
  BY <1>1 DEF Init, TypeInv
<1>3. Tiled(text, <<>>, 0, 0)
  BY TiledNone
<1>4. Walks
  BY <1>1, <1>3 DEF Init, Walks, LastPlain
<1>5. QED
  BY <1>2, <1>4 DEF Init, TInv, Strips, Splits, Merging, Settled, Written

(* A chunk starts where the tokens so far end.                              *)
LEMMA CollectChunkTiles == ASSUME TInv, CollectChunk PROVE TInv'
<1>1. pc = "text" /\ i < Len(text) /\ pc' = "affixes" /\ text' = text /\ out' = out
  BY DEF CollectChunk, Walking
<1>2. text \in Texts /\ text \in Seq(Runes) /\ Len(text) \in Nat /\ i \in Nat
  BY TextsAssumption DEF TInv, TypeInv
<1>3. RunEnd(i) \in (i + 1)..Len(text)
  BY <1>1, <1>2, RunEndFacts
<1>4. lo' = i /\ hi' = RunEnd(i) /\ i' = RunEnd(i) /\ prefixes' = <<>> /\ suffixes' = <<>>
  BY DEF CollectChunk
<1>5. TypeInv'
  <2>1. <<>> \in Seq(Token) /\ RunEnd(i) \in Nat
    BY <1>2, <1>3
  <2>2. QED
    BY <1>1, <1>2, <1>4, <2>1 DEF TInv, TypeInv, CollectChunk
<1>6. Strips'
  <2>1. Tiled(text, out, 0, i) /\ out \in Seq(Token)
    BY <1>1 DEF TInv, TypeInv, Walks
  <2>2. out \o <<>> = out
    BY <2>1
  <2>3. Tiled(text, Reverse(<<>>), RunEnd(i), RunEnd(i))
    BY ReverseNone, TiledNone
  <2>4. Plain(<<>>)
    <3>1. Len(<<>>) = 0
      OBVIOUS
    <3>2. QED
      BY <3>1 DEF Plain
  <2>5. i <= RunEnd(i) /\ RunEnd(i) <= Len(text) /\ 0 < Len(text) /\ i # RunEnd(i) /\ RunEnd(i) <= RunEnd(i)
    BY <1>2, <1>3
  <2>6. QED
    BY <1>1, <1>4, <2>1, <2>2, <2>3, <2>4, <2>5 DEF Strips
<1>7. QED
  BY <1>1, <1>5, <1>6 DEF TInv, Walks, Splits, Merging, Settled, Written

(* The flag takes the one space, a token the rest of the run.               *)
LEMMA FlagSpaceTiles == ASSUME TInv, FlagSpace PROVE TInv'
<1> DEFINE e == RunEnd(i)
           x == [out EXCEPT ![Len(out)].ws = TRUE]
           y == IF e > i + 1 THEN <<Piece(i + 1, e)>> ELSE <<>>
<1>1. /\ pc = "text" /\ i < Len(text) /\ pc' = "text" /\ text' = text /\ IsSpaceAt(i) /\ out # <<>>
      /\ text[i + 1] = Space /\ out' = x \o y /\ i' = e
  BY DEF FlagSpace, Walking
<1>2. /\ text \in Texts /\ text \in Seq(Runes) /\ Len(text) \in Nat /\ i \in Nat /\ out \in Seq(Token)
  BY TextsAssumption DEF TInv, TypeInv
<1>3. Tiled(text, out, 0, i) /\ ~out[Len(out)].ws
  BY <1>1 DEF TInv, Walks, LastPlain
<1>4. /\ e \in (i + 1)..Len(text)
      /\ e = Len(text) \/ ~(IsSpaceAt(e) <=> IsSpaceAt(i))
  BY <1>1, <1>2, RunEndFacts
<1>5. x \in Seq(Token) /\ Tiled(text, x, 0, i + 1)
  BY <1>1, <1>2, <1>3, TiledFlag
<1>6. y \in Seq(Token) /\ Tiled(text, y, i + 1, e)
  <2>1. CASE e > i + 1
    <3>1. i + 1 \in Nat /\ e \in Nat /\ i + 1 <= e /\ e <= Len(text)
      BY <1>2, <1>4
    <3>2. QED
      BY <2>1, <3>1, <1>2, TiledPiece
  <2>2. CASE ~(e > i + 1)
    <3>1. e = i + 1
      BY <2>2, <1>2, <1>4
    <3>2. QED
      BY <2>2, <3>1, TiledNone
  <2>3. QED
    BY <2>1, <2>2
<1> HIDE DEF e, x, y
<1>7. out' \in Seq(Token) /\ Tiled(text, out', 0, e)
  BY <1>1, <1>5, <1>6, TiledJoin
<1>8. TypeInv'
  <2>1. e \in Nat
    BY <1>2, <1>4
  <2>2. QED
    BY <1>1, <1>7, <2>1 DEF TInv, TypeInv, FlagSpace, chunkVars
<1>9. Walks'
  <2>1. e <= Len(text) /\ (e < Len(text) => ~IsSpaceAt(e))
    BY <1>1, <1>2, <1>4
  <2>2. IsSpaceAt(i)' <=> IsSpaceAt(e)
    BY <1>1 DEF IsSpaceAt
  <2>3. QED
    BY <1>1, <1>7, <2>1, <2>2 DEF Walks
<1>10. QED
  BY <1>1, <1>8, <1>9 DEF TInv, Strips, Splits, Merging, Settled, Written

(* Any other run of white space is a token.                                 *)
LEMMA EmitSpacesTiles == ASSUME TInv, EmitSpaces PROVE TInv'
<1> DEFINE e == RunEnd(i)
           p == Piece(i, e)
<1>1. /\ pc = "text" /\ i < Len(text) /\ pc' = "text" /\ text' = text /\ IsSpaceAt(i)
      /\ out' = Append(out, p) /\ i' = e
  BY DEF EmitSpaces, Walking
<1>2. /\ text \in Texts /\ text \in Seq(Runes) /\ Len(text) \in Nat /\ i \in Nat /\ out \in Seq(Token)
  BY TextsAssumption DEF TInv, TypeInv
<1>3. Tiled(text, out, 0, i)
  BY <1>1 DEF TInv, Walks
<1>4. /\ e \in (i + 1)..Len(text)
      /\ e = Len(text) \/ ~(IsSpaceAt(e) <=> IsSpaceAt(i))
  BY <1>1, <1>2, RunEndFacts
<1>5. p \in Token /\ <<p>> \in Seq(Token) /\ Tiled(text, <<p>>, i, e)
  <2>1. e \in Nat /\ i <= e /\ e <= Len(text)
    BY <1>2, <1>4
  <2>2. QED
    BY <2>1, <1>2, TiledPiece
<1> HIDE DEF e, p
<1>6. out' = out \o <<p>>
  BY <1>1, <1>2, <1>5
<1>7. out' \in Seq(Token) /\ Tiled(text, out', 0, e)
  BY <1>2, <1>3, <1>5, <1>6, TiledJoin
<1>8. TypeInv'
  <2>1. e \in Nat
    BY <1>2, <1>4
  <2>2. QED
    BY <1>1, <1>7, <2>1 DEF TInv, TypeInv, EmitSpaces, chunkVars
<1>9. Walks'
  <2>1. e <= Len(text) /\ (e < Len(text) => ~IsSpaceAt(e))
    BY <1>1, <1>2, <1>4
  <2>2. IsSpaceAt(i)' <=> IsSpaceAt(e)
    BY <1>1 DEF IsSpaceAt
  <2>3. QED
    BY <1>1, <1>7, <2>1, <2>2 DEF Walks
<1>10. QED
  BY <1>1, <1>8, <1>9 DEF TInv, Strips, Splits, Merging, Settled, Written

(* All runes are read when the second pass begins.                          *)
LEMMA EndTextTiles == ASSUME TInv, EndText PROVE TInv'
<1>1. pc = "text" /\ i = Len(text) /\ pc' = "specials" /\ i' = 0 /\ text' = text /\ out' = out
      /\ result' = result
  BY DEF EndText
<1>2. TypeInv'
  BY <1>1 DEF TInv, TypeInv, EndText, chunkVars
<1>3. Tiled(text, out, 0, Len(text)) /\ out \in Seq(Token)
  BY <1>1 DEF TInv, TypeInv, Walks
<1>4. result = <<>>
  BY <1>1 DEF TInv, TypeInv
<1>5. Merging'
  <2>1. Tiled(text, <<>>, 0, 0) /\ Reached(out, 0, 0) = 0
    BY TiledNone DEF Reached
  <2>2. 0 <= Len(out)
    BY <1>3
  <2>3. QED
    BY <1>1, <1>3, <1>4, <2>1, <2>2 DEF Merging
<1>6. QED
  BY <1>1, <1>2, <1>5 DEF TInv, Walks, Strips, Splits, Settled, Written

(* What a turn of the affix loop strips on either side leaves a middle      *)
(* between them; one of them is not empty.                                  *)
LEMMA StripAffixesTiles == ASSUME TInv, StripAffixes PROVE TInv'
<1> DEFINE a == PrefixEnd
           b == SuffixStart
           p == Piece(lo, a)
           q == Piece(b, hi)
           x == IF a > lo THEN <<p>> ELSE <<>>
           y == IF b < hi THEN <<q>> ELSE <<>>
<1>1. /\ pc = "affixes" /\ pc' = "affixes" /\ text' = text /\ out' = out /\ i' = i
      /\ lo' = a /\ hi' = b /\ lo < hi /\ (a > lo \/ b < hi)
      /\ prefixes' = IF a > lo THEN Append(prefixes, p) ELSE prefixes
      /\ suffixes' = IF b < hi THEN Append(suffixes, q) ELSE suffixes
  BY DEF StripAffixes, CanStrip
<1>2. /\ text \in Texts /\ text \in Seq(Runes) /\ Len(text) \in Nat /\ rules \in Compiled
      /\ i \in Nat /\ lo \in Nat /\ hi \in Nat
      /\ out \in Seq(Token) /\ prefixes \in Seq(Token) /\ suffixes \in Seq(Token)
  BY TextsAssumption DEF TInv, TypeInv
<1>3. /\ Tiled(text, out \o prefixes, 0, lo) /\ Tiled(text, Reverse(suffixes), hi, i)
      /\ lo <= hi /\ hi <= i /\ i <= Len(text) /\ 0 < Len(text)
      /\ Plain(prefixes) /\ Plain(suffixes)
  BY <1>1 DEF TInv, Strips
<1>4. hi <= Len(text)
  BY <1>2, <1>3
<1>5. a \in Nat /\ lo <= a /\ a <= hi
  <2>1. FindPrefix(Middle) \in 0..(hi - lo)
    BY <1>2, <1>3, <1>4, PrefixInside DEF Middle
  <2> HIDE DEF a
  <2>2. a = lo + FindPrefix(Middle)
    BY DEF a, PrefixEnd
  <2>3. QED
    BY <2>1, <2>2, <1>2
<1>6. b \in Nat /\ a <= b /\ b <= hi
  <2> HIDE DEF a
  <2>1. FindSuffix(Slice(a, hi)) \in 0..(hi - a)
    BY <1>2, <1>3, <1>4, <1>5, SuffixInside
  <2> HIDE DEF b
  <2>2. b = hi - FindSuffix(Slice(a, hi))
    BY DEF a, b, SuffixStart
  <2>3. QED
    BY <2>1, <2>2, <1>2, <1>5
<1> HIDE DEF a, b
<1>7. p \in Token /\ ~p.ws /\ Tiled(text, <<p>>, lo, a)
  <2>1. a <= Len(text)
    BY <1>2, <1>4, <1>5
  <2>2. QED
    BY <2>1, <1>2, <1>5, TiledPiece
<1>8. q \in Token /\ ~q.ws /\ Tiled(text, <<q>>, b, hi)
  BY <1>2, <1>4, <1>6, TiledPiece
<1> HIDE DEF p, q
<1>9. x \in Seq(Token) /\ Plain(x) /\ Tiled(text, x, lo, a) /\ prefixes' = prefixes \o x
  <2>1. CASE a > lo
    <3>1. prefixes' = prefixes \o <<p>> /\ <<p>> \in Seq(Token)
      BY <2>1, <1>1, <1>2, <1>7
    <3>2. QED
      BY <2>1, <3>1, <1>7, PlainOne
  <2>2. CASE ~(a > lo)
    <3>1. a = lo /\ prefixes' = prefixes /\ prefixes \o <<>> = prefixes
      BY <2>2, <1>1, <1>2, <1>5
    <3>2. Plain(<<>>)
      BY <1>7, PlainOne
    <3>3. QED
      BY <2>2, <3>1, <3>2, TiledNone
  <2>3. QED
    BY <2>1, <2>2
<1>10. /\ y \in Seq(Token) /\ Plain(y) /\ Tiled(text, y, b, hi) /\ suffixes' = suffixes \o y
       /\ suffixes' \in Seq(Token)
       /\ Reverse(suffixes') = y \o Reverse(suffixes) /\ Reverse(suffixes) \in Seq(Token)
  <2>0. Reverse(suffixes) \in Seq(Token)
    BY <1>2, <1>3, PlainReverse
  <2>1. CASE b < hi
    <3>1. suffixes' = Append(suffixes, q) /\ <<q>> \in Seq(Token) /\ Append(suffixes, q) \in Seq(Token)
      BY <2>1, <1>1, <1>2, <1>8
    <3>2. Append(suffixes, q) = suffixes \o <<q>>
      BY <1>2, <1>8
    <3>3. Reverse(Append(suffixes, q)) = <<q>> \o Reverse(suffixes)
      BY <1>2, <1>8, ReverseFacts
    <3>4. Plain(<<q>>)
      BY <1>8, PlainOne
    <3>5. QED
      BY <2>0, <2>1, <3>1, <3>2, <3>3, <3>4, <1>8
  <2>2. CASE ~(b < hi)
    <3>1. b = hi /\ suffixes' = suffixes /\ suffixes \o <<>> = suffixes
      BY <2>2, <1>1, <1>2, <1>6
    <3>2. Plain(<<>>)
      BY <1>7, PlainOne
    <3>3. <<>> \o Reverse(suffixes) = Reverse(suffixes)
      BY <2>0
    <3>4. QED
      BY <2>0, <2>2, <3>1, <3>2, <3>3, <1>2, TiledNone
  <2>3. QED
    BY <2>1, <2>2
<1> HIDE DEF y
<1>11. TypeInv'
  <2>1. prefixes \o x \in Seq(Token)
    <3> HIDE DEF x
    <3> QED
      BY <1>2, <1>9
  <2>2. QED
    BY <2>1, <1>1, <1>5, <1>6, <1>9, <1>10 DEF TInv, TypeInv, StripAffixes
<1>12. Strips'
  <2>1. Tiled(text, out \o prefixes', 0, a)
    <3>1. out \o prefixes \in Seq(Token)
      BY <1>2
    <3> HIDE DEF x
    <3>2. (out \o prefixes) \o x = out \o (prefixes \o x)
      <4>1. out \in Seq(Token) /\ prefixes \in Seq(Token) /\ x \in Seq(Token)
        BY <1>2, <1>9
      <4>2. QED
        BY <4>1
    <3>3. Tiled(text, (out \o prefixes) \o x, 0, a)
      BY <3>1, <1>3, <1>9, TiledJoin
    <3>4. QED
      BY <3>2, <3>3, <1>9
  <2>2. Tiled(text, Reverse(suffixes'), b, i)
    BY <1>3, <1>6, <1>10, TiledJoin
  <2>3. Plain(prefixes') /\ Plain(suffixes')
    BY <1>2, <1>3, <1>9, <1>10, PlainFacts
  <2>4. prefixes' # <<>> \/ suffixes' # <<>>
    <3>1. Append(prefixes, p) # <<>>
      BY <1>2, <1>7, AppendNotNone
    <3>2. Append(suffixes, q) # <<>>
      BY <1>2, <1>8, AppendNotNone
    <3>3. QED
      BY <3>1, <3>2, <1>1, Zenon
  <2>5. b <= i
    BY <1>2, <1>3, <1>6
  <2>6. QED
    BY <1>1, <1>3, <1>6, <2>1, <2>2, <2>3, <2>4, <2>5 DEF Strips
<1>13. QED
  BY <1>1, <1>11, <1>12 DEF TInv, Walks, Splits, Merging, Settled, Written

(* A chunk emitted in one turn: the prefixes, tokens for the middle and the  *)
(* suffixes.                                                               *)
LEMMA AttachTiles ==
  ASSUME TInv, pc = "affixes", NEW T \in Seq(Token), Attach(T), Plain(T), Tiled(text, T, lo, hi),
         T = <<>> => lo = hi
  PROVE  TInv'
<1> DEFINE r == Reverse(suffixes)
           x == out \o prefixes
           y == T \o r
<1>1. out' = x \o y /\ pc' = "text" /\ text' = text /\ i' = i
  BY DEF Attach, EmitTail
<1>2. /\ out \in Seq(Token) /\ prefixes \in Seq(Token) /\ suffixes \in Seq(Token)
      /\ lo \in Nat /\ hi \in Nat /\ i \in Nat
  BY DEF TInv, TypeInv
<1>3. /\ Tiled(text, x, 0, lo) /\ Tiled(text, r, hi, i) /\ i <= Len(text)
      /\ Plain(prefixes) /\ Plain(suffixes) /\ (lo = hi => prefixes # <<>> \/ suffixes # <<>>)
  BY DEF TInv, Strips
<1>4. r \in Seq(Token) /\ Plain(r) /\ (r = <<>> <=> suffixes = <<>>)
  BY <1>2, <1>3, PlainReverse
<1>5. x \in Seq(Token)
  BY <1>2
<1> HIDE DEF r
<1>6. y \in Seq(Token) /\ Tiled(text, y, lo, i) /\ LastPlain(y)
  <2>1. y \in Seq(Token) /\ Tiled(text, y, lo, i)
    BY <1>2, <1>3, <1>4, TiledJoin
  <2>2. LastPlain(y)
    <3>1. Plain(y)
      BY <1>4, PlainFacts
    <3> HIDE DEF y
    <3>2. QED
      BY <2>1, <3>1, PlainFacts
  <2>3. QED
    BY <2>1, <2>2
<1>7. y = <<>> => LastPlain(x)
  <2>1. ASSUME y = <<>> PROVE LastPlain(x)
    <3>1. T = <<>> /\ r = <<>>
      <4>1. Len(y) = Len(T) + Len(r) /\ Len(T) \in Nat /\ Len(r) \in Nat /\ Len(y) = 0
        BY <1>4, <2>1
      <4>2. Len(T) = 0 /\ Len(r) = 0
        BY <4>1
      <4>3. QED
        BY <4>2, <1>4
    <3>2. prefixes # <<>>
      BY <3>1, <1>3, <1>4
    <3>3. LastPlain(prefixes)
      BY <1>2, <1>3, PlainFacts
    <3>4. QED
      BY <1>2, <3>2, <3>3, LastOfJoin
  <2>2. QED
    BY <2>1
<1> HIDE DEF x, y
<1>8. out' \in Seq(Token) /\ Tiled(text, out', 0, i) /\ LastPlain(out')
  BY <1>1, <1>3, <1>5, <1>6, <1>7, TiledJoin, LastOfJoin
<1>9. TypeInv'
  BY <1>1, <1>8 DEF TInv, TypeInv, Attach, chunkVars
<1>10. Walks'
  BY <1>1, <1>3, <1>8 DEF Walks
<1>11. QED
  BY <1>1, <1>9, <1>10 DEF TInv, Strips, Splits, Merging, Settled, Written

(* The stretch a chunk has left, and the token that covers it.             *)
LEMMA MiddleFacts ==
  ASSUME TInv, pc = "affixes"
  PROVE  /\ lo \in Nat /\ hi \in Nat /\ lo <= hi /\ hi <= Len(text) /\ 0 < Len(text)
         /\ text \in Seq(Runes) /\ text \in Texts /\ rules \in Compiled
         /\ Middle = Cut(text, lo, hi) /\ Len(Middle) = hi - lo
         /\ <<Piece(lo, hi)>> \in Seq(Token) /\ Plain(<<Piece(lo, hi)>>)
         /\ <<Piece(lo, hi)>> # <<>>
         /\ Tiled(text, <<Piece(lo, hi)>>, lo, hi)
<1>1. /\ lo \in Nat /\ hi \in Nat /\ lo <= hi /\ i \in Nat /\ hi <= i /\ i <= Len(text) /\ 0 < Len(text)
      /\ text \in Seq(Runes) /\ text \in Texts /\ rules \in Compiled
  BY TextsAssumption DEF TInv, TypeInv, Strips
<1>2. hi <= Len(text) /\ Len(text) \in Nat
  BY <1>1
<1>3. Middle = Cut(text, lo, hi)
  BY DEF Middle, Slice, Cut
<1>4. Len(Middle) = hi - lo
  BY <1>1, <1>2, <1>3, CutType
<1>5. Piece(lo, hi) \in Token /\ ~Piece(lo, hi).ws /\ Tiled(text, <<Piece(lo, hi)>>, lo, hi)
  BY <1>1, <1>2, TiledPiece
<1> DEFINE p == Piece(lo, hi)
<1> HIDE DEF p
<1>6. <<p>> \in Seq(Token) /\ Plain(<<p>>) /\ <<p>> # <<>>
  BY <1>5, PlainOne DEF p
<1>7. QED
  BY <1>1, <1>2, <1>3, <1>4, <1>5, <1>6 DEF p

(* The affixes have used up the chunk.                                      *)
LEMMA AttachNothingTiles == ASSUME TInv, AttachNothing PROVE TInv'
<1>1. pc = "affixes" /\ lo = hi /\ Attach(<<>>)
  BY DEF AttachNothing, Stripped
<1>2. <<>> \in Seq(Token) /\ Tiled(text, <<>>, lo, hi)
  BY <1>1, TiledNone
<1>3. Plain(<<>>)
  <2>1. Len(<<>>) = 0
    OBVIOUS
  <2>2. QED
    BY <2>1 DEF Plain
<1>4. QED
  BY <1>1, <1>2, <1>3, AttachTiles

(* The middle is a token match.                                             *)
LEMMA AttachTokenMatchTiles == ASSUME TInv, AttachTokenMatch PROVE TInv'
<1>1. pc = "affixes" /\ Attach(<<Piece(lo, hi)>>)
  BY DEF AttachTokenMatch, Stripped
<1>2. QED
  BY <1>1, MiddleFacts, AttachTiles, Zenon

(* The middle is a plain word or a URL.                                     *)
LEMMA AttachWordTiles == ASSUME TInv, AttachWord PROVE TInv'
<1>1. pc = "affixes" /\ Attach(<<Piece(lo, hi)>>)
  BY DEF AttachWord, Stripped
<1>2. QED
  BY <1>1, MiddleFacts, AttachTiles, Zenon

(* The pieces of a special case tile the middle they spell.                 *)
LEMMA AttachSpecialTiles == ASSUME TInv, AttachSpecial PROVE TInv'
<1> DEFINE T == SpecialTokens(Middle, lo)
<1>1. pc = "affixes" /\ Attach(T) /\ Middle \in DOMAIN rules.specials
  BY DEF AttachSpecial, Stripped, IsSpecial
<1>2. /\ lo \in Nat /\ hi \in Nat /\ lo <= hi /\ hi <= Len(text)
      /\ text \in Seq(Runes) /\ rules \in Compiled
      /\ Middle = Cut(text, lo, hi) /\ Len(Middle) = hi - lo
  BY <1>1, MiddleFacts
<1>3. /\ T \in Seq(Token) /\ T # <<>> /\ (\A k \in DOMAIN T : ~T[k].ws)
      /\ Tiled(text, T, lo, lo + Len(Middle))
  <2> DEFINE key == Middle
  <2>1. key \in DOMAIN rules.specials /\ lo + Len(key) <= Len(text) /\ key = Cut(text, lo, lo + Len(key))
    <3>1. lo + Len(Middle) = hi
      BY <1>2
    <3>2. QED
      BY <3>1, <1>1, <1>2
  <2> HIDE DEF key
  <2>2. /\ SpecialTokens(key, lo) \in Seq(Token) /\ SpecialTokens(key, lo) # <<>>
        /\ \A k \in DOMAIN SpecialTokens(key, lo) : ~SpecialTokens(key, lo)[k].ws
        /\ Tiled(text, SpecialTokens(key, lo), lo, lo + Len(key))
    BY <1>2, <2>1, SpecialTiled
  <2>3. QED
    BY <2>2 DEF key
<1>4. lo + Len(Middle) = hi
  BY <1>2
<1> HIDE DEF T
<1>5. Plain(T)
  BY <1>3 DEF Plain
<1>6. QED
  BY <1>1, <1>3, <1>4, <1>5, AttachTiles

(* The infix split starts at the left end of the middle.                    *)
LEMMA SplitInfixesTiles == ASSUME TInv, SplitInfixes PROVE TInv'
<1>1. /\ pc = "affixes" /\ pc' = "infixes" /\ text' = text /\ i' = i /\ lo' = lo /\ hi' = hi
      /\ suffixes' = suffixes /\ lo < hi
      /\ out' = out \o prefixes /\ spans' = FindInfixes(Middle) /\ pos' = lo
  BY DEF SplitInfixes, Stripped
<1>2. /\ lo \in Nat /\ hi \in Nat /\ lo <= hi /\ hi <= Len(text) /\ 0 < Len(text)
      /\ text \in Texts /\ rules \in Compiled
  BY <1>1, MiddleFacts
<1>3. out \in Seq(Token) /\ prefixes \in Seq(Token)
  BY DEF TInv, TypeInv
<1>4. out' \in Seq(Token)
  BY <1>1, <1>3
<1>5. TypeInv'
  BY <1>1, <1>2, <1>4 DEF TInv, TypeInv, SplitInfixes
<1>6. Splits'
  <2>1. \A sp \in FindInfixes(Middle) :
          sp.start \in Nat /\ sp.end \in Nat /\ sp.start <= sp.end /\ sp.end <= hi - lo
    BY <1>2, InfixesInside DEF Middle
  <2>2. \A sp \in spans' :
          sp.start \in Nat /\ sp.end \in Nat /\ sp.start <= sp.end /\ lo + sp.end <= hi
    BY <1>1, <1>2, <2>1
  <2>3. /\ Tiled(text, out \o prefixes, 0, lo) /\ Tiled(text, Reverse(suffixes), hi, i)
        /\ hi <= i /\ i <= Len(text) /\ Plain(suffixes)
    BY <1>1 DEF TInv, Strips
  <2>4. lo <= lo /\ lo # hi
    BY <1>1, <1>2
  <2>5. QED
    BY <1>1, <1>2, <2>2, <2>3, <2>4 DEF Splits
<1>7. QED
  BY <1>1, <1>5, <1>6 DEF TInv, Walks, Strips, Merging, Settled, Written

(* An infix split gives the runes up to the infix and the infix.            *)
LEMMA CutInfixTiles == ASSUME TInv, CutInfix PROVE TInv'
<1>1. /\ pc = "infixes" /\ pc' = "infixes" /\ text' = text /\ i' = i /\ lo' = lo /\ hi' = hi
      /\ suffixes' = suffixes
  BY DEF CutInfix
<1>2. PICK sp \in FirstInfixes :
        /\ out' = out \o (IF lo + sp.start > pos THEN <<Piece(pos, lo + sp.start)>> ELSE <<>>)
                      \o <<Piece(lo + sp.start, lo + sp.end)>>
        /\ pos' = lo + sp.end
        /\ spans' = spans \ {sp}
  BY DEF CutInfix
<1> DEFINE a == lo + sp.start
           b == lo + sp.end
           x == IF a > pos THEN <<Piece(pos, a)>> ELSE <<>>
           y == <<Piece(a, b)>>
<1>3. /\ text \in Seq(Runes) /\ Len(text) \in Nat /\ lo \in Nat /\ hi \in Nat /\ pos \in Nat /\ i \in Nat
      /\ out \in Seq(Token)
  BY TextsAssumption DEF TInv, TypeInv
<1>4. /\ Tiled(text, out, 0, pos) /\ Tiled(text, Reverse(suffixes), hi, i)
      /\ lo <= pos /\ pos <= hi /\ hi <= i /\ i <= Len(text) /\ Plain(suffixes)
      /\ \A s \in spans : s.start \in Nat /\ s.end \in Nat /\ s.start <= s.end /\ lo + s.end <= hi
  BY <1>1 DEF TInv, Splits
<1>5. sp \in spans /\ a >= pos
  BY DEF FirstInfixes
<1>6. /\ a \in Nat /\ b \in Nat /\ pos <= a /\ a <= b /\ b <= hi /\ lo <= b /\ a <= Len(text)
      /\ b <= Len(text)
  BY <1>3, <1>4, <1>5
<1>7. out' = (out \o x) \o y /\ pos' = b
  BY <1>2
<1> HIDE DEF a, b
<1>8. x \in Seq(Token) /\ Tiled(text, x, pos, a)
  <2>1. CASE a > pos
    BY <2>1, <1>3, <1>6, TiledPiece
  <2>2. CASE ~(a > pos)
    <3>1. a = pos
      BY <2>2, <1>3, <1>6
    <3>2. QED
      BY <2>2, <3>1, TiledNone
  <2>3. QED
    BY <2>1, <2>2
<1>9. y \in Seq(Token) /\ Tiled(text, y, a, b) /\ LastPlain(y) /\ y # <<>>
  <2>1. Piece(a, b) \in Token /\ ~Piece(a, b).ws /\ y \in Seq(Token) /\ Tiled(text, y, a, b)
    BY <1>3, <1>6, TiledPiece
  <2>2. QED
    BY <2>1, PlainOne, Zenon
<1> HIDE DEF x, y
<1>10. out \o x \in Seq(Token) /\ Tiled(text, out \o x, 0, a)
  BY <1>3, <1>4, <1>8, TiledJoin
<1>11. out' \in Seq(Token) /\ Tiled(text, out', 0, b) /\ LastPlain(out')
  BY <1>7, <1>9, <1>10, TiledJoin, LastOfJoin
<1>12. TypeInv'
  BY <1>1, <1>6, <1>7, <1>11 DEF TInv, TypeInv, CutInfix
<1>13. Splits'
  <2>1. \A s \in spans' : s.start \in Nat /\ s.end \in Nat /\ s.start <= s.end /\ lo + s.end <= hi
    BY <1>2, <1>4
  <2>2. QED
    BY <1>1, <1>4, <1>6, <1>7, <1>11, <2>1 DEF Splits
<1>14. QED
  BY <1>1, <1>12, <1>13 DEF TInv, Walks, Strips, Merging, Settled, Written

(* The rest of the middle, and the suffixes, finish the chunk.              *)
LEMMA EndInfixesTiles == ASSUME TInv, EndInfixes PROVE TInv'
<1> DEFINE r == Reverse(suffixes)
           x == IF pos < hi THEN <<Piece(pos, hi)>> ELSE <<>>
           y == x \o r
<1>1. pc = "infixes" /\ pc' = "text" /\ text' = text /\ i' = i /\ out' = out \o y
  BY DEF EndInfixes, EmitTail
<1>2. /\ text \in Seq(Runes) /\ Len(text) \in Nat /\ hi \in Nat /\ pos \in Nat /\ i \in Nat
      /\ out \in Seq(Token) /\ suffixes \in Seq(Token)
  BY TextsAssumption DEF TInv, TypeInv
<1>3. /\ Tiled(text, out, 0, pos) /\ Tiled(text, r, hi, i) /\ pos <= hi /\ hi <= i /\ i <= Len(text)
      /\ Plain(suffixes) /\ (pos = hi => LastPlain(out))
  BY <1>1 DEF TInv, Splits
<1>4. r \in Seq(Token) /\ Plain(r)
  BY <1>2, <1>3, PlainReverse
<1>5. x \in Seq(Token) /\ Plain(x) /\ Tiled(text, x, pos, hi) /\ (x = <<>> => pos = hi)
  <2>0. hi <= Len(text)
    BY <1>2, <1>3
  <2>1. /\ Piece(pos, hi) \in Token /\ ~Piece(pos, hi).ws /\ <<Piece(pos, hi)>> \in Seq(Token)
        /\ Tiled(text, <<Piece(pos, hi)>>, pos, hi)
    BY <1>2, <1>3, <2>0, TiledPiece
  <2>2. Plain(<<Piece(pos, hi)>>) /\ <<Piece(pos, hi)>> # <<>> /\ Plain(<<>>)
    BY <2>1, PlainOne, Zenon
  <2>3. CASE pos < hi
    BY <2>1, <2>2, <2>3
  <2>4. CASE ~(pos < hi)
    <3>1. pos = hi
      BY <2>4, <1>2, <1>3
    <3>2. QED
      BY <2>2, <2>4, <3>1, TiledNone
  <2>5. QED
    BY <2>3, <2>4
<1> HIDE DEF r, x
<1>6. y \in Seq(Token) /\ Tiled(text, y, pos, i) /\ LastPlain(y)
  <2>1. y \in Seq(Token) /\ Tiled(text, y, pos, i)
    BY <1>2, <1>3, <1>4, <1>5, TiledJoin
  <2>2. Plain(y)
    BY <1>4, <1>5, PlainFacts
  <2> HIDE DEF y
  <2>3. QED
    BY <2>1, <2>2, PlainFacts
<1>7. y = <<>> => LastPlain(out)
  <2>1. ASSUME y = <<>> PROVE x = <<>>
    <3>1. Len(y) = Len(x) + Len(r) /\ Len(x) \in Nat /\ Len(r) \in Nat /\ Len(y) = 0
      BY <1>4, <1>5, <2>1
    <3>2. Len(x) = 0
      BY <3>1
    <3>3. QED
      BY <3>2, <1>5
  <2>2. QED
    BY <2>1, <1>3, <1>5
<1> HIDE DEF y
<1>8. out' \in Seq(Token) /\ Tiled(text, out', 0, i) /\ LastPlain(out')
  BY <1>1, <1>2, <1>3, <1>6, <1>7, TiledJoin, LastOfJoin
<1>9. TypeInv'
  BY <1>1, <1>8 DEF TInv, TypeInv, EndInfixes
<1>10. Walks'
  BY <1>1, <1>3, <1>8 DEF Walks
<1>11. QED
  BY <1>1, <1>9, <1>10 DEF TInv, Strips, Splits, Merging, Settled, Written

-----------------------------------------------------------------------------
(* The second pass.                                                        *)

(* A window of the tokens tiles what lies between its ends.                *)
LEMMA WindowTiled ==
  ASSUME NEW t, NEW x \in Seq(Token), NEW a \in Nat, NEW b, Tiled(t, x, a, b),
         NEW k \in Nat, NEW m \in Nat, k <= m, m <= Len(x)
  PROVE  /\ SubSeq(x, k + 1, m) \in Seq(Token) /\ Len(SubSeq(x, k + 1, m)) = m - k
         /\ \A j \in 1..(m - k) : SubSeq(x, k + 1, m)[j] = x[k + j]
         /\ Tiled(t, SubSeq(x, k + 1, m), Reached(x, a, k), Reached(x, a, m))
<1> DEFINE w == m - k
           y == SubSeq(x, 1, m)
           z == SubSeq(x, k + 1, m)
           u == SubSeq(y, k + 1, Len(y))
<1>1. m \in 0..Len(x) /\ k \in 0..m /\ Len(x) \in Nat
  OBVIOUS
<1>2. z \in Seq(Token) /\ Len(z) = w /\ \A j \in 1..w : z[j] = x[k + j]
  OBVIOUS
<1>3. y \in Seq(Token) /\ Len(y) = m /\ \A j \in 1..m : y[j] = x[j]
  BY <1>1
<1>4. Tiled(t, y, a, Reached(x, a, m))
  BY <1>1, TiledSplit
<1> HIDE DEF y, z
<1>5. /\ u \in Seq(Token) /\ Tiled(t, u, Reached(y, a, k), Reached(x, a, m))
  BY <1>1, <1>3, <1>4, TiledSplit
<1>6. Reached(y, a, k) = Reached(x, a, k)
  BY <1>1, <1>3 DEF Reached
<1>7. u = z
  <2>1. Len(u) = w /\ \A j \in 1..w : u[j] = y[k + j]
    BY <1>1, <1>3
  <2>2. \A j \in 1..w : k + j \in 1..m
    BY <1>1
  <2>3. \A j \in 1..w : u[j] = z[j]
    BY <1>2, <1>3, <2>1, <2>2
  <2> HIDE DEF u
  <2>4. u = [j \in 1..w |-> u[j]] /\ z = [j \in 1..w |-> z[j]]
    BY <1>2, <1>5, <2>1
  <2>5. [j \in 1..w |-> u[j]] = [j \in 1..w |-> z[j]]
    BY <2>3
  <2>6. QED
    BY <2>4, <2>5, Zenon
<1>8. QED
  BY <1>2, <1>5, <1>6, <1>7 DEF z

(* The last token gets the flag of another one.                            *)
LEMMA TiledFlagAs ==
  ASSUME NEW t, NEW x \in Seq(Token), NEW a \in Nat, NEW b, Tiled(t, x, a, b),
         x # <<>>, ~x[Len(x)].ws, NEW f \in BOOLEAN, f => t[b + 1] = Space
  PROVE  /\ [x EXCEPT ![Len(x)].ws = f] \in Seq(Token)
         /\ Tiled(t, [x EXCEPT ![Len(x)].ws = f], a, IF f THEN b + 1 ELSE b)
<1>1. CASE f = TRUE
  BY <1>1, TiledFlag
<1>2. CASE f = FALSE
  <2> DEFINE n == Len(x)
  <2>1. n \in 1..n /\ x[n] \in Token /\ DOMAIN x = 1..n /\ x = [k \in 1..n |-> x[k]]
    OBVIOUS
  <2>2. x[n].ws = FALSE
    <3>1. x[n].ws \in BOOLEAN
      BY <2>1, TokenEnds
    <3>2. QED
      BY <3>1
  <2> HIDE DEF n
  <2>3. [x[n] EXCEPT !.ws = FALSE] = x[n]
    BY <2>1, <2>2 DEF Token
  <2>4. [x EXCEPT ![n].ws = FALSE] = [k \in DOMAIN x |-> IF k = n THEN [x[n] EXCEPT !.ws = FALSE] ELSE x[k]]
    BY <2>1, Zenon
  <2>5. [x EXCEPT ![n].ws = FALSE] = x
    <3>1. \A k \in 1..n : (IF k = n THEN x[n] ELSE x[k]) = x[k]
      OBVIOUS
    <3>2. [k \in 1..n |-> IF k = n THEN x[n] ELSE x[k]] = [k \in 1..n |-> x[k]]
      BY <3>1
    <3>3. QED
      BY <2>1, <2>3, <2>4, <3>2
  <2>6. QED
    BY <1>2, <2>5 DEF n
<1>3. QED
  BY <1>1, <1>2

(* What the second pass finds at a place of the text.                      *)
LEMMA MergeableFacts ==
  ASSUME TInv, pc = "specials", Mergeable # {}
  PROVE  LET w == Max(Mergeable)
             a == out[i + 1].idx
         IN  /\ w \in {2, 3} /\ i + w <= Len(out) /\ Key(w) \in DOMAIN rules.specials
             /\ a \in Nat /\ a = Reached(out, 0, i) /\ a + Len(Key(w)) <= Len(text)
             /\ Key(w) = Cut(text, a, a + Len(Key(w)))
             /\ a + Len(Key(w)) = EndOf(out[i + w])
             /\ out[i + w] \in Token /\ Reached(out, 0, i + w) = After(out[i + w])
             /\ Fits(text, out[i + w], Len(text))
<1> DEFINE w == Max(Mergeable)
           W == Window(w)
           a == out[i + 1].idx
           e == EndOf(out[i + w])
<1>1. w \in Mergeable
  <2>1. Mergeable \in SUBSET (0..3)
    BY DEF Mergeable
  <2>2. QED
    BY <2>1, MaxFacts
<1> HIDE DEF w
<1>2. /\ w \in {2, 3} /\ i + w <= Len(out) /\ (\A k \in 1..(w - 1) : ~out[i + k].ws)
      /\ Key(w) \in DOMAIN rules.specials
  BY <1>1 DEF Mergeable, IsSpecial
<1>3. /\ out \in Seq(Token) /\ i \in Nat /\ text \in Seq(Runes) /\ Len(text) \in Nat
      /\ Tiled(text, out, 0, Len(text)) /\ Len(out) \in Nat
  BY TextsAssumption DEF TInv, TypeInv, Merging
<1>4. /\ \A k \in 0..Len(out) : Reached(out, 0, k) \in Nat
      /\ \A k \in 0..Len(out) : \A j \in 0..k : Reached(out, 0, j) <= Reached(out, 0, k)
      /\ \A k \in 1..Len(out) : Reached(out, 0, k) = After(out[k])
      /\ Reached(out, 0, Len(out)) = Len(text)
  BY <1>3, ReachedGrows DEF Tiled
<1>5. /\ i + 1 \in 1..Len(out) /\ i \in 0..Len(out) /\ i + w \in 1..Len(out) /\ i + w \in 0..Len(out)
      /\ (i + 1) - 1 = i /\ Len(out) \in 0..Len(out) /\ w \in Nat
  BY <1>2, <1>3
<1>6. a = Reached(out, 0, i) /\ Fits(text, out[i + w], Len(text)) /\ out[i + w] \in Token
  BY <1>3, <1>5 DEF Tiled
<1>7. /\ W \in Seq(Token) /\ Len(W) = w /\ (\A j \in 1..w : W[j] = out[i + j])
      /\ Tiled(text, W, Reached(out, 0, i), Reached(out, 0, i + w))
  <2> DEFINE m == i + w
  <2>1. m \in Nat /\ i <= m /\ m <= Len(out) /\ m - i = w /\ W = SubSeq(out, i + 1, m)
    BY <1>3, <1>5, <1>2 DEF Window
  <2> HIDE DEF m, W
  <2>2. /\ W \in Seq(Token) /\ Len(W) = m - i /\ (\A j \in 1..(m - i) : W[j] = out[i + j])
        /\ Tiled(text, W, Reached(out, 0, i), Reached(out, 0, m))
    <3>1. 0 \in Nat /\ i \in Nat /\ out \in Seq(Token) /\ Tiled(text, out, 0, Len(text))
      BY <1>3
    <3> DEFINE z == SubSeq(out, i + 1, m)
    <3>2. Tiled(text, z, Reached(out, 0, i), Reached(out, 0, m))
      BY <2>1, <3>1, WindowTiled, Zenon
    <3>3. z \in Seq(Token) /\ Len(z) = m - i
      BY <2>1, <3>1, WindowTiled
    <3>4. \A j \in 1..(m - i) : z[j] = out[i + j]
      BY <2>1, <3>1, WindowTiled
    <3>5. QED
      BY <2>1, <3>2, <3>3, <3>4
  <2>3. QED
    BY <2>1, <2>2 DEF m
<1>8. a \in Nat /\ Reached(out, 0, i + w) <= Len(text) /\ Reached(out, 0, i + w) = After(out[i + w])
  <2>1. Reached(out, 0, i + w) <= Reached(out, 0, Len(out))
    BY <1>4, <1>5
  <2>2. QED
    BY <2>1, <1>4, <1>5, <1>6
<1> HIDE DEF W, a
<1>9. Key(w) = Cut(text, a, EndOf(W[w]))
  <2>1. W # <<>> /\ \A k \in 1..(Len(W) - 1) : ~W[k].ws
    <3>1. Len(W) # 0
      BY <1>2, <1>7
    <3>2. \A k \in 1..(w - 1) : k \in 1..w
      BY <1>2
    <3>3. QED
      BY <3>1, <3>2, <1>2, <1>7
  <2>2. FlattenSeq(Orths(W)) = Cut(text, a, EndOf(W[Len(W)]))
    BY <2>1, <1>3, <1>6, <1>7, <1>8, TiledSpells
  <2>3. QED
    BY <2>2, <1>7 DEF Key, W
<1>10. W[w] = out[i + w]
  <2>1. w \in 1..w
    BY <1>2
  <2>2. QED
    BY <2>1, <1>7
<1>11. e \in Nat /\ a <= e /\ e <= Len(text)
  <2>1. e \in Nat /\ e <= After(out[i + w]) /\ After(out[i + w]) \in Nat /\ out[i + w].idx <= e
        /\ out[i + w].idx \in Nat
    BY <1>6, TokenEnds, Zenon
  <2>2. a <= out[i + w].idx
    <3>1. out[i + w].idx = Reached(out, 0, (i + w) - 1)
      BY <1>3, <1>5 DEF Tiled
    <3>2. (i + w) - 1 \in 0..Len(out) /\ i \in 0..((i + w) - 1)
      BY <1>2, <1>3
    <3>3. QED
      BY <3>1, <3>2, <1>4, <1>6
  <2> HIDE DEF e
  <2>3. QED
    BY <2>1, <2>2, <1>3, <1>8
<1>12. Key(w) = Cut(text, a, e)
  BY <1>9, <1>10
<1> HIDE DEF e
<1>13. Len(Key(w)) = e - a
  BY <1>3, <1>8, <1>11, <1>12, CutType
<1>14. a + Len(Key(w)) = e
  BY <1>8, <1>11, <1>13
<1>15. QED
  BY <1>2, <1>6, <1>8, <1>11, <1>12, <1>14 DEF w, a, e

(* A merged window tiles what its tokens tiled.                             *)
LEMMA MergeWindowTiles == ASSUME TInv, MergeWindow PROVE TInv'
<1> DEFINE w == Max(Mergeable)
           a == out[i + 1].idx
           key == Key(w)
           S == SpecialTokens(key, a)
           x == [S EXCEPT ![Len(S)].ws = out[i + w].ws]
           e == EndOf(out[i + w])
<1>1. /\ pc = "specials" /\ pc' = "specials" /\ text' = text /\ out' = out /\ Mergeable # {}
      /\ result' = result \o x /\ i' = i + w
  BY DEF MergeWindow, Merges
<1>2. /\ w \in {2, 3} /\ i + w <= Len(out) /\ key \in DOMAIN rules.specials
      /\ a \in Nat /\ a = Reached(out, 0, i) /\ a + Len(key) <= Len(text)
      /\ key = Cut(text, a, a + Len(key)) /\ a + Len(key) = e
      /\ out[i + w] \in Token /\ Reached(out, 0, i + w) = After(out[i + w])
      /\ Fits(text, out[i + w], Len(text))
  BY <1>1, MergeableFacts
<1>3. /\ i \in Nat /\ out \in Seq(Token) /\ result \in Seq(Token) /\ Tiled(text, out, 0, Len(text))
      /\ Tiled(text, result, 0, Reached(out, 0, i)) /\ text \in Seq(Runes) /\ rules \in Compiled
  BY <1>1, TextsAssumption DEF TInv, TypeInv, Merging
<1> HIDE DEF w, a, key
<1>4. /\ S \in Seq(Token) /\ S # <<>> /\ (\A k \in DOMAIN S : ~S[k].ws)
      /\ Tiled(text, S, a, a + Len(key))
  BY <1>2, <1>3, SpecialTiled
<1> HIDE DEF S, e
<1>5. out[i + w].ws \in BOOLEAN /\ (out[i + w].ws => text[e + 1] = Space)
      /\ After(out[i + w]) = (IF out[i + w].ws THEN e + 1 ELSE e)
  <2>1. out[i + w].ws \in BOOLEAN /\ After(out[i + w]) = (IF out[i + w].ws THEN e + 1 ELSE e)
    BY <1>2, TokenEnds, Zenon DEF e
  <2>2. QED
    BY <2>1, <1>2 DEF Fits, e
<1>6. x \in Seq(Token) /\ Tiled(text, x, Reached(out, 0, i), Reached(out, 0, i + w))
  <2>1. ~S[Len(S)].ws
    <3>1. Len(S) \in DOMAIN S
      BY <1>4
    <3>2. QED
      BY <3>1, <1>4
  <2> DEFINE f == out[i + w].ws
  <2>2. f \in BOOLEAN /\ (f => text[e + 1] = Space)
    BY <1>5
  <2>3. Tiled(text, S, a, e)
    BY <1>2, <1>4
  <2> HIDE DEF f
  <2>4. /\ [S EXCEPT ![Len(S)].ws = f] \in Seq(Token)
        /\ Tiled(text, [S EXCEPT ![Len(S)].ws = f], a, IF f THEN e + 1 ELSE e)
    BY <1>2, <1>4, <2>1, <2>2, <2>3, TiledFlagAs
  <2>5. QED
    BY <2>4, <1>2, <1>5 DEF f
<1> HIDE DEF x
<1>7. result' \in Seq(Token) /\ Tiled(text, result', 0, Reached(out, 0, i + w))
  BY <1>1, <1>3, <1>6, TiledJoin
<1>8. TypeInv'
  <2>1. i + w \in Nat
    BY <1>2, <1>3
  <2>2. QED
    BY <2>1, <1>1, <1>7 DEF TInv, TypeInv, MergeWindow, chunkVars
<1>9. Merging'
  BY <1>1, <1>2, <1>3, <1>7 DEF Merging
<1>10. QED
  BY <1>1, <1>8, <1>9 DEF TInv, Walks, Strips, Splits, Settled, Written

(* A copied token stays where it was.                                       *)
LEMMA CopyTokenTiles == ASSUME TInv, CopyToken PROVE TInv'
<1> DEFINE x == out[i + 1]
           W == SubSeq(out, i + 1, i + 1)
<1>1. /\ pc = "specials" /\ pc' = "specials" /\ text' = text /\ out' = out /\ i < Len(out)
      /\ result' = Append(result, x) /\ i' = i + 1
  BY DEF CopyToken
<1>2. /\ i \in Nat /\ out \in Seq(Token) /\ result \in Seq(Token) /\ Tiled(text, out, 0, Len(text))
      /\ Tiled(text, result, 0, Reached(out, 0, i)) /\ Len(out) \in Nat
  BY <1>1 DEF TInv, TypeInv, Merging
<1>3. i + 1 <= Len(out) /\ i + 1 \in 1..Len(out) /\ 1 \in Nat
  BY <1>1, <1>2
<1>4. /\ W \in Seq(Token) /\ Len(W) = 1 /\ \A j \in 1..1 : W[j] = out[i + j]
      /\ Tiled(text, W, Reached(out, 0, i), Reached(out, 0, i + 1))
  <2> DEFINE m == i + 1
  <2>1. m \in Nat /\ i <= m /\ m <= Len(out) /\ m - i = 1 /\ W = SubSeq(out, i + 1, m)
    BY <1>2, <1>3
  <2> HIDE DEF m, W
  <2>2. /\ W \in Seq(Token) /\ Len(W) = m - i /\ (\A j \in 1..(m - i) : W[j] = out[i + j])
        /\ Tiled(text, W, Reached(out, 0, i), Reached(out, 0, m))
    <3>1. 0 \in Nat /\ i \in Nat /\ out \in Seq(Token) /\ Tiled(text, out, 0, Len(text))
      BY <1>2
    <3> DEFINE z == SubSeq(out, i + 1, m)
    <3>2. Tiled(text, z, Reached(out, 0, i), Reached(out, 0, m))
      BY <2>1, <3>1, WindowTiled, Zenon
    <3>3. z \in Seq(Token) /\ Len(z) = m - i
      BY <2>1, <3>1, WindowTiled
    <3>4. \A j \in 1..(m - i) : z[j] = out[i + j]
      BY <2>1, <3>1, WindowTiled
    <3>5. QED
      BY <2>1, <3>2, <3>3, <3>4
  <2>3. QED
    BY <2>1, <2>2 DEF m
<1>5. x \in Token
  BY <1>2, <1>3
<1> HIDE DEF W
<1>6. W[1] = x
  BY <1>4
<1> HIDE DEF x
<1>7. W = <<x>> /\ Append(result, x) = result \o <<x>>
  BY <1>2, <1>4, <1>5, <1>6
<1>8. result' \in Seq(Token) /\ Tiled(text, result', 0, Reached(out, 0, i + 1))
  <2>1. result' = result \o W
    BY <1>1, <1>7
  <2>2. result \o W \in Seq(Token) /\ Tiled(text, result \o W, 0, Reached(out, 0, i + 1))
    BY <1>2, <1>4, TiledJoin
  <2>3. QED
    BY <2>1, <2>2
<1>9. TypeInv'
  <2>1. i + 1 \in Nat
    BY <1>2
  <2>2. QED
    BY <2>1, <1>1, <1>8 DEF TInv, TypeInv, CopyToken, chunkVars
<1>10. Merging'
  BY <1>1, <1>2, <1>3, <1>8 DEF Merging
<1>11. QED
  BY <1>1, <1>9, <1>10 DEF TInv, Walks, Strips, Splits, Settled, Written

(* The second pass ends where the tokens of the first do.                   *)
LEMMA EndSpecialsTiles == ASSUME TInv, EndSpecials PROVE TInv'
<1>1. pc = "specials" /\ pc' = "doc" /\ text' = text /\ result' = result /\ i = Len(out)
  BY DEF EndSpecials
<1>2. TypeInv'
  BY <1>1 DEF TInv, TypeInv, EndSpecials, chunkVars
<1>3. Tiled(text, result, 0, Reached(out, 0, Len(out))) /\ Len(text) = Reached(out, 0, Len(out))
  BY <1>1 DEF TInv, Merging, Tiled
<1>4. Settled'
  BY <1>1, <1>3 DEF Settled
<1>5. QED
  BY <1>1, <1>2, <1>4 DEF TInv, Walks, Strips, Splits, Merging, Written

(* The document is written from the tokens.                                 *)
LEMMA ToDocTiles == ASSUME TInv, ToDoc PROVE TInv'
<1>1. pc = "doc" /\ pc' = "done" /\ text' = text /\ result' = result
  BY DEF ToDoc
<1>2. TypeInv'
  BY <1>1 DEF TInv, TypeInv, ToDoc, chunkVars
<1>3. Settled'
  BY <1>1 DEF TInv, Settled
<1>4. Written'
  <2>1. \A k : WhitespaceAfter(k)' = WhitespaceAfter(k)
    BY <1>1 DEF WhitespaceAfter, NextStart, Slice
  <2>2. doc' = [k \in DOMAIN result |->
               [text |-> result[k].orth, whitespace |-> WhitespaceAfter(k),
                idx |-> result[k].idx, norm |-> result[k].norm]]
    BY DEF ToDoc
  <2>3. QED
    BY <1>1, <2>1, <2>2 DEF Written
<1>5. QED
  BY <1>1, <1>2, <1>3, <1>4 DEF TInv, Walks, Strips, Splits, Merging

(* A step that changes nothing.                                             *)
LEMMA StutterTiles == ASSUME TInv, UNCHANGED vars PROVE TInv'
<1>1. /\ pc' = pc /\ text' = text /\ rules' = rules /\ i' = i /\ out' = out /\ result' = result
      /\ lo' = lo /\ hi' = hi /\ pos' = pos /\ spans' = spans /\ prefixes' = prefixes
      /\ suffixes' = suffixes /\ doc' = doc
  BY DEF vars, chunkVars
<1>2. TypeInv' /\ Merging' /\ Settled' /\ Splits' /\ Strips'
  BY <1>1 DEF TInv, TypeInv, Merging, Settled, Splits, Strips
<1>3. Walks'
  <2>1. IsSpaceAt(i)' = IsSpaceAt(i)
    BY <1>1 DEF IsSpaceAt
  <2>2. QED
    BY <2>1, <1>1 DEF TInv, Walks
<1>4. Written'
  <2>1. \A k : WhitespaceAfter(k)' = WhitespaceAfter(k)
    BY <1>1 DEF WhitespaceAfter, NextStart, Slice
  <2>2. QED
    BY <1>1, <2>1 DEF TInv, Written
<1>5. QED
  BY <1>2, <1>3, <1>4 DEF TInv

(* Every step keeps the invariant.                                          *)
LEMMA NextTiles == ASSUME TInv, [Next]_vars PROVE TInv'
BY CollectChunkTiles, FlagSpaceTiles, EmitSpacesTiles, EndTextTiles, StripAffixesTiles,
   AttachNothingTiles, AttachTokenMatchTiles, AttachSpecialTiles, AttachWordTiles,
   SplitInfixesTiles, CutInfixTiles, EndInfixesTiles, MergeWindowTiles, CopyTokenTiles,
   EndSpecialsTiles, ToDocTiles, StutterTiles
   DEF Next, Chunk

-----------------------------------------------------------------------------
(* The text is tiled, and the document spells it.                          *)

(* The invariant says that tokens tile what has been read.                  *)
LEMMA InvariantTiles == ASSUME TInv PROVE TokensTile
<1>1. /\ out \in Seq(Token) /\ prefixes \in Seq(Token) /\ suffixes \in Seq(Token)
      /\ result \in Seq(Token) /\ pc \in {"text", "affixes", "infixes", "specials", "doc", "done"}
      /\ i \in Nat
  BY DEF TInv, TypeInv
<1>2. CASE pc = "text"
  <2>1. Tiles(out, 0, i)
    BY <1>1, <1>2, TiledIsTiles DEF TInv, Walks
  <2>2. QED
    BY <1>2, <2>1 DEF TokensTile
<1>3. CASE pc = "affixes"
  <2>1. /\ Tiled(text, out \o prefixes, 0, lo) /\ Tiled(text, Reverse(suffixes), hi, i)
        /\ Plain(suffixes)
    BY <1>3 DEF TInv, Strips
  <2>2. out \o prefixes \in Seq(Token) /\ Reverse(suffixes) \in Seq(Token)
    BY <1>1, <2>1, PlainReverse
  <2>3. Tiles(out \o prefixes, 0, lo) /\ Tiles(Reverse(suffixes), hi, i)
    BY <2>1, <2>2, TiledIsTiles
  <2>4. QED
    BY <1>3, <2>3 DEF TokensTile
<1>4. CASE pc = "infixes"
  <2>1. /\ Tiled(text, out, 0, pos) /\ Tiled(text, Reverse(suffixes), hi, i)
        /\ Plain(suffixes) /\ pos <= hi
    BY <1>4 DEF TInv, Splits
  <2>2. Reverse(suffixes) \in Seq(Token)
    BY <1>1, <2>1, PlainReverse
  <2>3. Tiles(out, 0, pos) /\ Tiles(Reverse(suffixes), hi, i)
    BY <1>1, <2>1, <2>2, TiledIsTiles
  <2>4. QED
    BY <1>4, <2>1, <2>3 DEF TokensTile
<1>5. CASE pc = "specials"
  <2> DEFINE y == SubSeq(out, i + 1, Len(out))
  <2>1. /\ Tiled(text, out, 0, Len(text)) /\ i <= Len(out)
        /\ Tiled(text, result, 0, Reached(out, 0, i))
    BY <1>5 DEF TInv, Merging
  <2>2. i \in 0..Len(out) /\ 0 \in Nat
    BY <1>1, <2>1
  <2>3. y \in Seq(Token) /\ Tiled(text, y, Reached(out, 0, i), Len(text))
    BY <1>1, <2>1, <2>2, TiledSplit
  <2> HIDE DEF y
  <2>4. result \o y \in Seq(Token) /\ Tiled(text, result \o y, 0, Len(text))
    BY <1>1, <2>1, <2>2, <2>3, TiledJoin
  <2>5. Tiles(result \o y, 0, Len(text))
    BY <2>4, TiledIsTiles
  <2>6. QED
    BY <1>5, <2>5 DEF TokensTile, y
<1>6. CASE pc \in {"doc", "done"}
  <2>1. Tiles(result, 0, Len(text))
    BY <1>1, <1>6, TiledIsTiles DEF TInv, Settled
  <2>2. QED
    BY <1>6, <2>1 DEF TokensTile
<1>7. QED
  BY <1>1, <1>2, <1>3, <1>4, <1>5, <1>6

(* Tokens that tile the text spell it: each with the white space up to the  *)
(* next.                                                                    *)
LEMMA InvariantSpells == ASSUME TInv PROVE RoundTrip
<1> SUFFICES ASSUME pc = "done"
             PROVE  FlattenSeq([k \in DOMAIN doc |-> doc[k].text \o doc[k].whitespace]) = text
  BY DEF RoundTrip
<1> DEFINE n == Len(result)
           s == [k \in DOMAIN doc |-> doc[k].text \o doc[k].whitespace]
           flat(k) == FlattenSeq(SubSeq(s, 1, k))
           E(k) == IF k = 0 THEN 0 ELSE NextStart(k)
           T == {k \in 0..n : flat(k) = Cut(text, 0, E(k))}
<1>1. /\ result \in Seq(Token) /\ text \in Seq(Runes) /\ Len(text) \in Nat /\ n \in Nat
      /\ Tiled(text, result, 0, Len(text)) /\ DOMAIN result = 1..n
      /\ \A k \in 1..n : result[k] \in Token
  BY TextsAssumption DEF TInv, TypeInv, Settled
<1>2. DOMAIN doc = 1..n /\ \A k \in 1..n : doc[k].text = result[k].orth
                                            /\ doc[k].whitespace = WhitespaceAfter(k)
  BY <1>1 DEF TInv, Written
<1>3. /\ \A k \in 0..n : Reached(result, 0, k) \in Nat /\ Reached(result, 0, k) <= Len(text)
      /\ \A k \in 1..n : Reached(result, 0, k) = After(result[k])
      /\ Reached(result, 0, 0) = 0 /\ Len(text) = Reached(result, 0, n)
  <2>1. 0 \in Nat /\ n \in 0..n
    BY <1>1
  <2>2. /\ \A k \in 0..n : Reached(result, 0, k) \in Nat
        /\ \A k \in 0..n : \A j \in 0..k : Reached(result, 0, j) <= Reached(result, 0, k)
        /\ \A k \in 1..n : Reached(result, 0, k) = After(result[k])
        /\ Len(text) = Reached(result, 0, n)
    BY <1>1, <2>1, ReachedGrows DEF Tiled
  <2>3. \A k \in 0..n : Reached(result, 0, k) <= Len(text)
    BY <2>1, <2>2
  <2>4. QED
    BY <2>2, <2>3 DEF Reached
<1>4. \A k \in 1..n : result[k].idx = Reached(result, 0, k - 1) /\ Fits(text, result[k], Len(text))
  BY <1>1 DEF Tiled
<1> HIDE DEF n, s, flat
<1>5. \A k \in 0..n : E(k) = Reached(result, 0, k)
  <2> TAKE k \in 0..n
  <2>1. CASE k = 0
    BY <2>1, <1>3
  <2>2. CASE k # 0
    <3>1. k \in Nat /\ k < n => k + 1 \in 1..n /\ (k + 1) - 1 = k
      BY <1>1
    <3>2. ~(k < n) => k = n
      BY <1>1
    <3>3. NextStart(k) = IF k < n THEN result[k + 1].idx ELSE Len(text)
      BY DEF NextStart, n
    <3>4. NextStart(k) = Reached(result, 0, k)
      BY <3>1, <3>2, <3>3, <1>3, <1>4
    <3>5. QED
      BY <2>2, <3>4
  <2>3. QED
    BY <2>1, <2>2
<1>6. ASSUME NEW k \in 1..n
      PROVE  /\ result[k].orth \o WhitespaceAfter(k) = Cut(text, E(k - 1), E(k))
             /\ result[k].orth \o WhitespaceAfter(k) \in Seq(Runes)
             /\ E(k - 1) \in Nat /\ E(k) \in Nat /\ E(k - 1) <= E(k) /\ E(k) <= Len(text)
  <2> DEFINE e == EndOf(result[k])
             a == E(k - 1)
             b == E(k)
  <2>1. k - 1 \in 0..n /\ k \in 0..n /\ k # 0
    BY <1>1
  <2>2. /\ a = result[k].idx /\ b = After(result[k]) /\ b = NextStart(k) /\ b <= Len(text)
        /\ result[k].orth = Cut(text, result[k].idx, e)
    BY <2>1, <1>3, <1>4, <1>5 DEF Fits
  <2>3. /\ e \in Nat /\ result[k].idx \in Nat /\ result[k].idx <= e /\ After(result[k]) \in Nat
        /\ e <= After(result[k])
    BY <1>1, TokenEnds, Zenon
  <2>4. WhitespaceAfter(k) = IF e < NextStart(k) THEN Cut(text, e, NextStart(k)) ELSE <<>>
    BY DEF WhitespaceAfter, Slice, Cut
  <2> HIDE DEF e, a, b, E
  <2>5. a \in Nat /\ b \in Nat /\ a <= e /\ e <= b /\ e <= Len(text) /\ a <= b
    BY <2>2, <2>3, <1>1
  <2>6. WhitespaceAfter(k) = Cut(text, e, b)
    <3>1. CASE e < b
      BY <3>1, <2>2, <2>4
    <3>2. CASE ~(e < b)
      <4>1. e = b
        BY <3>2, <2>3, <2>5
      <4>2. Cut(text, e, e) = <<>>
        BY <2>3, <2>5, <1>1, CutNone
      <4>3. QED
        BY <3>2, <4>1, <4>2, <2>2, <2>4
    <3>3. QED
      BY <3>1, <3>2
  <2>7. Cut(text, a, e) \o Cut(text, e, b) = Cut(text, a, b)
    <3>1. /\ text \in Seq(Runes) /\ a \in Nat /\ e \in Nat /\ b \in Nat
          /\ a <= e /\ e <= b /\ b <= Len(text)
      BY <2>2, <2>3, <2>5, <1>1
    <3>2. QED
      BY <3>1, CutJoin
  <2>8. Cut(text, a, b) \in Seq(Runes)
    BY <2>2, <2>5, <1>1, CutType
  <2>9. QED
    BY <2>2, <2>5, <2>6, <2>7, <2>8 DEF a, b
<1>7. s \in Seq(Seq(Runes)) /\ Len(s) = n /\ \A k \in 1..n : s[k] = Cut(text, E(k - 1), E(k))
  <2> DEFINE v(k) == result[k].orth \o WhitespaceAfter(k)
  <2>1. s = [k \in 1..n |-> v(k)]
    <3>1. s = [k \in 1..n |-> doc[k].text \o doc[k].whitespace]
      BY <1>2 DEF s
    <3>2. \A k \in 1..n : doc[k].text \o doc[k].whitespace = v(k)
      BY <1>2
    <3> HIDE DEF v
    <3>3. QED
      BY <3>1, <3>2
  <2>2. \A k \in 1..n : v(k) \in Seq(Runes) /\ v(k) = Cut(text, E(k - 1), E(k))
    BY <1>6
  <2> HIDE DEF v, E
  <2>3. QED
    BY <1>1, <2>1, <2>2
<1>8. flat(0) = <<>> /\ flat(n) = FlattenSeq(s)
  BY <1>7, FlattenType DEF flat
<1>9. \A k \in 1..n : flat(k) = flat(k - 1) \o s[k]
  BY <1>7, FlattenStep DEF flat
<1> HIDE DEF E
<1>10. 0 \in T
  <2>1. Cut(text, 0, 0) = <<>> /\ 0 \in 0..n
    BY <1>1, CutNone
  <2>2. E(0) = 0
    BY DEF E
  <2>3. QED
    BY <1>8, <2>1, <2>2
<1>11. ASSUME NEW k \in 0..(n - 1), k \in T PROVE k + 1 \in T
  <2>1. k + 1 \in 1..n /\ (k + 1) - 1 = k /\ k + 1 \in 0..n
    BY <1>1
  <2>2. /\ E(k) \in Nat /\ E(k + 1) \in Nat /\ E(k) <= E(k + 1) /\ E(k + 1) <= Len(text)
        /\ s[k + 1] = Cut(text, E(k), E(k + 1)) /\ flat(k + 1) = flat(k) \o s[k + 1]
        /\ flat(k) = Cut(text, 0, E(k))
    <3>1. E((k + 1) - 1) \in Nat /\ E(k + 1) \in Nat /\ E((k + 1) - 1) <= E(k + 1) /\ E(k + 1) <= Len(text)
      BY <1>6, <2>1
    <3>2. s[k + 1] = Cut(text, E((k + 1) - 1), E(k + 1)) /\ flat(k + 1) = flat((k + 1) - 1) \o s[k + 1]
      BY <1>7, <1>9, <2>1
    <3>3. QED
      BY <3>1, <3>2, <2>1, <1>11
  <2>3. Cut(text, 0, E(k)) \o Cut(text, E(k), E(k + 1)) = Cut(text, 0, E(k + 1))
    <3>1. 0 \in Nat /\ 0 <= E(k)
      BY <2>2
    <3>2. QED
      BY <3>1, <2>2, <1>1, CutJoin, Zenon
  <2>4. QED
    BY <2>1, <2>2, <2>3
<1>12. 0..n \subseteq T
  <2> HIDE DEF T
  <2> QED
    BY <1>1, <1>10, <1>11, InductionUpTo
<1>13. n \in T /\ E(n) = Len(text)
  <2>1. n \in 0..n
    BY <1>1
  <2>2. QED
    BY <2>1, <1>3, <1>5, <1>12
<1>14. FlattenSeq(s) = text
  <2>1. Cut(text, 0, Len(text)) = text
    <3>1. 0 \in Nat /\ 0 <= Len(text)
      BY <1>1
    <3>2. QED
      BY <3>1, <1>1, CutNone
  <2>2. QED
    BY <2>1, <1>8, <1>13
<1>15. QED
  BY <1>14 DEF s

(* At every point of Tokenize the tokens made so far tile the runes read so  *)
(* far, for any text, any patterns and any table whose pieces spell their    *)
(* keys (tokenizer.go:40-86, 240-340, 146-212).                                 *)
THEOREM TokenizerTiles == Spec => []TokensTile
<1>1. TInv /\ [Next]_vars => TInv'
  BY NextTiles
<1>2. QED
  BY <1>1, InitTiles, InvariantTiles, PTL DEF Spec

(* The document spells the text: "Doc.Text() round-trips the input verbatim" *)
(* (tokenizer.go:92-93), whatever the rules are.                             *)
THEOREM DocumentSpellsText == Spec => []RoundTrip
<1>1. TInv /\ [Next]_vars => TInv'
  BY NextTiles
<1>2. QED
  BY <1>1, InitTiles, InvariantSpells, PTL DEF Spec

-----------------------------------------------------------------------------
(* Norms.                                                                  *)

(* What NormsJustified asks of one token.                                  *)
Justified(r, t, tok) ==
  tok.norm # NoNorm =>
    \E key \in DOMAIN r.specials : \E a \in 0..tok.idx :
      /\ a + Len(key) <= Len(t) /\ key = Cut(t, a, a + Len(key))
      /\ tok.orth = Cut(t, tok.idx, EndOf(tok))
      /\ \E p \in DOMAIN r.specials[key] :
           /\ r.specials[key][p].orth = tok.orth /\ r.specials[key][p].norm = tok.norm
           /\ tok.idx = a + Len(FlattenSeq(SubSeq(Orths(r.specials[key]), 1, p - 1)))

AllJustified(r, t, toks) == \A k \in 1..Len(toks) : Justified(r, t, toks[k])

(* All tokens in all lists are justified.                                   *)
JInv ==
  /\ AllJustified(rules, text, out) /\ AllJustified(rules, text, prefixes)
  /\ AllJustified(rules, text, suffixes) /\ AllJustified(rules, text, result)

(* No tokens.                                                               *)
LEMMA JustifiedNone == ASSUME NEW r, NEW t PROVE AllJustified(r, t, <<>>)
<1>1. Len(<<>>) = 0
  OBVIOUS
<1>2. QED
  BY <1>1 DEF AllJustified

(* One token.                                                               *)
LEMMA JustifiedOne ==
  ASSUME NEW r, NEW t, NEW tok \in Token, tok.norm = NoNorm
  PROVE  AllJustified(r, t, <<tok>>)
<1>1. Len(<<tok>>) = 1 /\ <<tok>>[1] = tok
  OBVIOUS
<1>2. \A k \in 1..1 : k = 1
  OBVIOUS
<1>3. QED
  BY <1>1, <1>2 DEF AllJustified, Justified

(* Justified tokens joined.                                                 *)
LEMMA JustifiedJoin ==
  ASSUME NEW r, NEW t, NEW x \in Seq(Token), NEW y \in Seq(Token),
         AllJustified(r, t, x), AllJustified(r, t, y)
  PROVE  x \o y \in Seq(Token) /\ AllJustified(r, t, x \o y)
<1> DEFINE z == x \o y
           m == Len(x)
           n == Len(y)
<1>1. m \in Nat /\ n \in Nat /\ Len(z) = m + n /\ z \in Seq(Token)
  OBVIOUS
<1>2. (\A k \in 1..m : z[k] = x[k]) /\ \A k \in 1..n : z[m + k] = y[k]
  OBVIOUS
<1> HIDE DEF z
<1>3. ASSUME NEW k \in 1..(m + n) PROVE Justified(r, t, z[k])
  <2>1. CASE k <= m
    BY <2>1, <1>1, <1>2 DEF AllJustified
  <2>2. CASE k > m
    <3>1. k - m \in 1..n /\ m + (k - m) = k
      BY <2>2, <1>1
    <3>2. z[k] = y[k - m]
      BY <3>1, <1>2
    <3>3. QED
      BY <3>1, <3>2 DEF AllJustified
  <2>3. QED
    BY <1>1, <2>1, <2>2
<1>4. AllJustified(r, t, z)
  BY <1>1, <1>3 DEF AllJustified
<1>5. QED
  BY <1>1, <1>4 DEF z

(* Justified tokens reversed.                                               *)
LEMMA JustifiedReverse ==
  ASSUME NEW r, NEW t, NEW x \in Seq(Token), AllJustified(r, t, x)
  PROVE  Reverse(x) \in Seq(Token) /\ AllJustified(r, t, Reverse(x))
<1>1. CASE x = <<>>
  BY <1>1, ReverseNone
<1>2. CASE x # <<>>
  <2>1. PICK tok \in Token : TRUE
    <3>1. x[1] \in Token
      BY <1>2
    <3>2. QED
      BY <3>1
  <2>2. /\ Reverse(x) \in Seq(Token) /\ Len(Reverse(x)) = Len(x)
        /\ \A k \in 1..Len(x) : Reverse(x)[k] = x[Len(x) - k + 1]
    BY <2>1, ReverseFacts
  <2>3. \A k \in 1..Len(x) : Len(x) - k + 1 \in 1..Len(x)
    OBVIOUS
  <2>4. QED
    BY <2>2, <2>3 DEF AllJustified
<1>3. QED
  BY <1>1, <1>2

(* A flag is no matter to a norm.                                          *)
LEMMA JustifiedFlag ==
  ASSUME NEW r, NEW t, NEW x \in Seq(Token), AllJustified(r, t, x), x # <<>>, NEW f \in BOOLEAN
  PROVE  /\ [x EXCEPT ![Len(x)].ws = f] \in Seq(Token)
         /\ AllJustified(r, t, [x EXCEPT ![Len(x)].ws = f])
<1> DEFINE n == Len(x)
           last == [x[n] EXCEPT !.ws = f]
           z == [x EXCEPT ![n].ws = f]
<1>1. n \in Nat /\ n \in 1..n /\ (\A k \in 1..n : x[k] \in Token) /\ DOMAIN x = 1..n
  OBVIOUS
<1>2. last \in Token /\ last.orth = x[n].orth /\ last.idx = x[n].idx /\ last.norm = x[n].norm
  BY <1>1 DEF Token
<1> HIDE DEF n
<1>3. z = [k \in DOMAIN x |-> IF k = n THEN last ELSE x[k]]
  BY <1>1, Zenon
<1> HIDE DEF last, z
<1>4. z \in Seq(Token) /\ Len(z) = n /\ \A k \in 1..n : z[k] = IF k = n THEN last ELSE x[k]
  <2>1. \A k \in 1..n : (IF k = n THEN last ELSE x[k]) \in Token
    BY <1>1, <1>2
  <2>2. QED
    BY <1>1, <1>3, <2>1
<1>5. Justified(r, t, last)
  <2>1. Justified(r, t, x[n])
    BY <1>1 DEF AllJustified, n
  <2>2. EndOf(last) = EndOf(x[n])
    BY <1>2 DEF EndOf
  <2>3. QED
    BY <2>1, <2>2, <1>2 DEF Justified
<1>6. \A k \in 1..n : Justified(r, t, z[k])
  BY <1>4, <1>5 DEF AllJustified, n
<1>7. QED
  BY <1>4, <1>6 DEF AllJustified, z, n

(* The pieces of a special case are justified by it.                        *)
LEMMA JustifiedSpecial ==
  ASSUME rules \in Compiled, text \in Seq(Runes), NEW key \in DOMAIN rules.specials,
         NEW a \in Nat, a + Len(key) <= Len(text), key = Cut(text, a, a + Len(key))
  PROVE  /\ SpecialTokens(key, a) \in Seq(Token) /\ SpecialTokens(key, a) # <<>>
         /\ AllJustified(rules, text, SpecialTokens(key, a))
<1> DEFINE S == SpecialTokens(key, a)
           o == Orths(rules.specials[key])
           B(p) == Len(FlattenSeq(SubSeq(o, 1, p - 1)))
<1>1. /\ S \in Seq(Token) /\ S # <<>> /\ DOMAIN S = DOMAIN rules.specials[key]
      /\ \A p \in DOMAIN S :
           /\ S[p].orth = rules.specials[key][p].orth /\ S[p].norm = rules.specials[key][p].norm
           /\ S[p].idx = a + B(p)
           /\ S[p].orth = Slice(S[p].idx, EndOf(S[p]))
           /\ S[p].idx \in Nat
  <2>1. /\ S \in Seq(Token) /\ S # <<>> /\ DOMAIN S = DOMAIN rules.specials[key]
        /\ \A p \in DOMAIN S :
             LET tok == S[p] IN
             /\ tok.orth = rules.specials[key][p].orth /\ tok.norm = rules.specials[key][p].norm
             /\ tok.idx = a + Len(FlattenSeq(SubSeq(Orths(rules.specials[key]), 1, p - 1)))
             /\ tok.orth = Slice(tok.idx, EndOf(tok))
    BY SpecialTiled
  <2> HIDE DEF S
  <2>2. \A p \in DOMAIN S : S[p] \in Token
    BY <2>1
  <2>3. \A p \in DOMAIN S : S[p].idx \in Nat
    BY <2>2, TokenEnds
  <2>4. QED
    BY <2>1, <2>3
<1>2. \A p \in DOMAIN S : B(p) \in Nat
  <2>1. \A p \in DOMAIN S : SubSeq(o, 1, p - 1) \in Seq(Seq(Runes)) /\ FlattenSeq(SubSeq(o, 1, p - 1)) \in Seq(Runes)
    <3> DEFINE D == [orth : Seq(Runes) \ {<<>>}, norm : Seq(Runes)]
               pieces == rules.specials[key]
    <3>1. pieces \in Seq(D) /\ \A d \in D : d.orth \in Seq(Runes)
      BY SpecialsAssumption
    <3> HIDE DEF D
    <3>2. DOMAIN pieces = 1..Len(pieces) /\ Len(pieces) \in Nat /\ \A p \in 1..Len(pieces) : pieces[p] \in D
      <4> HIDE DEF pieces
      <4> QED
        BY <3>1
    <3>3. o = [p \in 1..Len(pieces) |-> pieces[p].orth] /\ DOMAIN S = 1..Len(pieces)
      BY <3>2, <1>1 DEF Orths
    <3> HIDE DEF pieces, o, S
    <3>4. o \in Seq(Seq(Runes)) /\ Len(o) = Len(pieces)
      BY <3>1, <3>2, <3>3
    <3>5. \A p \in DOMAIN S : p - 1 \in 0..Len(o) /\ p \in Int
      BY <3>2, <3>3, <3>4
    <3>6. \A k \in 0..Len(o) : FlattenSeq(SubSeq(o, 1, k)) \in Seq(Runes)
      BY <3>4, FlattenType
    <3>7. \A k \in 0..Len(o) : SubSeq(o, 1, k) \in Seq(Seq(Runes))
      BY <3>4
    <3>8. QED
      BY <3>5, <3>6, <3>7
  <2> HIDE DEF o, S
  <2>2. QED
    BY <2>1
<1> HIDE DEF S, o
<1>3. ASSUME NEW p \in DOMAIN S PROVE Justified(rules, text, S[p])
  <2>1. a \in 0..S[p].idx
    <3> HIDE DEF B
    <3> QED
      BY <1>1, <1>2
  <2>2. S[p].orth = Cut(text, S[p].idx, EndOf(S[p])) /\ p \in DOMAIN rules.specials[key]
    BY <1>1 DEF Slice, Cut
  <2>3. QED
    BY <1>1, <2>1, <2>2 DEF Justified, o
<1>4. AllJustified(rules, text, S)
  <2>1. DOMAIN S = 1..Len(S)
    BY <1>1
  <2>2. QED
    BY <1>3, <2>1 DEF AllJustified
<1>5. QED
  BY <1>1, <1>4 DEF S

(* A piece has no norm to justify.                                          *)
LEMMA JustifiedPiece ==
  ASSUME NEW a \in Nat, NEW b \in Nat, a <= b, b <= Len(text), text \in Seq(Runes)
  PROVE  /\ Piece(a, b) \in Token /\ <<Piece(a, b)>> \in Seq(Token)
         /\ AllJustified(rules, text, <<Piece(a, b)>>)
BY TiledPiece, JustifiedOne, Zenon

(* A chunk emitted in one turn.                                             *)
LEMMA AttachJustifies ==
  ASSUME TInv, JInv, NEW T \in Seq(Token), Attach(T), AllJustified(rules, text, T)
  PROVE  JInv'
<1> DEFINE r == Reverse(suffixes)
           x == out \o prefixes
           y == T \o r
<1>1. /\ out' = x \o y /\ text' = text /\ rules' = rules /\ prefixes' = prefixes
      /\ suffixes' = suffixes /\ result' = result
  BY DEF Attach, EmitTail, chunkVars
<1>2. out \in Seq(Token) /\ prefixes \in Seq(Token) /\ suffixes \in Seq(Token)
  BY DEF TInv, TypeInv
<1>3. r \in Seq(Token) /\ AllJustified(rules, text, r)
  BY <1>2, JustifiedReverse DEF JInv
<1> HIDE DEF r
<1>4. x \in Seq(Token) /\ AllJustified(rules, text, x)
  BY <1>2, JustifiedJoin DEF JInv
<1>5. y \in Seq(Token) /\ AllJustified(rules, text, y)
  BY <1>3, JustifiedJoin
<1> HIDE DEF x, y
<1>6. AllJustified(rules, text, out')
  BY <1>1, <1>4, <1>5, JustifiedJoin
<1>7. QED
  BY <1>1, <1>6 DEF JInv

(* Every step keeps all norms justified.                                    *)
LEMMA NextJustifies == ASSUME TInv, JInv, [Next]_vars PROVE JInv'
<1>1. /\ out \in Seq(Token) /\ prefixes \in Seq(Token) /\ suffixes \in Seq(Token)
      /\ result \in Seq(Token) /\ text \in Seq(Runes) /\ Len(text) \in Nat /\ rules \in Compiled
      /\ i \in Nat /\ lo \in Nat /\ hi \in Nat /\ pos \in Nat
  BY TextsAssumption DEF TInv, TypeInv
<1>2. AllJustified(rules, text, <<>>) /\ <<>> \in Seq(Token)
  BY JustifiedNone
<1>3. CASE CollectChunk
  BY <1>2, <1>3 DEF CollectChunk, JInv
<1>4. CASE FlagSpace
  <2> DEFINE e == RunEnd(i)
             x == [out EXCEPT ![Len(out)].ws = TRUE]
             y == IF e > i + 1 THEN <<Piece(i + 1, e)>> ELSE <<>>
  <2>1. /\ out' = x \o y /\ i < Len(text) /\ out # <<>>
        /\ text' = text /\ rules' = rules /\ prefixes' = prefixes /\ suffixes' = suffixes
        /\ result' = result
    BY <1>4 DEF FlagSpace, Walking, chunkVars
  <2>2. e \in (i + 1)..Len(text)
    BY <1>1, <2>1, RunEndFacts
  <2>3. x \in Seq(Token) /\ AllJustified(rules, text, x)
    BY <1>1, <2>1, JustifiedFlag DEF JInv
  <2>4. y \in Seq(Token) /\ AllJustified(rules, text, y)
    <3>1. i + 1 \in Nat /\ e \in Nat /\ i + 1 <= e /\ e <= Len(text)
      BY <1>1, <2>2
    <3> HIDE DEF e
    <3>2. /\ <<Piece(i + 1, e)>> \in Seq(Token)
          /\ AllJustified(rules, text, <<Piece(i + 1, e)>>)
      BY <1>1, <3>1, JustifiedPiece
    <3>3. QED
      BY <1>2, <3>2
  <2> HIDE DEF x, y
  <2>5. AllJustified(rules, text, out')
    BY <2>1, <2>3, <2>4, JustifiedJoin
  <2>6. QED
    BY <2>1, <2>5 DEF JInv
<1>5. CASE EmitSpaces
  <2> DEFINE p == Piece(i, RunEnd(i))
  <2>1. /\ out' = Append(out, p) /\ i < Len(text)
        /\ text' = text /\ rules' = rules /\ prefixes' = prefixes /\ suffixes' = suffixes
        /\ result' = result
    BY <1>5 DEF EmitSpaces, Walking, chunkVars
  <2>2. RunEnd(i) \in (i + 1)..Len(text)
    BY <1>1, <2>1, RunEndFacts
  <2>3. p \in Token /\ <<p>> \in Seq(Token) /\ AllJustified(rules, text, <<p>>)
    <3>1. RunEnd(i) \in Nat /\ i <= RunEnd(i) /\ RunEnd(i) <= Len(text)
      BY <1>1, <2>2
    <3>2. QED
      BY <1>1, <3>1, JustifiedPiece
  <2> HIDE DEF p
  <2>4. out' = out \o <<p>>
    BY <1>1, <2>1, <2>3
  <2>5. AllJustified(rules, text, out')
    BY <1>1, <2>3, <2>4, JustifiedJoin DEF JInv
  <2>6. QED
    BY <2>1, <2>5 DEF JInv
<1>6. CASE EndText
  BY <1>6 DEF EndText, JInv, chunkVars
<1>7. CASE StripAffixes
  <2> DEFINE a == PrefixEnd
             b == SuffixStart
             p == Piece(lo, a)
             q == Piece(b, hi)
  <2>1. /\ pc = "affixes" /\ text' = text /\ rules' = rules /\ out' = out /\ result' = result
        /\ lo' = a /\ hi' = b
        /\ prefixes' = IF a > lo THEN Append(prefixes, p) ELSE prefixes
        /\ suffixes' = IF b < hi THEN Append(suffixes, q) ELSE suffixes
    BY <1>7 DEF StripAffixes
  <2>2. lo <= hi /\ hi <= Len(text) /\ 0 < Len(text) /\ text \in Texts
    BY <2>1, MiddleFacts
  <2>3. a \in Nat /\ lo <= a /\ a <= hi
    <3>1. FindPrefix(Middle) \in 0..(hi - lo)
      BY <1>1, <2>2, PrefixInside DEF Middle
    <3> HIDE DEF a
    <3>2. a = lo + FindPrefix(Middle)
      BY DEF a, PrefixEnd
    <3>3. QED
      BY <3>1, <3>2, <1>1
  <2>4. b \in Nat /\ b <= hi
    <3> HIDE DEF a
    <3>1. FindSuffix(Slice(a, hi)) \in 0..(hi - a)
      BY <1>1, <2>2, <2>3, SuffixInside
    <3> HIDE DEF b
    <3>2. b = hi - FindSuffix(Slice(a, hi))
      BY DEF a, b, SuffixStart
    <3>3. QED
      BY <3>1, <3>2, <1>1, <2>3
  <2> HIDE DEF a, b
  <2>5. p \in Token /\ <<p>> \in Seq(Token) /\ AllJustified(rules, text, <<p>>)
    <3>1. a <= Len(text)
      BY <1>1, <2>2, <2>3
    <3>2. QED
      BY <3>1, <1>1, <2>3, JustifiedPiece
  <2>6. q \in Token /\ <<q>> \in Seq(Token) /\ AllJustified(rules, text, <<q>>)
    BY <1>1, <2>2, <2>4, JustifiedPiece
  <2> HIDE DEF p, q
  <2>7. AllJustified(rules, text, prefixes')
    <3>1. Append(prefixes, p) = prefixes \o <<p>>
      BY <1>1, <2>5
    <3>2. AllJustified(rules, text, prefixes \o <<p>>)
      BY <1>1, <2>5, JustifiedJoin DEF JInv
    <3>3. QED
      BY <3>1, <3>2, <2>1 DEF JInv
  <2>8. AllJustified(rules, text, suffixes')
    <3>1. Append(suffixes, q) = suffixes \o <<q>>
      BY <1>1, <2>6
    <3>2. AllJustified(rules, text, suffixes \o <<q>>)
      BY <1>1, <2>6, JustifiedJoin DEF JInv
    <3>3. QED
      BY <3>1, <3>2, <2>1 DEF JInv
  <2>9. QED
    BY <2>1, <2>7, <2>8 DEF JInv
<1>8. CASE AttachNothing
  BY <1>2, <1>8, AttachJustifies DEF AttachNothing
<1>9. CASE AttachTokenMatch \/ AttachWord
  <2>1. pc = "affixes" /\ Attach(<<Piece(lo, hi)>>)
    BY <1>9 DEF AttachTokenMatch, AttachWord, Stripped
  <2>2. lo <= hi /\ hi <= Len(text)
    BY <2>1, MiddleFacts
  <2>3. <<Piece(lo, hi)>> \in Seq(Token) /\ AllJustified(rules, text, <<Piece(lo, hi)>>)
    BY <1>1, <2>2, JustifiedPiece
  <2>4. QED
    BY <2>1, <2>3, AttachJustifies, Zenon
<1>10. CASE AttachSpecial
  <2> DEFINE key == Middle
             T == SpecialTokens(key, lo)
  <2>1. pc = "affixes" /\ Attach(T) /\ key \in DOMAIN rules.specials
    BY <1>10 DEF AttachSpecial, Stripped, IsSpecial
  <2>2. lo + Len(key) = hi /\ hi <= Len(text) /\ key = Cut(text, lo, hi)
    <3>1. lo <= hi /\ hi <= Len(text) /\ Middle = Cut(text, lo, hi) /\ Len(Middle) = hi - lo
      BY <2>1, MiddleFacts
    <3>2. QED
      BY <3>1, <1>1
  <2> HIDE DEF key
  <2>3. T \in Seq(Token) /\ AllJustified(rules, text, T)
    <3>1. lo + Len(key) <= Len(text) /\ key = Cut(text, lo, lo + Len(key))
      BY <2>2
    <3>2. QED
      BY <1>1, <2>1, <3>1, JustifiedSpecial
  <2> HIDE DEF T
  <2>4. QED
    BY <2>1, <2>3, AttachJustifies
<1>11. CASE SplitInfixes
  <2>1. AllJustified(rules, text, out \o prefixes)
    BY <1>1, JustifiedJoin DEF JInv
  <2>2. QED
    BY <1>11, <2>1 DEF SplitInfixes, JInv
<1>12. CASE CutInfix
  <2>1. /\ pc = "infixes" /\ text' = text /\ rules' = rules /\ prefixes' = prefixes
        /\ suffixes' = suffixes /\ result' = result
    BY <1>12 DEF CutInfix
  <2>2. PICK sp \in FirstInfixes :
          out' = out \o (IF lo + sp.start > pos THEN <<Piece(pos, lo + sp.start)>> ELSE <<>>)
                     \o <<Piece(lo + sp.start, lo + sp.end)>>
    BY <1>12 DEF CutInfix
  <2> DEFINE a == lo + sp.start
             b == lo + sp.end
             x == IF a > pos THEN <<Piece(pos, a)>> ELSE <<>>
             y == <<Piece(a, b)>>
  <2>3. /\ sp \in spans /\ a >= pos /\ hi <= i /\ i <= Len(text)
        /\ sp.start \in Nat /\ sp.end \in Nat /\ sp.start <= sp.end /\ lo + sp.end <= hi
    BY <2>1 DEF FirstInfixes, TInv, Splits
  <2>4. a \in Nat /\ b \in Nat /\ pos <= a /\ a <= b /\ a <= Len(text) /\ b <= Len(text)
    <3>1. lo \in Nat /\ hi \in Nat /\ i \in Nat /\ pos \in Nat /\ Len(text) \in Nat
      BY <1>1
    <3>2. QED
      BY <3>1, <2>3
  <2>5. out' = (out \o x) \o y
    BY <2>2
  <2> HIDE DEF a, b
  <2>6. x \in Seq(Token) /\ AllJustified(rules, text, x)
    <3>1. <<Piece(pos, a)>> \in Seq(Token) /\ AllJustified(rules, text, <<Piece(pos, a)>>)
      BY <1>1, <2>4, JustifiedPiece
    <3>2. QED
      BY <3>1, <1>2
  <2>7. y \in Seq(Token) /\ AllJustified(rules, text, y)
    BY <1>1, <2>4, JustifiedPiece
  <2> HIDE DEF x, y
  <2>8. out \o x \in Seq(Token) /\ AllJustified(rules, text, out \o x)
    BY <1>1, <2>6, JustifiedJoin DEF JInv
  <2>9. AllJustified(rules, text, out')
    BY <2>5, <2>7, <2>8, JustifiedJoin
  <2>10. QED
    BY <2>1, <2>9 DEF JInv
<1>13. CASE EndInfixes
  <2> DEFINE r == Reverse(suffixes)
             x == IF pos < hi THEN <<Piece(pos, hi)>> ELSE <<>>
             y == x \o r
  <2>1. /\ pc = "infixes" /\ text' = text /\ rules' = rules /\ prefixes' = prefixes
        /\ suffixes' = suffixes /\ result' = result /\ out' = out \o y
    BY <1>13 DEF EndInfixes, EmitTail
  <2>2. r \in Seq(Token) /\ AllJustified(rules, text, r)
    BY <1>1, JustifiedReverse DEF JInv
  <2>3. x \in Seq(Token) /\ AllJustified(rules, text, x)
    <3>1. pos <= hi /\ hi <= i /\ i <= Len(text)
      BY <2>1 DEF TInv, Splits
    <3>2. hi <= Len(text)
      BY <3>1, <1>1
    <3>3. <<Piece(pos, hi)>> \in Seq(Token) /\ AllJustified(rules, text, <<Piece(pos, hi)>>)
      BY <1>1, <3>1, <3>2, JustifiedPiece
    <3>4. QED
      BY <3>3, <1>2
  <2> HIDE DEF r, x
  <2>4. y \in Seq(Token) /\ AllJustified(rules, text, y)
    BY <2>2, <2>3, JustifiedJoin
  <2> HIDE DEF y
  <2>5. AllJustified(rules, text, out')
    BY <1>1, <2>1, <2>4, JustifiedJoin DEF JInv
  <2>6. QED
    BY <2>1, <2>5 DEF JInv
<1>14. CASE MergeWindow
  <2> DEFINE w == Max(Mergeable)
             a == out[i + 1].idx
             key == Key(w)
             S == SpecialTokens(key, a)
             f == out[i + w].ws
             x == [S EXCEPT ![Len(S)].ws = f]
  <2>1. /\ pc = "specials" /\ text' = text /\ rules' = rules /\ out' = out /\ prefixes' = prefixes
        /\ suffixes' = suffixes /\ Mergeable # {} /\ result' = result \o x
    BY <1>14 DEF MergeWindow, Merges, chunkVars
  <2>2. /\ key \in DOMAIN rules.specials /\ a \in Nat /\ a + Len(key) <= Len(text)
        /\ key = Cut(text, a, a + Len(key)) /\ out[i + w] \in Token
    BY <2>1, MergeableFacts
  <2>3. f \in BOOLEAN
    BY <2>2, TokenEnds, Zenon
  <2> HIDE DEF w, a, key, f
  <2>4. S \in Seq(Token) /\ S # <<>> /\ AllJustified(rules, text, S)
    BY <1>1, <2>2, JustifiedSpecial
  <2> HIDE DEF S
  <2>5. x \in Seq(Token) /\ AllJustified(rules, text, x)
    BY <2>3, <2>4, JustifiedFlag
  <2> HIDE DEF x
  <2>6. AllJustified(rules, text, result')
    BY <1>1, <2>1, <2>5, JustifiedJoin DEF JInv
  <2>7. QED
    BY <2>1, <2>6 DEF JInv
<1>15. CASE CopyToken
  <2> DEFINE x == out[i + 1]
  <2>1. /\ text' = text /\ rules' = rules /\ out' = out /\ prefixes' = prefixes
        /\ suffixes' = suffixes /\ i < Len(out) /\ result' = Append(result, x)
    BY <1>15 DEF CopyToken, chunkVars
  <2>2. i + 1 \in 1..Len(out)
    BY <1>1, <2>1
  <2>3. x \in Token /\ Justified(rules, text, x)
    BY <1>1, <2>2 DEF JInv, AllJustified
  <2> HIDE DEF x
  <2>4. Len(Append(result, x)) = Len(result) + 1 /\ Len(result) \in Nat
        /\ Append(result, x)[Len(result) + 1] = x
        /\ \A k \in 1..Len(result) : Append(result, x)[k] = result[k]
    BY <1>1, <2>3
  <2>5. AllJustified(rules, text, Append(result, x))
    <3>1. \A k \in 1..(Len(result) + 1) : k = Len(result) + 1 \/ k \in 1..Len(result)
      BY <2>4
    <3>2. QED
      BY <3>1, <2>3, <2>4 DEF JInv, AllJustified
  <2>6. QED
    BY <2>1, <2>5 DEF JInv
<1>16. CASE EndSpecials
  BY <1>16 DEF EndSpecials, JInv, chunkVars
<1>17. CASE ToDoc
  BY <1>17 DEF ToDoc, JInv, chunkVars
<1>18. CASE UNCHANGED vars
  BY <1>18 DEF vars, chunkVars, JInv
<1>19. QED
  BY <1>3, <1>4, <1>5, <1>6, <1>7, <1>8, <1>9, <1>10, <1>11, <1>12, <1>13, <1>14, <1>15, <1>16,
     <1>17, <1>18 DEF Next, Chunk

(* The invariant says that norms come from the table.                       *)
LEMMA InvariantJustifies == ASSUME TInv, JInv PROVE NormsJustified
<1> SUFFICES ASSUME NEW tok \in Range(Unflagged(result)), tok.norm # NoNorm
             PROVE  \E key \in DOMAIN rules.specials, a \in 0..tok.idx :
                      /\ a + Len(key) <= Len(text) /\ key = Slice(a, a + Len(key))
                      /\ tok.orth = Slice(tok.idx, EndOf(tok))
                      /\ \E p \in DOMAIN rules.specials[key] :
                           /\ rules.specials[key][p].orth = tok.orth
                           /\ rules.specials[key][p].norm = tok.norm
                           /\ tok.idx = a + Len(FlattenSeq(SubSeq(Orths(rules.specials[key]), 1, p - 1)))
  BY DEF NormsJustified
<1>1. result \in Seq(Token)
  BY DEF TInv, TypeInv
<1>2. PICK k \in 1..Len(result) : tok = [result[k] EXCEPT !.ws = FALSE]
  <2>1. DOMAIN result = 1..Len(result)
    BY <1>1
  <2>2. QED
    BY <2>1 DEF Range, Unflagged
<1>3. result[k] \in Token /\ Justified(rules, text, result[k])
  BY <1>1 DEF JInv, AllJustified
<1>4. tok.orth = result[k].orth /\ tok.idx = result[k].idx /\ tok.norm = result[k].norm
  BY <1>2, <1>3 DEF Token
<1>5. EndOf(tok) = EndOf(result[k])
  BY <1>4 DEF EndOf
<1>6. Justified(rules, text, tok)
  BY <1>3, <1>4, <1>5 DEF Justified
<1>7. QED
  BY <1>6 DEF Justified, Slice, Cut

(* A norm override only reaches a token that is that piece of a special case *)
(* found at that place of the text (tokenizer.go:146-212, 302-307), whatever *)
(* the table and the patterns are.                                           *)
THEOREM NormsComeFromTheTable == Spec => []NormsJustified
<1>1. Init => JInv
  BY JustifiedNone DEF Init, JInv
<1>2. TInv /\ JInv /\ [Next]_vars => TInv' /\ JInv'
  BY NextTiles, NextJustifies
<1>3. QED
  BY <1>1, <1>2, InitTiles, InvariantJustifies, PTL DEF Spec

-----------------------------------------------------------------------------
(* Words the table or the token match decides.                             *)

(* The runes of t from a to b are a word of it.                             *)
WordIn(t, a, b) ==
  /\ a < b /\ \A c \in a..(b - 1) : t[c + 1] \notin SpaceRunes
  /\ a = 0 \/ t[a] \in SpaceRunes
  /\ b = Len(t) \/ t[b + 1] \in SpaceRunes

(* toks stand in o, up to the flags.                                       *)
Emits(o, toks) ==
  \E k \in 0..(Len(o) - Len(toks)) :
    \A j \in 1..Len(toks) : [o[k + j] EXCEPT !.ws = FALSE] = toks[j]

(* The tokens of a match, and SpecialTokens for given rules.               *)
WholeOf(t, a, b) == <<[orth |-> Cut(t, a, b), idx |-> a, ws |-> FALSE, norm |-> NoNorm]>>
SpecialOf(r, key, offset) ==
  LET pieces == r.specials[key]
      Before(p) == Len(FlattenSeq(SubSeq(Orths(pieces), 1, p - 1)))
  IN  [p \in DOMAIN pieces |->
         [orth |-> pieces[p].orth, idx |-> offset + Before(p),
          ws |-> FALSE, norm |-> pieces[p].norm]]

(* The token match, and the table, for given rules.                         *)
Matched(r, s) == IsWhole(r.tokenMatch, s)
Listed(r, s) == s \in DOMAIN r.specials

(* The word from a to b has come out as the rules say, if they decide it.   *)
WordKept(r, t, o, a, b) ==
  /\ Matched(r, Cut(t, a, b)) => Emits(o, WholeOf(t, a, b))
  /\ ~Matched(r, Cut(t, a, b)) /\ Listed(r, Cut(t, a, b)) => Emits(o, SpecialOf(r, Cut(t, a, b), a))

(* Every word that ends at n or before has come out as the rules say.      *)
Kept(r, t, o, n) ==
  \A a, b \in 0..Len(t) : WordIn(t, a, b) /\ b <= n => WordKept(r, t, o, a, b)

(* c to e is the only word that ends behind c and not behind e.             *)
OnlyWord(t, c, e) ==
  \A a, b \in 0..Len(t) : WordIn(t, a, b) /\ b <= e => b <= c \/ (a = c /\ b = e)

(* A chunk the rules decide as a whole is not stripped of anything.        *)
Undecided(c) ==
  Matched(rules, Cut(text, c, i)) \/ Listed(rules, Cut(text, c, i)) =>
    lo = c /\ hi = i /\ prefixes = <<>>

(* No word goes on behind n.                                                *)
AtEdge(t, n) == n = Len(t) \/ t[n + 1] \in SpaceRunes

(* The invariant on words: all that were read are kept, and a chunk is the  *)
(* only word not yet emitted.                                               *)
WInv ==
  /\ pc = "text" => /\ Kept(rules, text, out, i)
                    /\ AtEdge(text, i) \/ i = 0 \/ text[i] \in SpaceRunes
  /\ pc = "affixes" => /\ AtEdge(text, i)
                       /\ \E c \in 0..i : /\ OnlyWord(text, c, i)
                                          /\ Kept(rules, text, out, c)
                                          /\ Undecided(c)
  /\ pc = "infixes" => AtEdge(text, i) /\ Kept(rules, text, out, i)
  /\ pc = "specials" => Kept(rules, text, out, Len(text))

(* Tokens that follow leave those before where they are.                    *)
LEMMA EmitsLeft ==
  ASSUME NEW o \in Seq(Token), NEW x \in Seq(Token), NEW toks \in Seq(Token), Emits(o, toks)
  PROVE  Emits(o \o x, toks)
<1> DEFINE z == o \o x
           m == Len(toks)
<1>1. Len(o) \in Nat /\ Len(x) \in Nat /\ m \in Nat /\ Len(z) = Len(o) + Len(x)
      /\ \A k \in 1..Len(o) : z[k] = o[k]
  OBVIOUS
<1>2. PICK k \in 0..(Len(o) - m) : \A j \in 1..m : [o[k + j] EXCEPT !.ws = FALSE] = toks[j]
  BY DEF Emits
<1> HIDE DEF z, m
<1>3. k \in 0..(Len(z) - m) /\ \A j \in 1..m : k + j \in 1..Len(o)
  BY <1>1
<1>4. \A j \in 1..m : [z[k + j] EXCEPT !.ws = FALSE] = toks[j]
  BY <1>1, <1>2, <1>3
<1>5. QED
  BY <1>3, <1>4 DEF Emits, z, m

(* A flag on the last token changes nothing else.                           *)
LEMMA EmitsFlagged ==
  ASSUME NEW o \in Seq(Token), NEW toks \in Seq(Token), Emits(o, toks), o # <<>>
  PROVE  Emits([o EXCEPT ![Len(o)].ws = TRUE], toks)
<1> DEFINE n == Len(o)
           last == [o[n] EXCEPT !.ws = TRUE]
           z == [o EXCEPT ![n].ws = TRUE]
           m == Len(toks)
<1>1. n \in Nat /\ n \in 1..n /\ (\A k \in 1..n : o[k] \in Token) /\ DOMAIN o = 1..n /\ m \in Nat
  OBVIOUS
<1>2. last \in Token /\ [last EXCEPT !.ws = FALSE] = [o[n] EXCEPT !.ws = FALSE]
  BY <1>1 DEF Token
<1> HIDE DEF n, m
<1>3. z = [k \in DOMAIN o |-> IF k = n THEN last ELSE o[k]]
  BY <1>1, Zenon
<1> HIDE DEF last, z
<1>4. Len(z) = n /\ \A k \in 1..n : z[k] = IF k = n THEN last ELSE o[k]
  <2>1. \A k \in 1..n : (IF k = n THEN last ELSE o[k]) \in Token
    BY <1>1, <1>2
  <2>2. z \in Seq(Token) /\ Len(z) = n
    BY <1>1, <1>3, <2>1
  <2>3. QED
    BY <2>2, <1>1, <1>3
<1>5. \A k \in 1..n : [z[k] EXCEPT !.ws = FALSE] = [o[k] EXCEPT !.ws = FALSE]
  BY <1>2, <1>4
<1>6. PICK k \in 0..(n - m) : \A j \in 1..m : [o[k + j] EXCEPT !.ws = FALSE] = toks[j]
  BY DEF Emits, n, m
<1>7. \A j \in 1..m : k + j \in 1..n
  BY <1>1
<1>8. \A j \in 1..m : [z[k + j] EXCEPT !.ws = FALSE] = toks[j]
  BY <1>5, <1>6, <1>7
<1>9. QED
  BY <1>4, <1>6, <1>8 DEF Emits, z, n, m

(* Tokens just emitted stand in the list.                                   *)
LEMMA EmitsHere ==
  ASSUME NEW o \in Seq(Token), NEW T \in Seq(Token), NEW x \in Seq(Token), Plain(T)
  PROVE  Emits(o \o (T \o x), T)
<1> DEFINE y == T \o x
           z == o \o y
           k == Len(o)
           m == Len(T)
<1>1. m \in Nat /\ Len(x) \in Nat /\ Len(y) = m + Len(x) /\ y \in Seq(Token)
      /\ \A j \in 1..m : y[j] = T[j] /\ T[j] \in Token
  OBVIOUS
<1> HIDE DEF y, m
<1>2. k \in Nat /\ Len(z) = k + Len(y) /\ \A j \in 1..Len(y) : z[k + j] = y[j]
  <2>1. y \in Seq(Token)
    BY <1>1
  <2>2. Len(o) \in Nat /\ Len(y) \in Nat /\ Len(o \o y) = Len(o) + Len(y)
    BY <2>1
  <2>3. \A j \in 1..Len(y) : (o \o y)[Len(o) + j] = y[j]
    BY <2>1
  <2>4. QED
    BY <2>2, <2>3
<1> HIDE DEF z, k
<1>3. ASSUME NEW j \in 1..m PROVE [z[k + j] EXCEPT !.ws = FALSE] = T[j]
  <2>1. j \in 1..Len(y)
    BY <1>1
  <2>2. z[k + j] = T[j] /\ T[j] \in Token
    BY <2>1, <1>1, <1>2
  <2>3. T[j].ws = FALSE
    <3>1. T[j].ws \in BOOLEAN /\ ~T[j].ws
      BY <2>2, TokenEnds DEF Plain, m
    <3>2. QED
      BY <3>1
  <2>4. [T[j] EXCEPT !.ws = FALSE] = T[j]
    BY <2>2, <2>3 DEF Token
  <2>5. QED
    BY <2>2, <2>4
<1>4. k \in 0..(Len(z) - m)
  BY <1>1, <1>2
<1>5. QED
  BY <1>3, <1>4 DEF Emits, z, y, m

(* The tokens of a word are tokens.                                        *)
LEMMA WantedTokens ==
  ASSUME rules \in Compiled, text \in Seq(Runes), NEW a \in Nat, NEW b \in Nat, a <= b,
         b <= Len(text)
  PROVE  /\ WholeOf(text, a, b) \in Seq(Token) /\ WholeOf(text, a, b) = <<Piece(a, b)>>
         /\ Listed(rules, Cut(text, a, b)) =>
              /\ SpecialOf(rules, Cut(text, a, b), a) = SpecialTokens(Cut(text, a, b), a)
              /\ SpecialOf(rules, Cut(text, a, b), a) \in Seq(Token)
              /\ Plain(SpecialOf(rules, Cut(text, a, b), a))
<1>1. WholeOf(text, a, b) = <<Piece(a, b)>>
  BY DEF WholeOf, Piece, Slice, Cut
<1>2. <<Piece(a, b)>> \in Seq(Token)
  BY TiledPiece
<1>3. ASSUME Listed(rules, Cut(text, a, b))
      PROVE  /\ SpecialOf(rules, Cut(text, a, b), a) = SpecialTokens(Cut(text, a, b), a)
             /\ SpecialTokens(Cut(text, a, b), a) \in Seq(Token)
             /\ Plain(SpecialTokens(Cut(text, a, b), a))
  <2> DEFINE key == Cut(text, a, b)
             S == SpecialTokens(key, a)
  <2>1. key \in DOMAIN rules.specials /\ a + Len(key) = b /\ key = Cut(text, a, b)
    <3>1. Len(key) = b - a
      BY CutType
    <3> HIDE DEF key
    <3>2. a + Len(key) = b
      BY <3>1
    <3>3. QED
      BY <1>3, <3>2 DEF Listed, key
  <2> HIDE DEF key
  <2>2. SpecialOf(rules, key, a) = S
    BY DEF SpecialOf, SpecialTokens
  <2>3. S \in Seq(Token) /\ \A p \in DOMAIN S : ~S[p].ws
    <3>1. a + Len(key) <= Len(text) /\ key = Cut(text, a, a + Len(key))
      BY <2>1
    <3>2. QED
      BY <2>1, <3>1, SpecialTiled
  <2> HIDE DEF S
  <2>4. Plain(S)
    BY <2>3 DEF Plain
  <2>5. QED
    BY <2>2, <2>3, <2>4 DEF S, key
<1>4. QED
  BY <1>1, <1>2, <1>3

(* A word is kept by any longer list.                                       *)
LEMMA KeptMore ==
  ASSUME rules \in Compiled, text \in Seq(Runes), NEW o, NEW z,
         \A toks \in Seq(Token) : Emits(o, toks) => Emits(z, toks),
         NEW a \in 0..Len(text), NEW b \in 0..Len(text), a < b, WordKept(rules, text, o, a, b)
  PROVE  WordKept(rules, text, z, a, b)
<1>1. a \in Nat /\ b \in Nat /\ a <= b /\ b <= Len(text)
  <2>1. Len(text) \in Nat
    OBVIOUS
  <2>2. QED
    BY <2>1
<1>2. WholeOf(text, a, b) \in Seq(Token)
  BY <1>1, WantedTokens
<1>3. Listed(rules, Cut(text, a, b)) => SpecialOf(rules, Cut(text, a, b), a) \in Seq(Token)
  BY <1>1, WantedTokens
<1>4. QED
  BY <1>2, <1>3 DEF WordKept

(* So are all words.                                                        *)
LEMMA KeptAll ==
  ASSUME rules \in Compiled, text \in Seq(Runes), NEW o, NEW z, NEW n, NEW m,
         \A toks \in Seq(Token) : Emits(o, toks) => Emits(z, toks),
         Kept(rules, text, o, n),
         \A a, b \in 0..Len(text) : WordIn(text, a, b) /\ b <= m => b <= n
  PROVE  Kept(rules, text, z, m)
<1> SUFFICES ASSUME NEW a \in 0..Len(text), NEW b \in 0..Len(text), WordIn(text, a, b), b <= m
             PROVE  WordKept(rules, text, z, a, b)
  BY DEF Kept
<1>1. WordKept(rules, text, o, a, b) /\ a < b
  BY DEF Kept, WordIn
<1>2. QED
  BY <1>1, KeptMore

(* A run of white space ends no word.                                      *)
LEMMA NoWordInSpaces ==
  ASSUME text \in Seq(Runes), NEW n \in Nat, NEW e \in (n + 1)..Len(text),
         \A c \in n..(e - 1) : IsSpaceAt(c)
  PROVE  \A a, b \in 0..Len(text) : WordIn(text, a, b) /\ b <= e => b <= n
<1> SUFFICES ASSUME NEW a \in 0..Len(text), NEW b \in 0..Len(text), WordIn(text, a, b), b <= e,
                    ~(b <= n)
             PROVE  FALSE
  OBVIOUS
<1>1. a < b /\ \A c \in a..(b - 1) : text[c + 1] \notin SpaceRunes
  BY DEF WordIn
<1>2. b - 1 \in a..(b - 1) /\ b - 1 \in n..(e - 1)
  <2>1. Len(text) \in Nat
    OBVIOUS
  <2>2. a \in Nat /\ b \in Nat /\ e \in Nat
    BY <2>1
  <2>3. QED
    BY <2>2, <1>1
<1>3. IsSpaceAt(b - 1)
  BY <1>2
<1>4. QED
  BY <1>1, <1>2, <1>3 DEF IsSpaceAt

(* A run of other runes is one word.                                       *)
LEMMA OneWordInRun ==
  ASSUME text \in Seq(Runes), NEW n \in Nat, NEW e \in (n + 1)..Len(text),
         \A c \in n..(e - 1) : ~IsSpaceAt(c), n = 0 \/ text[n] \in SpaceRunes
  PROVE  OnlyWord(text, n, e)
<1> SUFFICES ASSUME NEW a \in 0..Len(text), NEW b \in 0..Len(text), WordIn(text, a, b), b <= e,
                    ~(b <= n)
             PROVE  a = n /\ b = e
  BY DEF OnlyWord
<1>0. a \in Nat /\ b \in Nat /\ e \in Nat /\ n < e /\ e <= Len(text)
  <2>1. Len(text) \in Nat
    OBVIOUS
  <2>2. QED
    BY <2>1
<1>1. /\ a < b /\ (\A c \in a..(b - 1) : text[c + 1] \notin SpaceRunes)
      /\ (a = 0 \/ text[a] \in SpaceRunes) /\ (b = Len(text) \/ text[b + 1] \in SpaceRunes)
  BY DEF WordIn
<1>2. \A c \in n..(e - 1) : text[c + 1] \notin SpaceRunes
  BY DEF IsSpaceAt
<1>3. b = e
  <2>1. SUFFICES ASSUME b # e PROVE FALSE
    OBVIOUS
  <2>2. b \in n..(e - 1) /\ b # Len(text)
    BY <2>1, <1>0
  <2>3. QED
    BY <2>2, <1>1, <1>2
<1>4. ~(a < n)
  <2>1. SUFFICES ASSUME a < n PROVE FALSE
    OBVIOUS
  <2>2. n - 1 \in a..(b - 1) /\ (n - 1) + 1 = n /\ n # 0
    BY <2>1, <1>0, <1>3
  <2>3. text[n] \notin SpaceRunes
    BY <2>2, <1>1
  <2>4. QED
    BY <2>2, <2>3
<1>5. ~(a > n)
  <2>1. SUFFICES ASSUME a > n PROVE FALSE
    OBVIOUS
  <2>2. a - 1 \in n..(e - 1) /\ (a - 1) + 1 = a /\ a # 0
    BY <2>1, <1>0, <1>1, <1>3
  <2>3. text[a] \notin SpaceRunes
    BY <2>2, <1>2
  <2>4. QED
    BY <2>2, <2>3, <1>1
<1>6. QED
  BY <1>0, <1>3, <1>4, <1>5

(* A chunk is one word, between white space or the ends of the text.        *)
LEMMA CollectChunkKeeps == ASSUME TInv, WInv, CollectChunk PROVE WInv'
<1> DEFINE e == RunEnd(i)
<1>1. /\ pc = "text" /\ pc' = "affixes" /\ i < Len(text) /\ ~IsSpaceAt(i)
      /\ text' = text /\ rules' = rules /\ out' = out
      /\ lo' = i /\ hi' = e /\ i' = e /\ prefixes' = <<>>
  BY DEF CollectChunk, Walking
<1>2. text \in Seq(Runes) /\ i \in Nat /\ Len(text) \in Nat
  BY TextsAssumption DEF TInv, TypeInv
<1>3. /\ e \in (i + 1)..Len(text)
      /\ \A c \in i..(e - 1) : IsSpaceAt(c) <=> IsSpaceAt(i)
      /\ e = Len(text) \/ ~(IsSpaceAt(e) <=> IsSpaceAt(i))
  BY <1>1, <1>2, RunEndFacts
<1> HIDE DEF e
<1>4. Kept(rules, text, out, i) /\ (i = 0 \/ text[i] \in SpaceRunes)
  BY <1>1 DEF WInv, AtEdge, IsSpaceAt
<1>5. OnlyWord(text, i, e)
  <2>1. \A c \in i..(e - 1) : ~IsSpaceAt(c)
    BY <1>1, <1>3
  <2>2. QED
    BY <2>1, <1>2, <1>3, <1>4, OneWordInRun
<1>6. AtEdge(text, e)
  BY <1>1, <1>3 DEF AtEdge, IsSpaceAt
<1>7. i \in 0..e
  BY <1>2, <1>3
<1>8. pc' = "affixes" /\ AtEdge(text', i') /\ i \in 0..i' /\ OnlyWord(text', i, i')
      /\ Kept(rules', text', out', i) /\ lo' = i /\ hi' = i' /\ prefixes' = <<>>
  BY <1>1, <1>4, <1>5, <1>6, <1>7
<1>9. QED
  BY <1>8 DEF WInv, Undecided

(* White space leaves every word where it is.                              *)
LEMMA SpacesKeep ==
  ASSUME TInv, WInv, pc = "text", i < Len(text), IsSpaceAt(i), NEW z,
         \A toks \in Seq(Token) : Emits(out, toks) => Emits(z, toks)
  PROVE  Kept(rules, text, z, RunEnd(i)) /\ text[RunEnd(i)] \in SpaceRunes
<1> DEFINE e == RunEnd(i)
<1>1. text \in Seq(Runes) /\ i \in Nat /\ Len(text) \in Nat /\ rules \in Compiled
  BY TextsAssumption DEF TInv, TypeInv
<1>2. e \in (i + 1)..Len(text) /\ \A c \in i..(e - 1) : IsSpaceAt(c) <=> IsSpaceAt(i)
  BY <1>1, RunEndFacts
<1> HIDE DEF e
<1>3. Kept(rules, text, out, i)
  BY DEF WInv
<1>4. \A c \in i..(e - 1) : IsSpaceAt(c)
  BY <1>2
<1>5. \A a, b \in 0..Len(text) : WordIn(text, a, b) /\ b <= e => b <= i
  BY <1>1, <1>2, <1>4, NoWordInSpaces
<1>6. Kept(rules, text, z, e)
  BY <1>1, <1>3, <1>5, KeptAll, Zenon
<1>7. text[e] \in SpaceRunes
  <2>1. e - 1 \in i..(e - 1) /\ (e - 1) + 1 = e
    BY <1>1, <1>2
  <2>2. IsSpaceAt(e - 1)
    BY <2>1, <1>4
  <2>3. QED
    BY <2>1, <2>2 DEF IsSpaceAt
<1>8. QED
  BY <1>6, <1>7 DEF e

(* White space that becomes a flag and a token.                             *)
LEMMA FlagSpaceKeeps == ASSUME TInv, WInv, FlagSpace PROVE WInv'
<1> DEFINE e == RunEnd(i)
           x == [out EXCEPT ![Len(out)].ws = TRUE]
           y == IF e > i + 1 THEN <<Piece(i + 1, e)>> ELSE <<>>
<1>1. /\ pc = "text" /\ i < Len(text) /\ pc' = "text" /\ text' = text /\ rules' = rules
      /\ IsSpaceAt(i) /\ out # <<>> /\ text[i + 1] = Space /\ out' = x \o y /\ i' = e
  BY DEF FlagSpace, Walking
<1>2. /\ text \in Seq(Runes) /\ Len(text) \in Nat /\ i \in Nat /\ out \in Seq(Token)
  BY TextsAssumption DEF TInv, TypeInv
<1>3. Tiled(text, out, 0, i) /\ ~out[Len(out)].ws
  BY <1>1 DEF TInv, Walks, LastPlain
<1>4. e \in (i + 1)..Len(text)
  BY <1>1, <1>2, RunEndFacts
<1>5. x \in Seq(Token)
  BY <1>1, <1>2, <1>3, TiledFlag
<1>6. y \in Seq(Token)
  <2>1. i + 1 \in Nat /\ e \in Nat /\ i + 1 <= e /\ e <= Len(text)
    BY <1>2, <1>4
  <2>2. <<Piece(i + 1, e)>> \in Seq(Token)
    BY <2>1, <1>2, TiledPiece
  <2>3. <<>> \in Seq(Token)
    OBVIOUS
  <2>4. QED
    BY <2>2, <2>3
<1>7. \A toks \in Seq(Token) : Emits(out, toks) => Emits(x \o y, toks)
  <2> SUFFICES ASSUME NEW toks \in Seq(Token), Emits(out, toks) PROVE Emits(x \o y, toks)
    OBVIOUS
  <2>1. Emits(x, toks)
    BY <1>1, <1>2, EmitsFlagged
  <2> HIDE DEF x, y
  <2>2. QED
    BY <2>1, <1>5, <1>6, EmitsLeft
<1>8. Kept(rules, text, x \o y, e) /\ text[e] \in SpaceRunes
  <2> HIDE DEF x, y
  <2>1. QED
    BY <1>1, <1>7, SpacesKeep
<1> HIDE DEF e, x, y
<1>9. QED
  BY <1>1, <1>8 DEF WInv

(* White space that becomes a token.                                        *)
LEMMA EmitSpacesKeeps == ASSUME TInv, WInv, EmitSpaces PROVE WInv'
<1> DEFINE e == RunEnd(i)
           p == Piece(i, e)
<1>1. /\ pc = "text" /\ i < Len(text) /\ pc' = "text" /\ text' = text /\ rules' = rules
      /\ IsSpaceAt(i) /\ out' = Append(out, p) /\ i' = e
  BY DEF EmitSpaces, Walking
<1>2. /\ text \in Seq(Runes) /\ Len(text) \in Nat /\ i \in Nat /\ out \in Seq(Token)
  BY TextsAssumption DEF TInv, TypeInv
<1>3. e \in (i + 1)..Len(text)
  BY <1>1, <1>2, RunEndFacts
<1>4. p \in Token
  <2>1. e \in Nat /\ i <= e /\ e <= Len(text)
    BY <1>2, <1>3
  <2>2. QED
    BY <2>1, <1>2, TiledPiece
<1> HIDE DEF p
<1>5. <<p>> \in Seq(Token) /\ Append(out, p) = out \o <<p>>
  BY <1>2, <1>4
<1>6. \A toks \in Seq(Token) : Emits(out, toks) => Emits(Append(out, p), toks)
  <2>1. \A toks \in Seq(Token) : Emits(out, toks) => Emits(out \o <<p>>, toks)
    BY <1>2, <1>5, EmitsLeft
  <2>2. QED
    BY <2>1, <1>5
<1>7. Kept(rules, text, Append(out, p), e) /\ text[e] \in SpaceRunes
  BY <1>1, <1>6, SpacesKeep
<1> HIDE DEF e
<1>8. QED
  BY <1>1, <1>7 DEF WInv

(* At the end of the text all words are kept.                               *)
LEMMA EndTextKeeps == ASSUME TInv, WInv, EndText PROVE WInv'
<1>1. pc = "text" /\ i = Len(text) /\ pc' = "specials" /\ text' = text /\ rules' = rules /\ out' = out
  BY DEF EndText
<1>2. Kept(rules, text, out, Len(text))
  BY <1>1 DEF WInv
<1>3. QED
  BY <1>1, <1>2 DEF WInv

(* An undecided chunk is stripped, a decided one never.                    *)
LEMMA StripAffixesKeeps == ASSUME TInv, WInv, StripAffixes PROVE WInv'
<1>1. /\ pc = "affixes" /\ pc' = "affixes" /\ text' = text /\ rules' = rules /\ out' = out /\ i' = i
      /\ lo < hi /\ ~Protected
  BY DEF StripAffixes, CanStrip
<1>2. PICK c \in 0..i : OnlyWord(text, c, i) /\ Kept(rules, text, out, c) /\ Undecided(c)
  BY <1>1 DEF WInv
<1>3. ~(Matched(rules, Cut(text, c, i)) \/ Listed(rules, Cut(text, c, i)))
  <2>1. SUFFICES ASSUME Matched(rules, Cut(text, c, i)) \/ Listed(rules, Cut(text, c, i)) PROVE FALSE
    OBVIOUS
  <2>2. lo = c /\ hi = i
    BY <1>2, <2>1 DEF Undecided
  <2>3. Middle = Cut(text, c, i)
    BY <2>2 DEF Middle, Slice, Cut
  <2>4. QED
    BY <1>1, <2>1, <2>3 DEF Protected, IsTokenMatch, IsSpecial, Matched, Listed
<1>4. Undecided(c)'
  BY <1>1, <1>3 DEF Undecided
<1>5. AtEdge(text, i)
  BY <1>1 DEF WInv
<1>6. QED
  BY <1>1, <1>2, <1>4, <1>5 DEF WInv

(* What a chunk gives keeps the words before it, and its own word if its    *)
(* middle is kept.                                                         *)
LEMMA ChunkKeeps ==
  ASSUME TInv, WInv, pc = "affixes", NEW z,
         \A toks \in Seq(Token) : Emits(out, toks) => Emits(z, toks),
         prefixes = <<>> /\ lo < hi /\ Protected => WordKept(rules, text, z, lo, hi)
  PROVE  Kept(rules, text, z, i)
<1>1. PICK c \in 0..i : OnlyWord(text, c, i) /\ Kept(rules, text, out, c) /\ Undecided(c)
  BY DEF WInv
<1>2. text \in Seq(Runes) /\ rules \in Compiled
  BY TextsAssumption DEF TInv, TypeInv
<1> SUFFICES ASSUME NEW a \in 0..Len(text), NEW b \in 0..Len(text), WordIn(text, a, b), b <= i
             PROVE  WordKept(rules, text, z, a, b)
  BY DEF Kept
<1>3. CASE b <= c
  <2>1. WordKept(rules, text, out, a, b) /\ a < b
    BY <1>1, <1>3 DEF Kept, WordIn
  <2>2. QED
    BY <1>2, <2>1, KeptMore, Zenon
<1>4. CASE a = c /\ b = i
  <2>1. CASE Matched(rules, Cut(text, a, b)) \/ Listed(rules, Cut(text, a, b))
    <3>1. lo = a /\ hi = b /\ prefixes = <<>>
      BY <1>1, <1>4, <2>1 DEF Undecided
    <3>2. Middle = Cut(text, a, b)
      BY <3>1 DEF Middle, Slice, Cut
    <3>3. lo < hi /\ Protected
      BY <2>1, <3>1, <3>2 DEF WordIn, Protected, IsTokenMatch, IsSpecial, Matched, Listed
    <3>4. QED
      BY <3>1, <3>3
  <2>2. CASE ~(Matched(rules, Cut(text, a, b)) \/ Listed(rules, Cut(text, a, b)))
    BY <2>2 DEF WordKept
  <2>3. QED
    BY <2>1, <2>2
<1>5. QED
  BY <1>1, <1>3, <1>4 DEF OnlyWord

(* A chunk emitted in one turn keeps its word, if the rules decide it.      *)
LEMMA AttachKeeps ==
  ASSUME TInv, WInv, pc = "affixes", NEW T \in Seq(Token), Attach(T), Plain(T),
         lo < hi /\ IsTokenMatch(Middle) => T = WholeOf(text, lo, hi),
         lo < hi /\ ~IsTokenMatch(Middle) /\ IsSpecial(Middle) => T = SpecialOf(rules, Middle, lo)
  PROVE  WInv'
<1> DEFINE r == Reverse(suffixes)
           y == T \o r
           z == (out \o prefixes) \o y
<1>1. out' = z /\ pc' = "text" /\ text' = text /\ rules' = rules /\ i' = i
  BY DEF Attach, EmitTail
<1>2. /\ out \in Seq(Token) /\ prefixes \in Seq(Token) /\ suffixes \in Seq(Token)
  BY DEF TInv, TypeInv
<1>3. Plain(suffixes)
  BY DEF TInv, Strips
<1>4. r \in Seq(Token)
  BY <1>2, <1>3, PlainReverse
<1> HIDE DEF r
<1>5. y \in Seq(Token) /\ out \o prefixes \in Seq(Token)
  BY <1>2, <1>4
<1>6. \A toks \in Seq(Token) : Emits(out, toks) => Emits(z, toks)
  <2> SUFFICES ASSUME NEW toks \in Seq(Token), Emits(out, toks) PROVE Emits(z, toks)
    OBVIOUS
  <2> DEFINE x == out \o prefixes
  <2>1. Emits(x, toks)
    BY <1>2, EmitsLeft
  <2>2. x \in Seq(Token)
    BY <1>5
  <2> HIDE DEF x, y
  <2>3. Emits(x \o y, toks)
    BY <1>5, <2>1, <2>2, EmitsLeft
  <2>4. QED
    BY <2>3 DEF x
<1>7. ASSUME prefixes = <<>>, lo < hi, Protected PROVE WordKept(rules, text, z, lo, hi)
  <2>1. out \o prefixes = out
    <3>1. out \o <<>> = out
      BY <1>2
    <3>2. QED
      BY <3>1, <1>7
  <2>2. Emits(z, T)
    <3>1. Emits(out \o (T \o r), T)
      BY <1>2, <1>4, EmitsHere
    <3>2. QED
      BY <3>1, <2>1
  <2> HIDE DEF z
  <2>3. Middle = Cut(text, lo, hi)
    BY DEF Middle, Slice, Cut
  <2>4. Matched(rules, Cut(text, lo, hi)) => Emits(z, WholeOf(text, lo, hi))
    BY <1>7, <2>2, <2>3 DEF IsTokenMatch, Matched
  <2>5. ~Matched(rules, Cut(text, lo, hi)) /\ Listed(rules, Cut(text, lo, hi))
           => Emits(z, SpecialOf(rules, Cut(text, lo, hi), lo))
    BY <1>7, <2>2, <2>3 DEF IsTokenMatch, IsSpecial, Matched, Listed
  <2>6. QED
    BY <2>4, <2>5 DEF WordKept
<1> HIDE DEF z
<1>8. Kept(rules, text, z, i)
  BY <1>6, <1>7, ChunkKeeps
<1>9. AtEdge(text, i)
  BY DEF WInv
<1>10. QED
  BY <1>1, <1>8, <1>9 DEF WInv

(* A chunk of affixes only was not decided by the rules.                    *)
LEMMA AttachNothingKeeps == ASSUME TInv, WInv, AttachNothing PROVE WInv'
<1>1. pc = "affixes" /\ lo = hi /\ Attach(<<>>)
  BY DEF AttachNothing, Stripped
<1>2. <<>> \in Seq(Token) /\ Plain(<<>>)
  <2>1. Len(<<>>) = 0 /\ <<>> \in Seq(Token)
    OBVIOUS
  <2>2. QED
    BY <2>1 DEF Plain
<1>3. ~(lo < hi)
  BY <1>1 DEF TInv, TypeInv
<1>4. QED
  BY <1>1, <1>2, <1>3, AttachKeeps, Zenon

(* A token match comes out as one token.                                    *)
LEMMA AttachTokenMatchKeeps == ASSUME TInv, WInv, AttachTokenMatch PROVE WInv'
<1>1. pc = "affixes" /\ Attach(<<Piece(lo, hi)>>) /\ IsTokenMatch(Middle)
  BY DEF AttachTokenMatch, Stripped
<1>2. <<Piece(lo, hi)>> \in Seq(Token) /\ Plain(<<Piece(lo, hi)>>)
  BY <1>1, MiddleFacts
<1>3. <<Piece(lo, hi)>> = WholeOf(text, lo, hi)
  BY DEF WholeOf, Piece, Slice, Cut
<1>4. QED
  BY <1>1, <1>2, <1>3, AttachKeeps, Zenon

(* A plain word or a URL was not decided by the rules.                      *)
LEMMA AttachWordKeeps == ASSUME TInv, WInv, AttachWord PROVE WInv'
<1>1. pc = "affixes" /\ Attach(<<Piece(lo, hi)>>) /\ lo < hi /\ ~Protected
  BY DEF AttachWord, Stripped
<1>2. <<Piece(lo, hi)>> \in Seq(Token) /\ Plain(<<Piece(lo, hi)>>)
  BY <1>1, MiddleFacts
<1>3. ~IsTokenMatch(Middle) /\ ~IsSpecial(Middle)
  BY <1>1 DEF Protected
<1>4. QED
  BY <1>1, <1>2, <1>3, AttachKeeps, Zenon

(* A special case comes out as its pieces.                                  *)
LEMMA AttachSpecialKeeps == ASSUME TInv, WInv, AttachSpecial PROVE WInv'
<1> DEFINE T == SpecialOf(rules, Middle, lo)
<1>1. pc = "affixes" /\ Attach(SpecialTokens(Middle, lo)) /\ ~IsTokenMatch(Middle)
      /\ IsSpecial(Middle)
  BY DEF AttachSpecial, Stripped
<1>2. /\ lo \in Nat /\ hi \in Nat /\ lo <= hi /\ hi <= Len(text)
      /\ text \in Seq(Runes) /\ rules \in Compiled /\ Middle = Cut(text, lo, hi)
  BY <1>1, MiddleFacts
<1>3. Listed(rules, Cut(text, lo, hi))
  BY <1>1, <1>2 DEF IsSpecial, Listed
<1>4. T = SpecialTokens(Middle, lo) /\ T \in Seq(Token) /\ Plain(T)
  BY <1>2, <1>3, WantedTokens
<1> HIDE DEF T
<1>5. Attach(T)
  BY <1>1, <1>4
<1>6. QED
  BY <1>1, <1>4, <1>5, AttachKeeps, Zenon DEF T

(* A middle that is split was not decided by the rules.                     *)
LEMMA SplitInfixesKeeps == ASSUME TInv, WInv, SplitInfixes PROVE WInv'
<1> DEFINE z == out \o prefixes
<1>1. /\ pc = "affixes" /\ pc' = "infixes" /\ text' = text /\ rules' = rules /\ i' = i
      /\ out' = z /\ ~Protected
  BY DEF SplitInfixes, Stripped
<1>2. out \in Seq(Token) /\ prefixes \in Seq(Token)
  BY DEF TInv, TypeInv
<1>3. \A toks \in Seq(Token) : Emits(out, toks) => Emits(z, toks)
  BY <1>2, EmitsLeft
<1> HIDE DEF z
<1>4. Kept(rules, text, z, i)
  BY <1>1, <1>3, ChunkKeeps
<1>5. AtEdge(text, i)
  BY <1>1 DEF WInv
<1>6. QED
  BY <1>1, <1>4, <1>5 DEF WInv

(* Tokens that follow disturb no word.                                     *)
LEMMA KeptJoin ==
  ASSUME TInv, NEW x \in Seq(Token), NEW n, Kept(rules, text, out, n)
  PROVE  Kept(rules, text, out \o x, n)
<1>1. text \in Seq(Runes) /\ rules \in Compiled /\ out \in Seq(Token)
  BY TextsAssumption DEF TInv, TypeInv
<1>2. \A toks \in Seq(Token) : Emits(out, toks) => Emits(out \o x, toks)
  BY <1>1, EmitsLeft
<1> SUFFICES ASSUME NEW a \in 0..Len(text), NEW b \in 0..Len(text), WordIn(text, a, b), b <= n
             PROVE  WordKept(rules, text, out \o x, a, b)
  BY DEF Kept
<1>3. WordKept(rules, text, out, a, b) /\ a < b
  BY DEF Kept, WordIn
<1>4. QED
  BY <1>1, <1>2, <1>3, KeptMore, Zenon

(* An infix split adds tokens.                                              *)
LEMMA CutInfixKeeps == ASSUME TInv, WInv, CutInfix PROVE WInv'
<1>1. pc = "infixes" /\ pc' = "infixes" /\ text' = text /\ rules' = rules /\ i' = i
  BY DEF CutInfix
<1>2. PICK sp \in FirstInfixes :
        out' = out \o (IF lo + sp.start > pos THEN <<Piece(pos, lo + sp.start)>> ELSE <<>>)
                   \o <<Piece(lo + sp.start, lo + sp.end)>>
  BY DEF CutInfix
<1> DEFINE a == lo + sp.start
           b == lo + sp.end
           x == IF a > pos THEN <<Piece(pos, a)>> ELSE <<>>
           y == <<Piece(a, b)>>
<1>3. /\ text \in Seq(Runes) /\ Len(text) \in Nat /\ lo \in Nat /\ hi \in Nat /\ pos \in Nat /\ i \in Nat
      /\ out \in Seq(Token)
  BY TextsAssumption DEF TInv, TypeInv
<1>4. /\ pos <= hi /\ hi <= i /\ i <= Len(text)
      /\ \A s \in spans : s.start \in Nat /\ s.end \in Nat /\ s.start <= s.end /\ lo + s.end <= hi
  BY <1>1 DEF TInv, Splits
<1>5. sp \in spans /\ a >= pos
  BY DEF FirstInfixes
<1>6. a \in Nat /\ b \in Nat /\ pos <= a /\ a <= b /\ a <= Len(text) /\ b <= Len(text)
  BY <1>3, <1>4, <1>5
<1>7. out' = (out \o x) \o y
  BY <1>2
<1> HIDE DEF a, b
<1>8. x \in Seq(Token) /\ y \in Seq(Token)
  <2>1. <<Piece(pos, a)>> \in Seq(Token) /\ <<Piece(a, b)>> \in Seq(Token)
    BY <1>3, <1>6, TiledPiece
  <2>2. <<>> \in Seq(Token)
    OBVIOUS
  <2>3. QED
    BY <2>1, <2>2
<1> HIDE DEF x, y
<1>9. x \o y \in Seq(Token) /\ (out \o x) \o y = out \o (x \o y)
  BY <1>3, <1>8
<1>10. Kept(rules, text, out, i) /\ AtEdge(text, i)
  BY <1>1 DEF WInv
<1> DEFINE v == x \o y
<1> HIDE DEF v
<1>11. Kept(rules, text, out \o v, i)
  BY <1>9, <1>10, KeptJoin DEF v
<1>12. out' = out \o v
  BY <1>7, <1>9 DEF v
<1>13. QED
  BY <1>1, <1>10, <1>11, <1>12 DEF WInv

(* So does its end.                                                         *)
LEMMA EndInfixesKeeps == ASSUME TInv, WInv, EndInfixes PROVE WInv'
<1> DEFINE r == Reverse(suffixes)
           x == IF pos < hi THEN <<Piece(pos, hi)>> ELSE <<>>
           y == x \o r
<1>1. /\ pc = "infixes" /\ pc' = "text" /\ text' = text /\ rules' = rules /\ i' = i
      /\ out' = out \o y
  BY DEF EndInfixes, EmitTail
<1>2. /\ text \in Seq(Runes) /\ Len(text) \in Nat /\ hi \in Nat /\ pos \in Nat /\ i \in Nat
      /\ suffixes \in Seq(Token)
  BY TextsAssumption DEF TInv, TypeInv
<1>3. pos <= hi /\ hi <= i /\ i <= Len(text) /\ Plain(suffixes)
  BY <1>1 DEF TInv, Splits
<1>4. r \in Seq(Token)
  BY <1>2, <1>3, PlainReverse
<1>5. x \in Seq(Token)
  <2>1. hi <= Len(text)
    BY <1>2, <1>3
  <2>2. <<Piece(pos, hi)>> \in Seq(Token)
    BY <1>2, <1>3, <2>1, TiledPiece
  <2>3. <<>> \in Seq(Token)
    OBVIOUS
  <2>4. QED
    BY <2>2, <2>3
<1> HIDE DEF r, x
<1>6. y \in Seq(Token)
  BY <1>4, <1>5
<1> HIDE DEF y
<1>7. Kept(rules, text, out, i) /\ AtEdge(text, i)
  BY <1>1 DEF WInv
<1>8. Kept(rules, text, out \o y, i)
  BY <1>6, <1>7, KeptJoin
<1>9. QED
  BY <1>1, <1>7, <1>8 DEF WInv

(* Every step keeps the words.                                              *)
LEMMA NextKeeps == ASSUME TInv, WInv, [Next]_vars PROVE WInv'
<1>1. CASE MergeWindow \/ CopyToken
  <2>1. pc = "specials" /\ pc' = pc /\ text' = text /\ rules' = rules /\ out' = out
    BY <1>1 DEF MergeWindow, CopyToken
  <2>2. QED
    BY <2>1 DEF WInv
<1>2. CASE EndSpecials \/ ToDoc
  <2>1. pc' \in {"doc", "done"}
    BY <1>2 DEF EndSpecials, ToDoc
  <2>2. QED
    BY <2>1 DEF WInv
<1>3. CASE UNCHANGED vars
  <2>1. /\ pc' = pc /\ text' = text /\ rules' = rules /\ i' = i /\ out' = out
        /\ lo' = lo /\ hi' = hi /\ prefixes' = prefixes
    BY <1>3 DEF vars, chunkVars
  <2>2. \A c : Undecided(c)' <=> Undecided(c)
    BY <2>1 DEF Undecided
  <2>3. QED
    BY <2>1, <2>2 DEF WInv
<1>4. QED
  BY <1>1, <1>2, <1>3, CollectChunkKeeps, FlagSpaceKeeps, EmitSpacesKeeps, EndTextKeeps,
     StripAffixesKeeps, AttachNothingKeeps, AttachTokenMatchKeeps, AttachSpecialKeeps,
     AttachWordKeeps, SplitInfixesKeeps, CutInfixKeeps, EndInfixesKeeps
     DEF Next, Chunk

(* Before the first rune there is no word.                                  *)
LEMMA InitKeeps == Init => WInv
<1> SUFFICES ASSUME Init PROVE WInv
  OBVIOUS
<1>1. pc = "text" /\ i = 0 /\ out = <<>> /\ text \in Seq(Runes)
  BY TextsAssumption DEF Init
<1>2. Kept(rules, text, out, 0)
  <2> SUFFICES ASSUME NEW a \in 0..Len(text), NEW b \in 0..Len(text), WordIn(text, a, b), b <= 0
               PROVE  FALSE
    BY DEF Kept
  <2>1. a < b /\ Len(text) \in Nat
    BY <1>1 DEF WordIn
  <2>2. QED
    BY <2>1
<1>3. QED
  BY <1>1, <1>2 DEF WInv

(* Tokens that stand in out are emitted in the sense of the property.      *)
LEMMA EmitsIsEmitted ==
  ASSUME out \in Seq(Token), NEW toks \in Seq(Token), Emits(out, toks)
  PROVE  Emitted(toks)
<1> DEFINE m == Len(toks)
           n == Len(out)
<1>1. m \in Nat /\ n \in Nat /\ toks = [j \in 1..m |-> toks[j]]
  OBVIOUS
<1>2. PICK k \in 0..(n - m) : \A j \in 1..m : [out[k + j] EXCEPT !.ws = FALSE] = toks[j]
  BY DEF Emits
<1> DEFINE s == SubSeq(out, k + 1, k + m)
<1>3. k \in Nat /\ k + m <= n
  BY <1>1, <1>2
<1>4. s = [j \in 1..m |-> out[k + j]]
  <2>1. s \in Seq(Token) /\ Len(s) = m /\ \A j \in 1..m : s[j] = out[k + j]
    <3>1. Len(s) = m
      BY <1>1, <1>3
    <3>2. \A j \in 1..m : s[j] = out[k + j]
      BY <1>1, <1>3
    <3>3. s \in Seq(Token)
      BY <1>1, <1>3
    <3>4. QED
      BY <3>1, <3>2, <3>3
  <2> HIDE DEF s
  <2>2. s = [j \in 1..m |-> s[j]]
    BY <2>1
  <2>3. QED
    BY <2>1, <2>2, Zenon
<1> HIDE DEF s, m, n
<1>5. DOMAIN s = 1..m /\ \A j \in 1..m : s[j] = out[k + j]
  BY <1>4
<1>6. Unflagged(s) = [j \in 1..m |-> toks[j]]
  BY <1>2, <1>5, Zenon DEF Unflagged
<1>7. QED
  BY <1>1, <1>2, <1>6, Zenon DEF Emitted, s, m, n

(* The invariant says that words come out as the rules say.                 *)
LEMMA InvariantKeeps == ASSUME TInv, WInv PROVE SpecialsStayWhole
<1> SUFFICES ASSUME pc = "specials", NEW a \in 0..Len(text), NEW b \in 0..Len(text), IsWord(a, b)
             PROVE  /\ IsTokenMatch(Slice(a, b)) => Emitted(<<Piece(a, b)>>)
                    /\ ~IsTokenMatch(Slice(a, b)) /\ IsSpecial(Slice(a, b)) =>
                         Emitted(SpecialTokens(Slice(a, b), a))
  BY DEF SpecialsStayWhole
<1>1. rules \in Compiled /\ text \in Seq(Runes) /\ out \in Seq(Token) /\ Len(text) \in Nat
  BY TextsAssumption DEF TInv, TypeInv
<1>2. a \in Nat /\ b \in Nat /\ a < b /\ a <= b /\ b <= Len(text)
  BY <1>1 DEF IsWord
<1>3. WordIn(text, a, b)
  <2>1. a = 0 \/ (a - 1) + 1 = a
    BY <1>2
  <2>2. QED
    BY <2>1 DEF IsWord, WordIn, IsSpaceAt
<1>4. WordKept(rules, text, out, a, b)
  BY <1>2, <1>3 DEF WInv, Kept
<1>5. Slice(a, b) = Cut(text, a, b)
  BY DEF Slice, Cut
<1>6. IsTokenMatch(Slice(a, b)) => Emitted(<<Piece(a, b)>>)
  <2>1. WholeOf(text, a, b) \in Seq(Token) /\ WholeOf(text, a, b) = <<Piece(a, b)>>
    BY <1>1, <1>2, WantedTokens
  <2>2. QED
    BY <1>1, <1>4, <1>5, <2>1, EmitsIsEmitted, Zenon DEF WordKept, IsTokenMatch, Matched
<1>7. ~IsTokenMatch(Slice(a, b)) /\ IsSpecial(Slice(a, b)) => Emitted(SpecialTokens(Slice(a, b), a))
  <2> DEFINE S == SpecialOf(rules, Cut(text, a, b), a)
  <2>1. Listed(rules, Cut(text, a, b)) => S = SpecialTokens(Cut(text, a, b), a) /\ S \in Seq(Token)
    BY <1>1, <1>2, WantedTokens
  <2>2. QED
    BY <1>1, <1>4, <1>5, <2>1, EmitsIsEmitted, Zenon DEF WordKept, IsTokenMatch, IsSpecial, Matched, Listed
<1>8. QED
  BY <1>6, <1>7

(* A word that is a token match or a special case comes out of the first     *)
(* pass as the rules say, whatever prefix, suffix or infix pattern it also   *)
(* matches (tokenizer.go:240-340), for every table and every text.           *)
THEOREM WordsOfTheTableStayWhole == Spec => []SpecialsStayWhole
<1>1. TInv /\ WInv /\ [Next]_vars => TInv' /\ WInv'
  BY NextTiles, NextKeeps
<1>2. TInv /\ WInv => SpecialsStayWhole
  BY InvariantKeeps
<1>3. QED
  BY <1>1, <1>2, InitTiles, InitKeeps, PTL DEF Spec
=============================================================================
