---------------------------- MODULE ArcEagerProofs ----------------------------
(***************************************************************************)
(* Proofs about the arc-eager parser, for a document of any length and any   *)
(* transition table: the state stays within the document, no sequence of     *)
(* transitions builds a cycle of heads, arcs never cross, never pass over a  *)
(* root and never connect two sentences, and the decode loop implements      *)
(* DependencyForest.                                                        *)
(*                                                                         *)
(* The arc lists hold the arcs of the heads from the inside out and never a  *)
(* hole, so the features are the outermost children and the document gets    *)
(* the heads of the state in whatever order the maps are iterated.           *)
(*                                                                         *)
(* Every move of the decode loop spends some of a budget that starts below   *)
(* 7N, so no table makes the loop run on.                                    *)
(***************************************************************************)
EXTENDS ArcEager, SequenceTheorems, FiniteSetTheorems, TLAPS

-----------------------------------------------------------------------------
(* Sequences: what ButLast and Append return.                               *)

(* A non-empty sequence without its last element.                           *)
LEMMA ButLastFacts ==
  ASSUME NEW T, NEW s \in Seq(T), s # <<>>
  PROVE  /\ ButLast(s) \in Seq(T)
         /\ Len(s) \in Nat \ {0}
         /\ Len(ButLast(s)) = Len(s) - 1
         /\ \A i \in 1..(Len(s) - 1) : ButLast(s)[i] = s[i]
<1>1. Len(s) \in Nat \ {0}
  BY EmptySeq, LenProperties
<1>2. \A i \in 1..(Len(s) - 1) : s[i] \in T
  BY <1>1, ElementOfSeq
<1>3. ButLast(s) = [i \in 1..(Len(s) - 1) |-> s[i]]
  BY <1>1 DEF ButLast
<1>4. QED
  BY <1>1, <1>2, <1>3

(* A sequence with one more element.                                        *)
LEMMA AppendFacts ==
  ASSUME NEW T, NEW s \in Seq(T), NEW x \in T
  PROVE  /\ Append(s, x) \in Seq(T)
         /\ Len(s) \in Nat
         /\ Len(Append(s, x)) = Len(s) + 1
         /\ Append(s, x)[Len(s) + 1] = x
         /\ \A i \in 1..Len(s) : Append(s, x)[i] = s[i]
  BY AppendProperties, LenProperties

-----------------------------------------------------------------------------
(* Reading the state: the top of the stack and the front of the buffer.     *)

(* What the type invariant says of the positions, in the form the steps      *)
(* below use it.                                                            *)
LEMMA PositionFacts ==
  ASSUME TypeOK
  PROVE  /\ N \in Nat \ {0} /\ bI \in 0..N /\ Tokens \subseteq Int
         /\ stack \in Seq(Tokens) /\ Len(stack) \in Nat
         /\ rebuffer \in Seq(Tokens) /\ Len(rebuffer) \in Nat
         /\ \A i \in 1..Len(stack) : stack[i] \in Tokens
         /\ \A i \in 1..Len(rebuffer) : rebuffer[i] \in Tokens
<1>1. N \in Nat \ {0} /\ bI \in 0..N /\ Tokens \subseteq Int
  BY NAssumption DEF TypeOK, Tokens
<1>2. stack \in Seq(Tokens) /\ rebuffer \in Seq(Tokens)
  BY DEF TypeOK
<1>3. QED
  BY <1>1, <1>2, LenProperties, ElementOfSeq

(* S(0) is the last element of a non-empty stack.                           *)
LEMMA StackTop ==
  ASSUME TypeOK, StackDepth # 0
  PROVE  /\ stack # <<>>
         /\ Len(stack) \in Nat \ {0}
         /\ S(0) = stack[Len(stack)]
         /\ S(0) \in Tokens
<1>1. stack \in Seq(Tokens) /\ Len(stack) \in Nat
  BY LenProperties DEF TypeOK
<1>2. stack # <<>> /\ Len(stack) \in Nat \ {0}
  BY <1>1, EmptySeq DEF StackDepth
<1>3. S(0) = stack[Len(stack)]
  BY <1>2 DEF S
<1>4. QED
  BY <1>1, <1>2, <1>3, ElementOfSeq

(* B(0) is the newest unshifted token, or the first one never read.         *)
LEMMA BufferFront ==
  ASSUME TypeOK, BufferLength # 0
  PROVE  /\ B(0) \in Tokens
         /\ rebuffer # <<>> => B(0) = rebuffer[Len(rebuffer)]
         /\ rebuffer = <<>> => B(0) = bI /\ bI < N
<1>1. /\ rebuffer \in Seq(Tokens) /\ Len(rebuffer) \in Nat
      /\ bI \in 0..N /\ N \in Nat \ {0}
  BY LenProperties, NAssumption DEF TypeOK
<1>2. CASE rebuffer = <<>>
  <2>1. Len(rebuffer) = 0
    BY <1>2, EmptySeq
  <2>2. bI < N
    BY <1>1, <2>1 DEF BufferLength
  <2>3. B(0) = bI
    BY <1>1, <2>1, <2>2 DEF B
  <2>4. QED
    BY <1>1, <1>2, <2>2, <2>3 DEF Tokens
<1>3. CASE rebuffer # <<>>
  <2>1. Len(rebuffer) \in Nat \ {0}
    BY <1>1, <1>3, EmptySeq
  <2>2. B(0) = rebuffer[Len(rebuffer)]
    BY <2>1 DEF B
  <2>3. rebuffer[Len(rebuffer)] \in Tokens
    BY <1>1, <2>1, ElementOfSeq
  <2>4. QED
    BY <1>3, <2>2, <2>3
<1>4. QED
  BY <1>2, <1>3

(* The second token of a buffer that holds two is there.                    *)
LEMMA BufferSecond ==
  ASSUME TypeOK, BufferLength >= 2
  PROVE  B(1) \in Tokens
<1>1. /\ rebuffer \in Seq(Tokens) /\ Len(rebuffer) \in Nat
      /\ bI \in 0..N /\ N \in Nat \ {0}
  BY LenProperties, NAssumption DEF TypeOK
<1>2. CASE Len(rebuffer) <= 1
  BY <1>1, <1>2 DEF B, BufferLength, Tokens
<1>3. CASE Len(rebuffer) > 1
  <2>1. B(1) = rebuffer[Len(rebuffer) - 1]
    BY <1>1, <1>3 DEF B
  <2>2. Len(rebuffer) - 1 \in 1..Len(rebuffer)
    BY <1>1, <1>3
  <2>3. QED
    BY <1>1, <2>1, <2>2, ElementOfSeq
<1>4. QED
  BY <1>1, <1>2, <1>3

-----------------------------------------------------------------------------
(***************************************************************************)
(* Moving tokens between the stack and the buffer.  The inductive           *)
(* invariant: the type, the order of the live tokens, what the heads of the *)
(* live tokens may be, and acyclicity.                                      *)
(***************************************************************************)
IInv == TypeOK /\ LiveInOrder /\ LiveHeads /\ NoCycle

Positioned ==
  /\ stack \in Seq(Tokens)
  /\ rebuffer \in Seq(Tokens)
  /\ bI \in 0..N

(* Taking the front of the buffer onto the stack keeps the live tokens in    *)
(* the document and in its order.                                           *)
LEMMA PushKeepsOrder ==
  ASSUME TypeOK, LiveInOrder, BufferLength # 0, Push
  PROVE  /\ Positioned'
         /\ LiveInOrder'
         /\ stack' = Append(stack, B(0))
         /\ \/ /\ rebuffer # <<>> /\ rebuffer' = ButLast(rebuffer)
               /\ bI' = bI
            \/ /\ rebuffer = <<>> /\ rebuffer' = rebuffer
               /\ bI < N /\ bI' = bI + 1
<1>1. /\ stack \in Seq(Tokens) /\ rebuffer \in Seq(Tokens)
      /\ Len(stack) \in Nat /\ Len(rebuffer) \in Nat
      /\ bI \in 0..N /\ N \in Nat \ {0}
  BY LenProperties, NAssumption DEF TypeOK
<1>2. /\ \A i \in 1..Len(stack) : stack[i] \in Int
      /\ \A i \in 1..Len(rebuffer) : rebuffer[i] \in Int
  BY <1>1, ElementOfSeq DEF Tokens
<1>3. CASE rebuffer # <<>>
  <2> DEFINE b == rebuffer[Len(rebuffer)]
  <2>1. /\ Len(rebuffer) \in Nat \ {0}
        /\ b \in Tokens /\ b = B(0)
    BY <1>1, <1>3, ButLastFacts, BufferFront
  <2>2. stack' = Append(stack, b) /\ rebuffer' = ButLast(rebuffer) /\ bI' = bI
    BY <1>3 DEF Push
  <2>3. /\ stack' \in Seq(Tokens)
        /\ Len(stack') = Len(stack) + 1
        /\ stack'[Len(stack) + 1] = b
        /\ \A i \in 1..Len(stack) : stack'[i] = stack[i]
    BY <1>1, <2>1, <2>2, AppendFacts
  <2>4. /\ rebuffer' \in Seq(Tokens)
        /\ Len(rebuffer') = Len(rebuffer) - 1
        /\ \A i \in 1..(Len(rebuffer) - 1) : rebuffer'[i] = rebuffer[i]
    BY <1>1, <1>3, <2>2, ButLastFacts
  <2>5. LiveInOrder'
    <3> HIDE DEF b
    <3>1. /\ \A i \in 1..Len(stack) : stack[i] < b
          /\ \A j \in 1..(Len(rebuffer) - 1) : b < rebuffer[j]
          /\ b < bI
      BY <1>1, <2>1 DEF LiveInOrder, b
    <3>2. \A i, j \in 1..Len(stack') : i < j => stack'[i] < stack'[j]
      <4>1. SUFFICES ASSUME NEW i \in 1..Len(stack'), NEW j \in 1..Len(stack'), i < j
                     PROVE  stack'[i] < stack'[j]
        OBVIOUS
      <4>2. i \in 1..Len(stack) /\ stack'[i] = stack[i]
        BY <1>1, <2>3, <4>1
      <4>3. CASE j = Len(stack) + 1
        BY <2>3, <3>1, <4>2, <4>3
      <4>4. CASE j # Len(stack) + 1
        BY <1>1, <2>3, <4>1, <4>2, <4>4 DEF LiveInOrder
      <4>5. QED
        BY <4>3, <4>4
    <3>3. \A i, j \in 1..Len(rebuffer') : i < j => rebuffer'[j] < rebuffer'[i]
      BY <1>1, <2>1, <2>4 DEF LiveInOrder
    <3>4. \A i \in 1..Len(stack') : \A j \in 1..Len(rebuffer') : stack'[i] < rebuffer'[j]
      <4>1. SUFFICES ASSUME NEW i \in 1..Len(stack'), NEW j \in 1..Len(rebuffer')
                     PROVE  stack'[i] < rebuffer'[j]
        OBVIOUS
      <4>2. j \in 1..(Len(rebuffer) - 1) /\ rebuffer'[j] = rebuffer[j]
        BY <1>1, <2>1, <2>4, <4>1
      <4>3. CASE i = Len(stack) + 1
        BY <2>3, <3>1, <4>2, <4>3
      <4>4. CASE i # Len(stack) + 1
        BY <1>1, <2>1, <2>3, <4>1, <4>2, <4>4 DEF LiveInOrder
      <4>5. QED
        BY <4>3, <4>4
    <3>5. \A i \in 1..Len(stack') : stack'[i] < bI'
      BY <1>1, <2>2, <2>3, <3>1 DEF LiveInOrder
    <3>6. \A j \in 1..Len(rebuffer') : rebuffer'[j] < bI'
      BY <1>1, <2>1, <2>2, <2>4 DEF LiveInOrder
    <3>7. QED
      BY <3>2, <3>3, <3>4, <3>5, <3>6 DEF LiveInOrder
  <2>6. QED
    BY <1>1, <1>3, <2>1, <2>2, <2>3, <2>4, <2>5 DEF Positioned
<1>4. CASE rebuffer = <<>>
  <2>1. Len(rebuffer) = 0 /\ bI < N /\ B(0) = bI /\ bI \in Tokens
    BY <1>1, <1>4, EmptySeq, BufferFront
  <2>2. stack' = Append(stack, bI) /\ rebuffer' = rebuffer /\ bI' = bI + 1
    BY <1>4 DEF Push
  <2>3. /\ stack' \in Seq(Tokens)
        /\ Len(stack') = Len(stack) + 1
        /\ stack'[Len(stack) + 1] = bI
        /\ \A i \in 1..Len(stack) : stack'[i] = stack[i]
    BY <1>1, <2>1, <2>2, AppendFacts
  <2>4. Len(rebuffer') = 0
    BY <2>1, <2>2
  <2>5. \A i, j \in 1..Len(stack') : i < j => stack'[i] < stack'[j]
    <3>1. SUFFICES ASSUME NEW i \in 1..Len(stack'), NEW j \in 1..Len(stack'), i < j
                   PROVE  stack'[i] < stack'[j]
      OBVIOUS
    <3>2. i \in 1..Len(stack) /\ (j \in 1..Len(stack) \/ j = Len(stack) + 1)
      BY <1>1, <2>3, <3>1
    <3>3. CASE j \in 1..Len(stack)
      BY <2>3, <3>1, <3>2, <3>3 DEF LiveInOrder
    <3>4. CASE j = Len(stack) + 1
      BY <2>3, <3>2, <3>4 DEF LiveInOrder
    <3>5. QED
      BY <3>2, <3>3, <3>4
  <2>6. \A i \in 1..Len(stack') : stack'[i] < bI'
    BY <1>1, <1>2, <2>2, <2>3 DEF LiveInOrder
  <2>7. LiveInOrder'
    BY <2>4, <2>5, <2>6 DEF LiveInOrder
  <2>8. rebuffer' \in Seq(Tokens) /\ bI' \in 0..N
    BY <1>1, <2>1, <2>2
  <2>9. Positioned'
    BY <2>3, <2>8 DEF Positioned
  <2>10. QED
    BY <1>4, <2>1, <2>2, <2>7, <2>9
<1>5. QED
  BY <1>3, <1>4

(* Taking the top off the stack keeps the live tokens in the document and    *)
(* in its order.                                                            *)
LEMMA PopKeepsOrder ==
  ASSUME TypeOK, LiveInOrder, StackDepth # 0, Pop
  PROVE  Positioned' /\ LiveInOrder'
<1>1. /\ stack \in Seq(Tokens) /\ stack # <<>>
      /\ rebuffer \in Seq(Tokens) /\ bI \in 0..N
  BY StackTop DEF TypeOK
<1>2. stack' = ButLast(stack) /\ rebuffer' = rebuffer /\ bI' = bI
  BY DEF Pop
<1>3. /\ stack' \in Seq(Tokens)
      /\ Len(stack) \in Nat \ {0}
      /\ Len(stack') = Len(stack) - 1
      /\ \A i \in 1..(Len(stack) - 1) : stack'[i] = stack[i]
  BY <1>1, <1>2, ButLastFacts
<1>4. Positioned'
  BY <1>1, <1>2, <1>3 DEF Positioned
<1>5. LiveInOrder'
  BY <1>2, <1>3 DEF LiveInOrder
<1>6. QED
  BY <1>4, <1>5

(* Moving the top of the stack back to the buffer keeps the live tokens in   *)
(* the document and in its order.                                           *)
LEMMA UnshiftKeepsOrder ==
  ASSUME TypeOK, LiveInOrder, StackDepth # 0, Unshift
  PROVE  Positioned' /\ LiveInOrder'
<1>1. /\ stack \in Seq(Tokens) /\ stack # <<>>
      /\ rebuffer \in Seq(Tokens) /\ Len(rebuffer) \in Nat /\ bI \in 0..N
      /\ S(0) = stack[Len(stack)] /\ S(0) \in Tokens
  BY StackTop, LenProperties DEF TypeOK
<1>2. /\ stack' = ButLast(stack)
      /\ rebuffer' = Append(rebuffer, S(0))
      /\ bI' = bI
  BY DEF Unshift
<1>3. /\ stack' \in Seq(Tokens)
      /\ Len(stack) \in Nat \ {0}
      /\ Len(stack') = Len(stack) - 1
      /\ \A i \in 1..(Len(stack) - 1) : stack'[i] = stack[i]
  BY <1>1, <1>2, ButLastFacts
<1>4. /\ rebuffer' \in Seq(Tokens)
      /\ Len(rebuffer') = Len(rebuffer) + 1
      /\ rebuffer'[Len(rebuffer) + 1] = stack[Len(stack)]
      /\ \A i \in 1..Len(rebuffer) : rebuffer'[i] = rebuffer[i]
  BY <1>1, <1>2, AppendFacts
<1>5. \A i, j \in 1..Len(stack') : i < j => stack'[i] < stack'[j]
  BY <1>3 DEF LiveInOrder
<1>6. \A i, j \in 1..Len(rebuffer') : i < j => rebuffer'[j] < rebuffer'[i]
  <2>1. SUFFICES ASSUME NEW i \in 1..Len(rebuffer'), NEW j \in 1..Len(rebuffer'), i < j
                 PROVE  rebuffer'[j] < rebuffer'[i]
    OBVIOUS
  <2>2. i \in 1..Len(rebuffer) /\ rebuffer'[i] = rebuffer[i]
    BY <1>1, <1>4, <2>1
  <2>3. CASE j = Len(rebuffer) + 1
    BY <1>3, <1>4, <2>2, <2>3 DEF LiveInOrder
  <2>4. CASE j # Len(rebuffer) + 1
    BY <1>1, <1>4, <2>1, <2>2, <2>4 DEF LiveInOrder
  <2>5. QED
    BY <2>3, <2>4
<1>7. \A i \in 1..Len(stack') : \A j \in 1..Len(rebuffer') : stack'[i] < rebuffer'[j]
  <2>1. SUFFICES ASSUME NEW i \in 1..Len(stack'), NEW j \in 1..Len(rebuffer')
                 PROVE  stack'[i] < rebuffer'[j]
    OBVIOUS
  <2>2. i \in 1..(Len(stack) - 1) /\ stack'[i] = stack[i]
    BY <1>3, <2>1
  <2>3. CASE j = Len(rebuffer) + 1
    BY <1>3, <1>4, <2>2, <2>3 DEF LiveInOrder
  <2>4. CASE j # Len(rebuffer) + 1
    BY <1>1, <1>3, <1>4, <2>1, <2>2, <2>4 DEF LiveInOrder
  <2>5. QED
    BY <2>3, <2>4
<1>8. \A i \in 1..Len(stack') : stack'[i] < bI'
  BY <1>2, <1>3 DEF LiveInOrder
<1>9. \A j \in 1..Len(rebuffer') : rebuffer'[j] < bI'
  <2>1. SUFFICES ASSUME NEW j \in 1..Len(rebuffer')
                 PROVE  rebuffer'[j] < bI
    BY <1>2
  <2>2. CASE j = Len(rebuffer) + 1
    BY <1>3, <1>4, <2>2 DEF LiveInOrder
  <2>3. CASE j # Len(rebuffer) + 1
    BY <1>1, <1>4, <2>1, <2>3 DEF LiveInOrder
  <2>4. QED
    BY <2>2, <2>3
<1>10. QED
  BY <1>1, <1>2, <1>3, <1>4, <1>5, <1>6, <1>7, <1>8, <1>9 DEF LiveInOrder, Positioned

-----------------------------------------------------------------------------
(* Adding and removing arcs. *)

ArcLists == [Tokens -> Seq(Arc \union {Hole})]

(* Whatever delArc does to a head's list, it stays a list of arcs and holes. *)
LEMMA DelArcKeepsLists ==
  ASSUME NEW arcs \in ArcLists, NEW h \in Tokens, NEW c \in Tokens
  PROVE  DelArc(arcs, h, c) \in ArcLists
<1> DEFINE at == {i \in 1..Len(arcs[h]) : arcs[h][i].head = h /\ arcs[h][i].child = c}
           last == CHOOSE i \in at : \A j \in at : j <= i
<1>1. arcs[h] \in Seq(Arc \union {Hole})
  BY DEF ArcLists
<1>2. CASE at = {}
  BY <1>2 DEF DelArc
<1>3. CASE at # {} /\ last = Len(arcs[h])
  <2>1. arcs[h] # <<>>
    BY <1>1, <1>3, EmptySeq
  <2>2. ButLast(arcs[h]) \in Seq(Arc \union {Hole})
    BY <1>1, <2>1, ButLastFacts
  <2>3. DelArc(arcs, h, c) = [arcs EXCEPT ![h] = ButLast(arcs[h])]
    BY <1>3 DEF DelArc
  <2>4. QED
    BY <2>2, <2>3 DEF ArcLists
<1>4. CASE at # {} /\ last # Len(arcs[h])
  <2> DEFINE cut == [arcs[h] EXCEPT ![last] = Hole]
  <2>1. cut \in Seq(Arc \union {Hole})
    <3>1. CASE last \in 1..Len(arcs[h])
      <4> HIDE DEF last
      <4>1. QED
        BY <1>1, <3>1, ExceptSeq
    <3>2. CASE last \notin 1..Len(arcs[h])
      <4> HIDE DEF last
      <4>1. DOMAIN arcs[h] = 1..Len(arcs[h]) /\ arcs[h] \in [1..Len(arcs[h]) -> Arc \union {Hole}]
        BY <1>1, LenProperties
      <4>2. cut = arcs[h]
        BY <3>2, <4>1
      <4>3. QED
        BY <1>1, <4>2
    <3>3. QED
      BY <3>1, <3>2
  <2>2. DelArc(arcs, h, c) = [arcs EXCEPT ![h] = cut]
    BY <1>4 DEF DelArc
  <2>3. QED
    BY <2>1, <2>2 DEF ArcLists
<1>5. QED
  BY <1>2, <1>3, <1>4

(* An arc between two tokens of the document changes the head of its child   *)
(* and nothing else about heads, and the arc lists stay lists of arcs.       *)
LEMMA AddArcKeepsLists ==
  ASSUME TypeOK, NEW h \in Tokens, NEW c \in Tokens,
         NEW label \in Labels \union {NoLabel}, AddArc(h, c, label)
  PROVE  /\ leftArcs' \in ArcLists
         /\ rightArcs' \in ArcLists
         /\ heads' = [heads EXCEPT ![c] = h]
         /\ heads' \in [Tokens -> Tokens \union {NoHead}]
<1> DEFINE old == heads[c]
           left  == IF HasHead(c) /\ old > c THEN DelArc(leftArcs, old, c) ELSE leftArcs
           right == IF HasHead(c) /\ ~(old > c) THEN DelArc(rightArcs, old, c) ELSE rightArcs
           arc == [head |-> h, child |-> c, label |-> label]
<1>1. leftArcs \in ArcLists /\ rightArcs \in ArcLists
  BY DEF TypeOK, ArcLists
<1>2. HasHead(c) => old \in Tokens
  BY DEF TypeOK, HasHead, NoHead
<1>3. left \in ArcLists /\ right \in ArcLists
  BY <1>1, <1>2, DelArcKeepsLists
<1>4. arc \in Arc \union {Hole}
  BY DEF Arc
<1>5. /\ leftArcs'  = IF h > c THEN [left EXCEPT ![h] = Append(@, arc)] ELSE left
      /\ rightArcs' = IF h > c THEN right ELSE [right EXCEPT ![h] = Append(@, arc)]
      /\ heads' = [heads EXCEPT ![c] = h]
  BY DEF AddArc
<1> HIDE DEF left, right, arc
<1>6. /\ Append(left[h], arc) \in Seq(Arc \union {Hole})
      /\ Append(right[h], arc) \in Seq(Arc \union {Hole})
  BY <1>3, <1>4, AppendProperties DEF ArcLists
<1>7. leftArcs' \in ArcLists /\ rightArcs' \in ArcLists
  BY <1>3, <1>5, <1>6 DEF ArcLists
<1>8. heads' \in [Tokens -> Tokens \union {NoHead}]
  BY <1>5 DEF TypeOK
<1>9. QED
  BY <1>5, <1>7, <1>8

-----------------------------------------------------------------------------
(* What the validity tests guarantee the transitions they admit.             *)
LEMMA ValidFacts ==
  ASSUME TypeOK, NEW label \in Labels \union {NoLabel}
  PROVE  /\ Takes("SHIFT", label) => BufferLength # 0
         /\ Takes("REDUCE", label) => StackDepth # 0
         /\ Takes("LEFT", label) => StackDepth # 0 /\ BufferLength # 0
         /\ Takes("RIGHT", label) => StackDepth # 0 /\ BufferLength # 0
         /\ Takes("BREAK", label) => BufferLength >= 2
<1>1. BufferLength \in Int
  <2>1. Len(rebuffer) \in Nat
    BY LenProperties DEF TypeOK
  <2>2. QED
    BY <2>1, NAssumption DEF TypeOK, BufferLength
<1>2. Takes("SHIFT", label) => ShiftValid
  BY Zenon DEF Takes, IsValid
<1>3. Takes("REDUCE", label) => ReduceValid
  BY Zenon DEF Takes, IsValid
<1>4. Takes("LEFT", label) => ArcValid(label)
  BY Zenon DEF Takes, IsValid
<1>5. Takes("RIGHT", label) => ArcValid(label)
  BY Zenon DEF Takes, IsValid
<1>6. Takes("BREAK", label) => BreakValid
  BY Zenon DEF Takes, IsValid
<1>7. ShiftValid => BufferLength # 0
  BY <1>1 DEF ShiftValid
<1>8. QED
  BY <1>2, <1>3, <1>4, <1>5, <1>6, <1>7 DEF ReduceValid, ArcValid, BreakValid

-----------------------------------------------------------------------------
(* The heads of the live tokens. *)

(* No token is live twice: the top of the stack is nowhere else.            *)
LEMMA OthersLive ==
  ASSUME TypeOK, LiveInOrder, StackDepth # 0
  PROVE  /\ \A i \in 1..(Len(stack) - 1) : stack[i] # S(0)
         /\ \A j \in 1..Len(rebuffer) : rebuffer[j] # S(0)
         /\ \A t \in bI..(N - 1) : t # S(0)
<1>1. /\ Len(stack) \in Nat \ {0} /\ S(0) = stack[Len(stack)] /\ S(0) \in Int
      /\ bI \in Int /\ N \in Int
  BY StackTop, PositionFacts
<1>2. \A i \in 1..(Len(stack) - 1) : stack[i] # S(0)
  <2>1. \A i \in 1..(Len(stack) - 1) : stack[i] < S(0)
    BY <1>1 DEF LiveInOrder
  <2>2. QED
    BY <1>1, <2>1
<1>3. \A j \in 1..Len(rebuffer) : rebuffer[j] # S(0)
  <2>1. \A j \in 1..Len(rebuffer) : S(0) < rebuffer[j]
    BY <1>1 DEF LiveInOrder
  <2>2. QED
    BY <1>1, <2>1
<1>4. \A t \in bI..(N - 1) : t # S(0)
  <2>1. S(0) < bI
    BY <1>1 DEF LiveInOrder
  <2>2. QED
    BY <1>1, <2>1
<1>5. QED
  BY <1>2, <1>3, <1>4

(* The front of the buffer has no head and is not on the stack.              *)
LEMMA FrontIsHeadless ==
  ASSUME TypeOK, LiveInOrder, LiveHeads, BufferLength # 0
  PROVE  /\ heads[B(0)] = NoHead
         /\ \A i \in 1..Len(stack) : stack[i] < B(0)
<1>1. /\ rebuffer \in Seq(Tokens) /\ bI \in Int /\ N \in Int /\ B(0) \in Int
      /\ Len(stack) \in Nat
      /\ \A i \in 1..Len(stack) : stack[i] \in Int
  BY BufferFront, PositionFacts
<1>2. CASE rebuffer = <<>>
  BY <1>1, <1>2, BufferFront DEF LiveHeads, LiveInOrder
<1>3. CASE rebuffer # <<>>
  <2>1. Len(rebuffer) \in Nat \ {0} /\ B(0) = rebuffer[Len(rebuffer)]
    BY <1>1, <1>3, EmptySeq, BufferFront
  <2>2. QED
    BY <1>1, <2>1 DEF LiveHeads, LiveInOrder
<1>4. QED
  BY <1>2, <1>3

(* The live tokens have the heads LiveHeads allows when the front of the      *)
(* buffer goes onto the stack without a head, or with the old top as its     *)
(* head.                                                                    *)
LEMMA PushKeepsLiveHeads ==
  ASSUME IInv, BufferLength # 0, Push,
         heads' \in [Tokens -> Tokens \union {NoHead}],
         \A t \in Tokens : t # B(0) => heads'[t] = heads[t],
         \/ heads'[B(0)] = NoHead
         \/ StackDepth # 0 /\ heads'[B(0)] = S(0)
  PROVE  LiveHeads'
<1>1. TypeOK /\ LiveInOrder /\ LiveHeads /\ B(0) \in Tokens
  BY BufferFront DEF IInv
<1>2. /\ stack' = Append(stack, B(0))
      /\ \/ /\ rebuffer # <<>> /\ rebuffer' = ButLast(rebuffer)
            /\ bI' = bI
         \/ /\ rebuffer = <<>> /\ rebuffer' = rebuffer
            /\ bI < N /\ bI' = bI + 1
  BY <1>1, PushKeepsOrder
<1>3. /\ Len(stack') = Len(stack) + 1
      /\ stack'[Len(stack) + 1] = B(0)
      /\ \A i \in 1..Len(stack) : stack'[i] = stack[i]
      /\ Len(stack) \in Nat
  BY <1>1, <1>2, PositionFacts, AppendFacts
<1>4. /\ \A i \in 1..Len(stack) : stack[i] \in Tokens /\ stack[i] # B(0)
      /\ heads[B(0)] = NoHead
  <2>1. /\ \A i \in 1..Len(stack) : stack[i] \in Tokens /\ stack[i] \in Int
        /\ B(0) \in Int
    BY <1>1, PositionFacts
  <2>2. heads[B(0)] = NoHead /\ \A i \in 1..Len(stack) : stack[i] < B(0)
    BY <1>1, FrontIsHeadless
  <2>3. QED
    BY <2>1, <2>2
<1>5. ASSUME NEW i \in 1..Len(stack')
      PROVE  \/ heads'[stack'[i]] = NoHead
             \/ i > 1 /\ heads'[stack'[i]] = stack'[i - 1]
  <2>1. CASE i = Len(stack) + 1
    <3>1. CASE heads'[B(0)] = NoHead
      BY <1>3, <2>1, <3>1
    <3>2. CASE StackDepth # 0 /\ heads'[B(0)] = S(0)
      <4>1. Len(stack) \in Nat \ {0} /\ S(0) = stack[Len(stack)]
        BY <1>1, <3>2, StackTop
      <4>2. QED
        BY <1>3, <2>1, <3>2, <4>1
    <3>3. QED
      BY <3>1, <3>2
  <2>2. CASE i # Len(stack) + 1
    <3>1. i \in 1..Len(stack) /\ stack'[i] = stack[i] /\ heads'[stack[i]] = heads[stack[i]]
      BY <1>3, <1>4, <2>2
    <3>2. i > 1 => stack'[i - 1] = stack[i - 1]
      BY <1>3, <3>1
    <3>3. QED
      BY <1>1, <3>1, <3>2 DEF LiveHeads
  <2>3. QED
    BY <2>1, <2>2
<1>6. ASSUME NEW j \in 1..Len(rebuffer')
      PROVE  heads'[rebuffer'[j]] = NoHead
  <2>1. CASE rebuffer # <<>>
    <3>1. /\ Len(rebuffer) \in Nat \ {0} /\ B(0) = rebuffer[Len(rebuffer)]
          /\ rebuffer' = ButLast(rebuffer)
          /\ Len(rebuffer') = Len(rebuffer) - 1
          /\ \A i \in 1..(Len(rebuffer) - 1) : rebuffer'[i] = rebuffer[i]
      BY <1>1, <1>2, <2>1, BufferFront, PositionFacts, ButLastFacts
    <3>2. j \in 1..(Len(rebuffer) - 1) /\ rebuffer'[j] = rebuffer[j]
      BY <3>1
    <3>3. /\ B(0) < rebuffer[j]
          /\ heads[rebuffer[j]] = NoHead
      BY <1>1, <3>1, <3>2 DEF LiveInOrder, LiveHeads
    <3>4. rebuffer[j] # B(0) /\ rebuffer[j] \in Tokens
      BY <1>1, <3>1, <3>2, <3>3, PositionFacts
    <3>5. QED
      BY <3>2, <3>3, <3>4
  <2>2. CASE rebuffer = <<>>
    BY <1>2, <2>2, EmptySeq
  <2>3. QED
    BY <2>1, <2>2
<1>7. ASSUME NEW t \in bI'..(N - 1)
      PROVE  heads'[t] = NoHead
  <2>1. bI \in 0..N /\ N \in Nat \ {0} /\ B(0) \in Int
    BY <1>1, PositionFacts
  <2>2. t \in bI..(N - 1) /\ t \in Tokens
    BY <1>2, <2>1 DEF Tokens
  <2>3. t # B(0)
    <3>1. CASE rebuffer # <<>>
      <4>1. B(0) = rebuffer[Len(rebuffer)] /\ Len(rebuffer) \in Nat \ {0}
        BY <1>1, <3>1, BufferFront, PositionFacts, ButLastFacts
      <4>2. B(0) < bI
        BY <1>1, <4>1 DEF LiveInOrder
      <4>3. QED
        BY <2>1, <2>2, <4>2
    <3>2. CASE rebuffer = <<>>
      BY <1>1, <1>2, <2>1, <3>2, BufferFront
    <3>3. QED
      BY <3>1, <3>2
  <2>4. QED
    BY <1>1, <2>2, <2>3 DEF LiveHeads
<1>8. QED
  BY <1>5, <1>6, <1>7 DEF LiveHeads

(* They have them when the top leaves the stack for good, whatever head it    *)
(* is given on the way.                                                     *)
LEMMA PopKeepsLiveHeads ==
  ASSUME IInv, StackDepth # 0, Pop,
         \A t \in Tokens : t # S(0) => heads'[t] = heads[t]
  PROVE  LiveHeads'
<1>1. TypeOK /\ LiveInOrder /\ LiveHeads /\ stack # <<>>
  BY StackTop DEF IInv
<1>2. stack' = ButLast(stack) /\ rebuffer' = rebuffer /\ bI' = bI
  BY DEF Pop
<1>3. /\ Len(stack) \in Nat \ {0}
      /\ Len(stack') = Len(stack) - 1
      /\ \A i \in 1..(Len(stack) - 1) : stack'[i] = stack[i] /\ stack[i] \in Tokens
  BY <1>1, <1>2, PositionFacts, ButLastFacts
<1>4. /\ \A i \in 1..(Len(stack) - 1) : heads'[stack[i]] = heads[stack[i]]
      /\ \A j \in 1..Len(rebuffer) : heads'[rebuffer[j]] = heads[rebuffer[j]]
      /\ \A t \in bI..(N - 1) : heads'[t] = heads[t]
  <2>1. \A t \in bI..(N - 1) : t \in Tokens
    BY <1>1, PositionFacts DEF Tokens
  <2>2. QED
    BY <1>1, <1>3, <2>1, OthersLive, PositionFacts
<1>5. ASSUME NEW i \in 1..Len(stack')
      PROVE  \/ heads'[stack'[i]] = NoHead
             \/ i > 1 /\ heads'[stack'[i]] = stack'[i - 1]
  <2>1. /\ i \in 1..(Len(stack) - 1)
        /\ stack'[i] = stack[i]
        /\ i > 1 => stack'[i - 1] = stack[i - 1]
    BY <1>3
  <2>2. QED
    BY <1>1, <1>4, <2>1 DEF LiveHeads
<1>6. QED
  BY <1>1, <1>2, <1>4, <1>5 DEF LiveHeads

(* They have them when a headless top goes back to the buffer.               *)
LEMMA UnshiftKeepsLiveHeads ==
  ASSUME IInv, StackDepth # 0, ~HasHead(S(0)), Unshift, heads' = heads
  PROVE  LiveHeads'
<1>1. /\ TypeOK /\ LiveHeads /\ stack # <<>> /\ S(0) \in Tokens
      /\ S(0) = stack[Len(stack)]
  BY StackTop DEF IInv
<1>2. heads[S(0)] = NoHead
  BY <1>1 DEF HasHead, NoHead, TypeOK, Tokens
<1>3. stack' = ButLast(stack) /\ rebuffer' = Append(rebuffer, S(0)) /\ bI' = bI
  BY DEF Unshift
<1>4. /\ Len(stack) \in Nat \ {0}
      /\ Len(stack') = Len(stack) - 1
      /\ \A i \in 1..(Len(stack) - 1) : stack'[i] = stack[i]
  BY <1>1, <1>3, PositionFacts, ButLastFacts
<1>5. /\ Len(rebuffer') = Len(rebuffer) + 1
      /\ rebuffer'[Len(rebuffer) + 1] = S(0)
      /\ \A i \in 1..Len(rebuffer) : rebuffer'[i] = rebuffer[i]
      /\ Len(rebuffer) \in Nat
  BY <1>1, <1>3, PositionFacts, AppendFacts
<1>6. ASSUME NEW i \in 1..Len(stack')
      PROVE  \/ heads[stack'[i]] = NoHead
             \/ i > 1 /\ heads[stack'[i]] = stack'[i - 1]
  <2>1. /\ i \in 1..(Len(stack) - 1)
        /\ stack'[i] = stack[i]
        /\ i > 1 => stack'[i - 1] = stack[i - 1]
    BY <1>4
  <2>2. QED
    BY <1>1, <2>1 DEF LiveHeads
<1>7. ASSUME NEW j \in 1..Len(rebuffer')
      PROVE  heads[rebuffer'[j]] = NoHead
  <2>1. CASE j = Len(rebuffer) + 1
    BY <1>2, <1>5, <2>1
  <2>2. CASE j # Len(rebuffer) + 1
    BY <1>1, <1>5, <2>2 DEF LiveHeads
  <2>3. QED
    BY <2>1, <2>2
<1>8. QED
  BY <1>1, <1>3, <1>6, <1>7 DEF LiveHeads

-----------------------------------------------------------------------------
(* Acyclicity. *)

(* Acyclicity over the tokens of the document.                               *)
LEMMA AcyclicFacts ==
  ASSUME IInv
  PROVE  /\ heads \in [Tokens -> Tokens \union {NoHead}]
         /\ \A X \in SUBSET Tokens : X # {} => \E t \in X : heads[t] \notin X
<1>1. heads \in [Tokens -> Tokens \union {NoHead}] /\ Acyclic(heads)
  BY DEF IInv, NoCycle, TypeOK
<1>2. DOMAIN heads = Tokens
  BY <1>1
<1>3. QED
  BY <1>1, <1>2 DEF Acyclic

(* A set of tokens that meets the stack cannot keep all its heads: the part   *)
(* of it that is on the stack does not, and a token of the stack has its     *)
(* head on the stack or none.                                               *)
LEMMA StackEscapes ==
  ASSUME IInv, NEW X \in SUBSET Tokens, NEW k \in 1..Len(stack), stack[k] \in X
  PROVE  \E i \in 1..Len(stack) : stack[i] \in X /\ heads[stack[i]] \notin X
<1> DEFINE Y == {t \in X : \E i \in 1..Len(stack) : t = stack[i]}
<1>1. TypeOK /\ LiveHeads /\ Acyclic(heads) /\ DOMAIN heads = Tokens
  BY DEF IInv, NoCycle, TypeOK
<1>2. Y \in SUBSET Tokens /\ Y # {}
  OBVIOUS
<1>3. PICK t \in Y : heads[t] \notin Y
  BY <1>1, <1>2 DEF Acyclic
<1>4. PICK i \in 1..Len(stack) : t = stack[i]
  BY <1>3
<1>5. CASE heads[t] = NoHead
  <2>1. heads[t] \notin X
    BY <1>5 DEF NoHead, Tokens
  <2>2. QED
    BY <1>3, <1>4, <2>1
<1>6. CASE i > 1 /\ heads[t] = stack[i - 1]
  <2>1. i - 1 \in 1..Len(stack)
    BY <1>1, <1>6, PositionFacts
  <2>2. heads[t] \notin X
    BY <1>3, <1>6, <2>1
  <2>3. QED
    BY <1>3, <1>4, <2>2
<1>7. QED
  BY <1>1, <1>4, <1>5, <1>6 DEF LiveHeads

(* Giving the front of the buffer the top of the stack as its head closes no *)
(* cycle: a set that holds both meets the stack.                            *)
LEMMA RightKeepsAcyclic ==
  ASSUME IInv, StackDepth # 0, BufferLength # 0,
         heads' = [heads EXCEPT ![B(0)] = S(0)]
  PROVE  NoCycle'
<1>1. /\ TypeOK /\ LiveInOrder /\ LiveHeads
      /\ heads \in [Tokens -> Tokens \union {NoHead}]
      /\ B(0) \in Tokens /\ S(0) \in Tokens
      /\ Len(stack) \in 1..Len(stack) /\ S(0) = stack[Len(stack)]
  <2>1. TypeOK /\ LiveInOrder /\ LiveHeads
    BY DEF IInv
  <2>2. Len(stack) \in Nat \ {0} /\ S(0) = stack[Len(stack)] /\ S(0) \in Tokens
    BY <2>1, StackTop
  <2>3. QED
    BY <2>1, <2>2, BufferFront, AcyclicFacts
<1>2. SUFFICES ASSUME NEW X \in SUBSET Tokens, X # {}
               PROVE  \E t \in X : heads'[t] \notin X
  BY <1>1 DEF NoCycle, Acyclic
<1>3. CASE B(0) \notin X
  <2>1. PICK t \in X : heads[t] \notin X
    BY <1>2, AcyclicFacts
  <2>2. heads'[t] = heads[t]
    BY <1>1, <1>3
  <2>3. QED
    BY <2>1, <2>2
<1>4. CASE B(0) \in X /\ S(0) \notin X
  BY <1>1, <1>4
<1>5. CASE B(0) \in X /\ S(0) \in X
  <2>1. PICK i \in 1..Len(stack) : stack[i] \in X /\ heads[stack[i]] \notin X
    BY <1>1, <1>5, StackEscapes
  <2>2. stack[i] < B(0) /\ stack[i] \in Tokens /\ B(0) \in Int /\ stack[i] \in Int
    BY <1>1, FrontIsHeadless, PositionFacts
  <2>3. heads'[stack[i]] = heads[stack[i]]
    BY <1>1, <2>2
  <2>4. QED
    BY <2>1, <2>3
<1>6. QED
  BY <1>3, <1>4, <1>5

(* Giving the top of the stack the front of the buffer as its head closes no *)
(* cycle, whatever head it had: the front of the buffer has none.           *)
LEMMA LeftKeepsAcyclic ==
  ASSUME IInv, StackDepth # 0, BufferLength # 0,
         heads' = [heads EXCEPT ![S(0)] = B(0)]
  PROVE  NoCycle'
<1>1. /\ TypeOK /\ LiveInOrder /\ LiveHeads
      /\ heads \in [Tokens -> Tokens \union {NoHead}]
      /\ B(0) \in Tokens /\ S(0) \in Tokens
      /\ Len(stack) \in 1..Len(stack) /\ S(0) = stack[Len(stack)]
  <2>1. TypeOK /\ LiveInOrder /\ LiveHeads
    BY DEF IInv
  <2>2. Len(stack) \in Nat \ {0} /\ S(0) = stack[Len(stack)] /\ S(0) \in Tokens
    BY <2>1, StackTop
  <2>3. QED
    BY <2>1, <2>2, BufferFront, AcyclicFacts
<1>2. SUFFICES ASSUME NEW X \in SUBSET Tokens, X # {}
               PROVE  \E t \in X : heads'[t] \notin X
  BY <1>1 DEF NoCycle, Acyclic
<1>3. CASE S(0) \notin X
  <2>1. PICK t \in X : heads[t] \notin X
    BY <1>2, AcyclicFacts
  <2>2. heads'[t] = heads[t]
    BY <1>1, <1>3
  <2>3. QED
    BY <2>1, <2>2
<1>4. CASE S(0) \in X /\ B(0) \notin X
  BY <1>1, <1>4
<1>5. CASE S(0) \in X /\ B(0) \in X
  <2>1. heads[B(0)] = NoHead /\ S(0) < B(0) /\ S(0) \in Int
    BY <1>1, FrontIsHeadless, PositionFacts
  <2>2. heads'[B(0)] = NoHead
    BY <1>1, <2>1
  <2>3. NoHead \notin X
    BY DEF NoHead, Tokens
  <2>4. QED
    BY <1>5, <2>2, <2>3
<1>6. QED
  BY <1>3, <1>4, <1>5

-----------------------------------------------------------------------------
(* Every transition keeps the inductive invariant. *)

(* The initial state of a parse satisfies it.                                *)
LEMMA InitIInv == Init => IInv
<1>1. SUFFICES ASSUME Init PROVE IInv
  OBVIOUS
<1>2. Len(stack) = 0 /\ Len(rebuffer) = 0 /\ bI = 0
  BY <1>1, EmptySeq DEF Init
<1>3. TypeOK
  <2>1. <<>> \in Seq(Tokens) /\ <<>> \in Seq(Arc \union {Hole})
    BY EmptySeq
  <2>2. 0 \in Tokens /\ 0 \in 0..N
    BY NAssumption DEF Tokens
  <2>3. QED
    BY <1>1, <2>1, <2>2 DEF Init, TypeOK
<1>4. LiveInOrder
  BY <1>2 DEF LiveInOrder
<1>5. LiveHeads
  BY <1>1, <1>2 DEF Init, LiveHeads, Tokens
<1>6. NoCycle
  <2>1. \A X \in SUBSET Tokens : \A t \in X : heads[t] \notin X
    BY <1>1 DEF Init, NoHead, Tokens
  <2>2. QED
    BY <1>1, <2>1 DEF Init, NoCycle, Acyclic
<1>7. QED
  BY <1>3, <1>4, <1>5, <1>6 DEF IInv

(* SHIFT.                                                                   *)
LEMMA ShiftKeeps ==
  ASSUME IInv, NEW label \in Labels \union {NoLabel}, Shift(label)
  PROVE  IInv'
<1>1. TypeOK /\ LiveInOrder /\ LiveHeads /\ NoCycle
  BY DEF IInv
<1>2. /\ BufferLength # 0
      /\ Push
      /\ UNCHANGED <<heads, leftArcs, rightArcs, unshiftable, sentStarts, pc, doc, table>>
  BY <1>1, ValidFacts DEF Shift
<1>3. Positioned' /\ LiveInOrder'
  BY <1>1, <1>2, PushKeepsOrder
<1>4. TypeOK'
  BY <1>1, <1>2, <1>3 DEF TypeOK, Positioned
<1>5. LiveHeads'
  <2>1. heads[B(0)] = NoHead /\ heads \in [Tokens -> Tokens \union {NoHead}]
    BY <1>1, <1>2, FrontIsHeadless, AcyclicFacts
  <2>2. QED
    BY <1>2, <2>1, PushKeepsLiveHeads
<1>6. NoCycle'
  BY <1>1, <1>2 DEF NoCycle
<1>7. QED
  BY <1>3, <1>4, <1>5, <1>6 DEF IInv

(* REDUCE, with its pop and its unshift.                                     *)
LEMMA ReduceKeeps ==
  ASSUME IInv, NEW label \in Labels \union {NoLabel}, Reduce(label)
  PROVE  IInv'
<1>1. TypeOK /\ LiveInOrder /\ LiveHeads /\ NoCycle
  BY DEF IInv
<1>2. /\ StackDepth # 0
      /\ UNCHANGED <<heads, leftArcs, rightArcs, sentStarts, pc, doc, table>>
      /\ NoCycle'
  BY <1>1, ValidFacts DEF Reduce, NoCycle
<1>3. CASE Pop /\ UNCHANGED unshiftable
  <2>1. Positioned' /\ LiveInOrder'
    BY <1>1, <1>2, <1>3, PopKeepsOrder
  <2>2. TypeOK'
    BY <1>1, <1>2, <1>3, <2>1 DEF TypeOK, Positioned
  <2>3. LiveHeads'
    BY <1>2, <1>3, PopKeepsLiveHeads
  <2>4. QED
    BY <1>2, <2>1, <2>2, <2>3 DEF IInv
<1>4. CASE ~HasHead(S(0)) /\ Unshift
  <2>1. Positioned' /\ LiveInOrder'
    BY <1>1, <1>2, <1>4, UnshiftKeepsOrder
  <2>2. unshiftable' \subseteq Tokens
    BY <1>1, <1>2, <1>4, StackTop DEF Unshift, TypeOK
  <2>3. TypeOK'
    BY <1>1, <1>2, <2>1, <2>2 DEF TypeOK, Positioned
  <2>4. LiveHeads'
    BY <1>2, <1>4, UnshiftKeepsLiveHeads
  <2>5. QED
    BY <1>2, <2>1, <2>3, <2>4 DEF IInv
<1>5. QED
  BY <1>3, <1>4 DEF Reduce

(* LEFT.                                                                    *)
LEMMA LeftKeeps ==
  ASSUME IInv, NEW label \in Labels \union {NoLabel}, Left(label)
  PROVE  IInv'
<1>1. TypeOK /\ LiveInOrder /\ LiveHeads /\ NoCycle
  BY DEF IInv
<1>2. /\ StackDepth # 0 /\ BufferLength # 0
      /\ AddArc(B(0), S(0), label)
      /\ unshiftable' = unshiftable \ {B(0)}
      /\ Pop
      /\ UNCHANGED <<sentStarts, pc, doc, table>>
  BY <1>1, ValidFacts DEF Left
<1>3. S(0) \in Tokens /\ B(0) \in Tokens
  BY <1>1, <1>2, StackTop, BufferFront
<1>4. /\ leftArcs' \in ArcLists /\ rightArcs' \in ArcLists
      /\ heads' = [heads EXCEPT ![S(0)] = B(0)]
      /\ heads' \in [Tokens -> Tokens \union {NoHead}]
  BY <1>1, <1>2, <1>3, AddArcKeepsLists
<1>5. Positioned' /\ LiveInOrder'
  BY <1>1, <1>2, PopKeepsOrder
<1>6. TypeOK'
  BY <1>1, <1>2, <1>4, <1>5 DEF TypeOK, Positioned, ArcLists
<1>7. LiveHeads'
  <2>1. \A t \in Tokens : t # S(0) => heads'[t] = heads[t]
    BY <1>1, <1>4 DEF TypeOK
  <2>2. QED
    BY <1>2, <2>1, PopKeepsLiveHeads
<1>8. NoCycle'
  BY <1>2, <1>4, LeftKeepsAcyclic
<1>9. QED
  BY <1>5, <1>6, <1>7, <1>8 DEF IInv

(* RIGHT.                                                                   *)
LEMMA RightKeeps ==
  ASSUME IInv, NEW label \in Labels \union {NoLabel}, Right(label)
  PROVE  IInv'
<1>1. TypeOK /\ LiveInOrder /\ LiveHeads /\ NoCycle
  BY DEF IInv
<1>2. /\ StackDepth # 0 /\ BufferLength # 0
      /\ AddArc(S(0), B(0), label)
      /\ Push
      /\ UNCHANGED <<unshiftable, sentStarts, pc, doc, table>>
  BY <1>1, ValidFacts DEF Right
<1>3. S(0) \in Tokens /\ B(0) \in Tokens
  BY <1>1, <1>2, StackTop, BufferFront
<1>4. /\ leftArcs' \in ArcLists /\ rightArcs' \in ArcLists
      /\ heads' = [heads EXCEPT ![B(0)] = S(0)]
      /\ heads' \in [Tokens -> Tokens \union {NoHead}]
  BY <1>1, <1>2, <1>3, AddArcKeepsLists
<1>5. Positioned' /\ LiveInOrder'
  BY <1>1, <1>2, PushKeepsOrder
<1>6. TypeOK'
  BY <1>1, <1>2, <1>4, <1>5 DEF TypeOK, Positioned, ArcLists
<1>7. LiveHeads'
  <2>1. /\ \A t \in Tokens : t # B(0) => heads'[t] = heads[t]
        /\ heads'[B(0)] = S(0)
    BY <1>1, <1>3, <1>4 DEF TypeOK
  <2>2. QED
    BY <1>2, <1>4, <2>1, PushKeepsLiveHeads
<1>8. NoCycle'
  BY <1>2, <1>4, RightKeepsAcyclic
<1>9. QED
  BY <1>5, <1>6, <1>7, <1>8 DEF IInv

(* BREAK.                                                                   *)
LEMMA BreakKeeps ==
  ASSUME IInv, NEW label \in Labels \union {NoLabel}, Break(label)
  PROVE  IInv'
<1>1. TypeOK /\ LiveInOrder /\ LiveHeads /\ NoCycle
  BY DEF IInv
<1>2. /\ sentStarts' = sentStarts \union {B(1)}
      /\ B(1) \in Tokens
      /\ UNCHANGED <<stack, rebuffer, bI, heads, leftArcs, rightArcs, unshiftable, pc, doc, table>>
  BY <1>1, ValidFacts, BufferSecond DEF Break
<1>3. TypeOK'
  BY <1>1, <1>2 DEF TypeOK
<1>4. LiveInOrder' /\ LiveHeads' /\ NoCycle'
  BY <1>1, <1>2 DEF LiveInOrder, LiveHeads, NoCycle
<1>5. QED
  BY <1>3, <1>4 DEF IInv

(* The forced end of a parse that no transition can continue.                *)
LEMMA ForceFinalKeeps ==
  ASSUME IInv, ForceFinal
  PROVE  IInv'
<1>1. TypeOK /\ LiveInOrder /\ LiveHeads /\ NoCycle
  BY DEF IInv
<1>2. /\ stack' = <<>> /\ rebuffer' = <<>> /\ bI' = N
      /\ UNCHANGED <<heads, leftArcs, rightArcs, unshiftable, sentStarts, pc, doc, table>>
  BY DEF ForceFinal
<1>3. Len(stack') = 0 /\ Len(rebuffer') = 0
  BY <1>2, EmptySeq
<1>4. TypeOK'
  <2>1. <<>> \in Seq(Tokens) /\ N \in 0..N
    BY EmptySeq, NAssumption
  <2>2. QED
    BY <1>1, <1>2, <2>1 DEF TypeOK
<1>5. LiveInOrder' /\ LiveHeads' /\ NoCycle'
  BY <1>1, <1>2, <1>3, NAssumption DEF LiveInOrder, LiveHeads, NoCycle
<1>6. QED
  BY <1>4, <1>5 DEF IInv

(* The write-back.                                                          *)
LEMMA WriteBackKeeps ==
  ASSUME IInv, WriteBack
  PROVE  IInv'
<1>1. TypeOK /\ LiveInOrder /\ LiveHeads /\ NoCycle
  BY DEF IInv
<1>2. /\ pc' = "done" /\ DOMAIN doc' = Tokens
      /\ UNCHANGED <<stack, rebuffer, bI, heads, leftArcs, rightArcs, unshiftable, sentStarts, table>>
  BY DEF WriteBack
<1>3. TypeOK'
  BY <1>1, <1>2 DEF TypeOK
<1>4. LiveInOrder' /\ LiveHeads' /\ NoCycle'
  BY <1>1, <1>2 DEF LiveInOrder, LiveHeads, NoCycle
<1>5. QED
  BY <1>3, <1>4 DEF IInv

(* One step of the parser, or none.                                          *)
LEMMA NextIInv == IInv /\ [Next]_vars => IInv'
<1>1. SUFFICES ASSUME IInv, [Next]_vars PROVE IInv'
  OBVIOUS
<1>2. CASE Next
  <2>1. ASSUME NEW label \in Labels \union {NoLabel},
               Shift(label) \/ Reduce(label) \/ Left(label) \/ Right(label) \/ Break(label)
        PROVE  IInv'
    BY <1>1, <2>1, ShiftKeeps, ReduceKeeps, LeftKeeps, RightKeeps, BreakKeeps
  <2>2. CASE ForceFinal
    BY <1>1, <2>2, ForceFinalKeeps
  <2>3. CASE WriteBack
    BY <1>1, <2>3, WriteBackKeeps
  <2>4. QED
    BY <1>2, <2>1, <2>2, <2>3 DEF Next, Step
<1>3. CASE UNCHANGED vars
  BY <1>1, <1>3 DEF vars, IInv, TypeOK, LiveInOrder, LiveHeads, NoCycle
<1>4. QED
  BY <1>1, <1>2, <1>3

-----------------------------------------------------------------------------
(* The inductive invariant holds throughout every parse.                     *)
THEOREM Inductive == Spec => []IInv
<1>1. QED
  BY InitIInv, NextIInv, PTL DEF Spec

(* No transition reads or takes a token that is not there: the stack, the    *)
(* buffer and the arcs stay within the document, although State.Push reads   *)
(* the buffer without a bounds test.                                        *)
THEOREM TypeCorrect == Spec => []TypeOK
<1>1. IInv => TypeOK
  BY DEF IInv
<1>2. QED
  BY <1>1, Inductive, PTL

(* The live tokens stay one increasing run of the document.                  *)
THEOREM OrderKept == Spec => []LiveInOrder
<1>1. IInv => LiveInOrder
  BY DEF IInv
<1>2. QED
  BY <1>1, Inductive, PTL

(* A live token has no head, or the head just below it on the stack.         *)
THEOREM LiveHeadsCorrect == Spec => []LiveHeads
<1>1. IInv => LiveHeads
  BY DEF IInv
<1>2. QED
  BY <1>1, Inductive, PTL

(* The heads are a forest in every state, so the heads State.Heads and the   *)
(* write-back produce never make a caller that follows them loop.            *)
THEOREM ForestCorrect == Spec => []NoCycle
<1>1. IInv => NoCycle
  BY DEF IInv
<1>2. QED
  BY <1>1, Inductive, PTL

-----------------------------------------------------------------------------
(* The inductive invariant.                                                *)

OnStack == {stack[i] : i \in 1..Len(stack)}
Buffered == {rebuffer[j] : j \in 1..Len(rebuffer)} \union (bI..(N - 1))

(* A token that is no longer live has its head between the live tokens around *)
(* it.  One that lies below them all may have none.                          *)
Enclosed ==
  \A t \in Tokens \ Live : \A x \in Live :
    /\ t < x => heads[t] <= x
    /\ x < t => x <= heads[t]

(* A token that starts a sentence is in the buffer still, or no live token   *)
(* lies before it.                                                          *)
StartsOK == \A s \in sentStarts : s \in Buffered \/ \A x \in Live : s <= x

NInv == IInv /\ Enclosed /\ StartsOK /\ ArcsNested

-----------------------------------------------------------------------------
(* The live tokens as sets.                                                *)

(* Live tokens are tokens, those of the stack before those of the buffer.     *)
LEMMA LiveFacts ==
  ASSUME TypeOK, LiveInOrder
  PROVE  /\ Live = OnStack \union Buffered
         /\ OnStack \subseteq Tokens /\ Buffered \subseteq Tokens
         /\ \A x \in OnStack : \A y \in Buffered : x < y
<1>1. /\ N \in Nat \ {0} /\ bI \in 0..N
      /\ \A i \in 1..Len(stack) : stack[i] \in Tokens
      /\ \A i \in 1..Len(rebuffer) : rebuffer[i] \in Tokens
  BY PositionFacts
<1>2. Live = OnStack \union Buffered
  BY DEF Live, OnStack, Buffered
<1>3. OnStack \subseteq Tokens /\ Buffered \subseteq Tokens
  BY <1>1 DEF OnStack, Buffered, Tokens
<1>4. ASSUME NEW x \in OnStack, NEW y \in Buffered PROVE x < y
  <2>1. PICK i \in 1..Len(stack) : x = stack[i]
    BY DEF OnStack
  <2>2. CASE \E j \in 1..Len(rebuffer) : y = rebuffer[j]
    BY <2>1, <2>2 DEF LiveInOrder
  <2>3. CASE y \in bI..(N - 1)
    <3>1. x < bI /\ x \in Int /\ y \in Int /\ bI \in Int /\ bI <= y
      BY <1>1, <2>1, <2>3 DEF LiveInOrder, Tokens
    <3>2. QED
      BY <3>1
  <2>4. QED
    BY <2>2, <2>3 DEF Buffered
<1>5. QED
  BY <1>2, <1>3, <1>4

(* The top of the stack is the last token on it.                             *)
LEMMA TopIsLast ==
  ASSUME TypeOK, LiveInOrder, StackDepth # 0
  PROVE  S(0) \in OnStack /\ \A x \in OnStack : x <= S(0)
<1>1. /\ Len(stack) \in Nat \ {0} /\ S(0) = stack[Len(stack)] /\ S(0) \in Int
  BY StackTop, PositionFacts
<1>2. S(0) \in OnStack
  BY <1>1 DEF OnStack
<1>3. ASSUME NEW i \in 1..Len(stack) PROVE stack[i] <= S(0)
  <2>1. CASE i = Len(stack)
    BY <1>1, <2>1
  <2>2. CASE i # Len(stack)
    <3>1. stack[i] < stack[Len(stack)] /\ stack[i] \in Int
      BY <1>1, <2>2, PositionFacts DEF LiveInOrder
    <3>2. QED
      BY <1>1, <3>1
  <2>3. QED
    BY <2>1, <2>2
<1>4. QED
  BY <1>2, <1>3 DEF OnStack

(* The front of the buffer is the first token of it.                          *)
LEMMA FrontIsFirst ==
  ASSUME TypeOK, LiveInOrder, BufferLength # 0
  PROVE  B(0) \in Buffered /\ \A y \in Buffered : B(0) <= y
<1>1. /\ N \in Nat \ {0} /\ bI \in 0..N /\ Len(rebuffer) \in Nat
      /\ \A i \in 1..Len(rebuffer) : rebuffer[i] \in Int
      /\ B(0) \in Tokens /\ B(0) \in Int
      /\ rebuffer # <<>> => B(0) = rebuffer[Len(rebuffer)]
      /\ rebuffer = <<>> => B(0) = bI /\ bI < N
  BY PositionFacts, BufferFront
<1>2. CASE rebuffer = <<>>
  <2>1. Len(rebuffer) = 0
    BY <1>2, EmptySeq
  <2>2. QED
    BY <1>1, <1>2, <2>1 DEF Buffered
<1>3. CASE rebuffer # <<>>
  <2>1. Len(rebuffer) \in Nat \ {0} /\ B(0) = rebuffer[Len(rebuffer)]
    BY <1>1, <1>3, PositionFacts, ButLastFacts
  <2>2. B(0) \in Buffered /\ B(0) < bI
    BY <2>1 DEF Buffered, LiveInOrder
  <2>3. ASSUME NEW j \in 1..Len(rebuffer) PROVE B(0) <= rebuffer[j]
    <3>1. CASE j = Len(rebuffer)
      BY <1>1, <2>1, <3>1
    <3>2. CASE j # Len(rebuffer)
      <4>1. rebuffer[Len(rebuffer)] < rebuffer[j]
        BY <2>1, <3>2 DEF LiveInOrder
      <4>2. QED
        BY <1>1, <2>1, <4>1
    <3>3. QED
      BY <3>1, <3>2
  <2>4. ASSUME NEW y \in bI..(N - 1) PROVE B(0) <= y
    BY <1>1, <2>2
  <2>5. QED
    BY <2>2, <2>3, <2>4 DEF Buffered
<1>4. QED
  BY <1>2, <1>3

(* Push moves the front of the buffer to the stack.                          *)
LEMMA PushMoves ==
  ASSUME TypeOK, LiveInOrder, BufferLength # 0, Push
  PROVE  OnStack' = OnStack \union {B(0)} /\ Buffered' = Buffered \ {B(0)}
<1>1. /\ stack' = Append(stack, B(0)) /\ B(0) \in Tokens
      /\ stack \in Seq(Tokens) /\ rebuffer \in Seq(Tokens)
      /\ N \in Nat \ {0} /\ bI \in 0..N /\ Len(rebuffer) \in Nat
      /\ \A i \in 1..Len(rebuffer) : rebuffer[i] \in Int
  BY PushKeepsOrder, BufferFront, PositionFacts
<1>2. /\ Len(stack) \in Nat /\ Len(stack') = Len(stack) + 1
      /\ stack'[Len(stack) + 1] = B(0)
      /\ \A i \in 1..Len(stack) : stack'[i] = stack[i]
  BY <1>1, AppendFacts
<1>3. OnStack' = OnStack \union {B(0)}
  BY <1>2 DEF OnStack
<1>4. CASE rebuffer # <<>>
  <2>1. /\ B(0) = rebuffer[Len(rebuffer)] /\ Len(rebuffer) \in Nat \ {0}
        /\ rebuffer' = ButLast(rebuffer) /\ bI' = bI
        /\ Len(rebuffer') = Len(rebuffer) - 1
        /\ \A i \in 1..(Len(rebuffer) - 1) : rebuffer'[i] = rebuffer[i]
    BY <1>1, <1>4, BufferFront, ButLastFacts, EmptySeq DEF Push
  <2>2. B(0) < bI /\ B(0) \in Int
    BY <1>1, <2>1 DEF LiveInOrder
  <2>3. \A j \in 1..(Len(rebuffer) - 1) : rebuffer[j] # B(0)
    <3>1. \A j \in 1..(Len(rebuffer) - 1) : B(0) < rebuffer[j] /\ rebuffer[j] \in Int
      BY <1>1, <2>1 DEF LiveInOrder
    <3>2. QED
      BY <2>2, <3>1
  <2>4. \A t \in bI..(N - 1) : t # B(0)
    BY <1>1, <2>2
  <2>5. {rebuffer'[j] : j \in 1..Len(rebuffer')} = {rebuffer[j] : j \in 1..Len(rebuffer)} \ {B(0)}
    BY <2>1, <2>3
  <2>6. QED
    BY <1>3, <2>1, <2>4, <2>5 DEF Buffered
<1>5. CASE rebuffer = <<>>
  <2>1. B(0) = bI /\ rebuffer' = rebuffer /\ bI' = bI + 1 /\ Len(rebuffer) = 0
    BY <1>1, <1>5, BufferFront, EmptySeq DEF Push
  <2>2. Buffered = bI..(N - 1) /\ Buffered' = (bI + 1)..(N - 1)
    BY <2>1 DEF Buffered
  <2>3. QED
    BY <1>1, <1>3, <2>1, <2>2
<1>6. QED
  BY <1>4, <1>5

(* A stack without its top holds the other tokens.                           *)
LEMMA StackWithoutTop ==
  ASSUME TypeOK, LiveInOrder, StackDepth # 0, stack' = ButLast(stack)
  PROVE  OnStack' = OnStack \ {S(0)}
<1>1. /\ Len(stack) \in Nat \ {0} /\ Len(stack') = Len(stack) - 1
      /\ \A i \in 1..(Len(stack) - 1) : stack'[i] = stack[i]
      /\ S(0) = stack[Len(stack)]
  BY StackTop, PositionFacts, ButLastFacts
<1>2. \A i \in 1..(Len(stack) - 1) : stack[i] # S(0)
  BY OthersLive
<1>3. QED
  BY <1>1, <1>2 DEF OnStack

(* Pop drops the top of the stack.                                           *)
LEMMA PopMoves ==
  ASSUME TypeOK, LiveInOrder, StackDepth # 0, Pop
  PROVE  OnStack' = OnStack \ {S(0)} /\ Buffered' = Buffered
  BY StackWithoutTop DEF Pop, Buffered

(* Unshift moves it to the buffer.                                           *)
LEMMA UnshiftMoves ==
  ASSUME TypeOK, LiveInOrder, StackDepth # 0, Unshift
  PROVE  OnStack' = OnStack \ {S(0)} /\ Buffered' = Buffered \union {S(0)}
<1>1. rebuffer \in Seq(Tokens) /\ S(0) \in Tokens
  BY StackTop, PositionFacts
<1>2. /\ Len(rebuffer) \in Nat /\ Len(rebuffer') = Len(rebuffer) + 1
      /\ rebuffer'[Len(rebuffer) + 1] = S(0)
      /\ \A i \in 1..Len(rebuffer) : rebuffer'[i] = rebuffer[i]
      /\ bI' = bI
  BY <1>1, AppendFacts DEF Unshift
<1>3. Buffered' = Buffered \union {S(0)}
  BY <1>2 DEF Buffered
<1>4. QED
  BY <1>3, StackWithoutTop DEF Unshift

-----------------------------------------------------------------------------
(* Where live tokens cannot be.                                            *)

(* A live token has no head unless it is on the stack; then the head is the    *)
(* live token just before it.                                               *)
LEMMA HeadsOfLive ==
  ASSUME IInv, NEW t \in Live, heads[t] # NoHead
  PROVE  /\ t \in OnStack /\ heads[t] \in OnStack /\ heads[t] < t
         /\ \A x \in Live : ~(heads[t] < x /\ x < t)
<1>1. TypeOK /\ LiveInOrder /\ LiveHeads /\ Len(stack) \in Nat
  BY PositionFacts DEF IInv
<1>2. t \in OnStack
  BY <1>1 DEF Live, OnStack, LiveHeads
<1>3. PICK i \in 1..Len(stack) : t = stack[i]
  BY <1>2 DEF OnStack
<1>4. i > 1 /\ heads[t] = stack[i - 1] /\ i - 1 \in 1..Len(stack)
  BY <1>1, <1>3 DEF LiveHeads
<1>5. heads[t] \in OnStack /\ heads[t] < t
  BY <1>1, <1>3, <1>4 DEF OnStack, LiveInOrder
<1>6. ASSUME NEW x \in Live PROVE ~(heads[t] < x /\ x < t)
  <2>1. t \in Int /\ x \in Int /\ heads[t] \in Int
    BY <1>1, <1>2, <1>5, LiveFacts DEF Tokens
  <2>2. CASE x \in OnStack
    <3>1. PICK j \in 1..Len(stack) : x = stack[j]
      BY <2>2 DEF OnStack
    <3>2. CASE j < i - 1
      <4>1. stack[j] < stack[i - 1]
        BY <1>1, <1>4, <3>2 DEF LiveInOrder
      <4>2. QED
        BY <1>4, <2>1, <3>1, <4>1
    <3>3. CASE j = i - 1
      BY <1>4, <2>1, <3>1, <3>3
    <3>4. CASE j = i
      BY <1>3, <2>1, <3>1, <3>4
    <3>5. CASE j > i
      <4>1. stack[i] < stack[j]
        BY <1>1, <3>5 DEF LiveInOrder
      <4>2. QED
        BY <1>3, <2>1, <3>1, <4>1
    <3>6. QED
      BY <1>1, <3>2, <3>3, <3>4, <3>5
  <2>3. CASE x \in Buffered
    BY <1>1, <1>2, <2>1, <2>3, LiveFacts
  <2>4. QED
    BY <1>1, <2>2, <2>3, LiveFacts
<1>7. QED
  BY <1>2, <1>5, <1>6

(* No arc passes over a live token.                                          *)
LEMMA NoLiveUnder ==
  ASSUME IInv, Enclosed, NEW c \in Tokens, NEW t \in Live
  PROVE  t \notin Under(heads, c)
<1>1. /\ TypeOK /\ t \in Tokens /\ t \in Int /\ c \in Int /\ heads \in [Tokens -> Tokens \union {NoHead}]
      /\ heads[c] \in Int
  BY LiveFacts, AcyclicFacts DEF IInv, Tokens, NoHead
<1>2. SUFFICES ASSUME heads[c] # NoHead, Min2(c, heads[c]) < t, t < Max2(c, heads[c])
               PROVE  FALSE
  BY DEF Under
<1>3. (heads[c] < t /\ t < c) \/ (c < t /\ t < heads[c])
  BY <1>1, <1>2 DEF Min2, Max2
<1>4. CASE c \in Live
  BY <1>1, <1>2, <1>3, <1>4, HeadsOfLive
<1>5. CASE c \notin Live
  BY <1>1, <1>3, <1>5 DEF Enclosed
<1>6. QED
  BY <1>4, <1>5

(* Nothing live lies between the top of the stack and the front of the        *)
(* buffer.                                                                  *)
LEMMA TopAndFront ==
  ASSUME TypeOK, LiveInOrder, StackDepth # 0, BufferLength # 0
  PROVE  /\ S(0) \in Live /\ B(0) \in Live /\ S(0) \in Tokens /\ B(0) \in Tokens
         /\ S(0) < B(0)
         /\ \A x \in Live : x <= S(0) \/ B(0) <= x
  BY LiveFacts, TopIsLast, FrontIsFirst

-----------------------------------------------------------------------------
(* Arcs nest. *)

(* A new arc between the top of the stack and the front of the buffer, in      *)
(* either direction, encloses only tokens with heads inside it, and starts no *)
(* crossing: both ends are live.                                             *)
LEMMA ArcKeepsProjective ==
  ASSUME NInv, StackDepth # 0, BufferLength # 0, NEW c, NEW h,
         \/ c = S(0) /\ h = B(0)
         \/ c = B(0) /\ h = S(0),
         heads' = [heads EXCEPT ![c] = h]
  PROVE  Projective(heads)'
<1>1. /\ IInv /\ TypeOK /\ LiveInOrder /\ Enclosed /\ Projective(heads)
      /\ heads \in [Tokens -> Tokens \union {NoHead}] /\ DOMAIN heads = Tokens
  BY AcyclicFacts DEF NInv, IInv, ArcsNested
<1>2. /\ S(0) \in Live /\ B(0) \in Live /\ S(0) \in Tokens /\ B(0) \in Tokens
      /\ S(0) < B(0) /\ S(0) \in Int /\ B(0) \in Int
      /\ \A x \in Live : x <= S(0) \/ B(0) <= x
  BY <1>1, TopAndFront DEF Tokens
<1>3. /\ c \in Live /\ c \in Tokens /\ heads' \in [Tokens -> Tokens \union {NoHead}]
      /\ h \in Tokens /\ heads'[c] = h /\ \A t \in Tokens : t # c => heads'[t] = heads[t]
      /\ Min2(c, h) = S(0) /\ Max2(c, h) = B(0) /\ DOMAIN heads' = Tokens
  BY <1>1, <1>2 DEF Min2, Max2
<1>4. ASSUME NEW d \in Tokens, NEW t \in Tokens, t \in Under(heads', d)
      PROVE  /\ heads'[t] # NoHead
             /\ Min2(d, heads'[d]) <= heads'[t]
             /\ heads'[t] <= Max2(d, heads'[d])
  <2>1. CASE d = c
    <3>1. S(0) < t /\ t < B(0)
      BY <1>3, <1>4, <2>1 DEF Under
    <3>2. t \notin Live /\ t # c /\ t \in Int
      BY <1>2, <1>3, <3>1 DEF Tokens
    <3>3. S(0) <= heads[t] /\ heads[t] <= B(0)
      BY <1>1, <1>2, <3>1, <3>2 DEF Enclosed
    <3>4. heads'[t] = heads[t] /\ heads[t] # NoHead
      BY <1>2, <1>3, <3>2, <3>3 DEF NoHead, Tokens
    <3>5. QED
      BY <1>3, <2>1, <3>3, <3>4
  <2>2. CASE d # c
    <3>1. heads'[d] = heads[d] /\ t \in Under(heads, d)
      BY <1>1, <1>3, <1>4, <2>2 DEF Under
    <3>2. t # c
      BY <1>1, <1>3, <3>1, NoLiveUnder
    <3>3. heads'[t] = heads[t]
      BY <1>3, <3>2
    <3>4. QED
      BY <1>1, <3>1, <3>3 DEF Projective
  <2>3. QED
    BY <2>1, <2>2
<1>5. Projective(heads')
  BY <1>3, <1>4 DEF Projective, Under
<1>6. QED
  BY <1>5 DEF Projective, Under, Min2, Max2

(* Such an arc stays within a sentence when the front of the buffer starts     *)
(* none: a sentence start on the stack or behind has nothing live before it.  *)
LEMMA ArcKeepsSentences ==
  ASSUME NInv, StackDepth # 0, BufferLength # 0, ~IsSentStart(B(0)), NEW c, NEW h,
         \/ c = S(0) /\ h = B(0)
         \/ c = B(0) /\ h = S(0),
         heads' = [heads EXCEPT ![c] = h], sentStarts' = sentStarts
  PROVE  WithinSentences(heads, sentStarts)'
<1>1. /\ IInv /\ TypeOK /\ LiveInOrder /\ StartsOK /\ WithinSentences(heads, sentStarts)
      /\ heads \in [Tokens -> Tokens \union {NoHead}] /\ DOMAIN heads = Tokens
      /\ sentStarts \subseteq Tokens
  BY AcyclicFacts DEF NInv, IInv, ArcsNested, TypeOK
<1>2. /\ S(0) \in Live /\ S(0) \in Tokens /\ B(0) \in Tokens
      /\ S(0) < B(0) /\ S(0) \in Int /\ B(0) \in Int
      /\ \A y \in Buffered : B(0) <= y
  BY <1>1, TopAndFront, FrontIsFirst DEF Tokens
<1>3. /\ c \in Tokens /\ heads'[c] = h /\ \A t \in Tokens : t # c => heads'[t] = heads[t]
      /\ Min2(c, h) = S(0) /\ Max2(c, h) = B(0) /\ DOMAIN heads' = Tokens
  BY <1>1, <1>2 DEF Min2, Max2
<1>4. ASSUME NEW s \in sentStarts PROVE ~(S(0) < s /\ s <= B(0))
  <2>1. s # B(0) /\ s \in Int
    BY <1>1, <1>2 DEF IsSentStart, Tokens
  <2>2. s \in Buffered \/ s <= S(0)
    BY <1>1, <1>2 DEF StartsOK
  <2>3. QED
    BY <1>2, <2>1, <2>2
<1>5. ASSUME NEW d \in Tokens, heads'[d] # NoHead, NEW s \in sentStarts
      PROVE  ~(Min2(d, heads'[d]) < s /\ s <= Max2(d, heads'[d]))
  <2>1. CASE d = c
    BY <1>3, <1>4, <2>1
  <2>2. CASE d # c
    BY <1>1, <1>3, <1>5, <2>2 DEF WithinSentences
  <2>3. QED
    BY <2>1, <2>2
<1>6. WithinSentences(heads', sentStarts')
  BY <1>3, <1>5 DEF WithinSentences
<1>7. QED
  BY <1>6 DEF WithinSentences, Min2, Max2

(* A sentence may start at a token of the buffer that comes right after       *)
(* another: no arc passes over it, and none ends in it from before.         *)
LEMMA BreakKeepsSentences ==
  ASSUME NInv, NEW s \in Buffered, NEW b \in Buffered, s = b + 1,
         heads' = heads, sentStarts' = sentStarts \union {s}
  PROVE  WithinSentences(heads, sentStarts)'
<1>1. /\ IInv /\ TypeOK /\ LiveInOrder /\ Enclosed /\ WithinSentences(heads, sentStarts)
      /\ heads \in [Tokens -> Tokens \union {NoHead}] /\ DOMAIN heads = Tokens
  BY AcyclicFacts DEF NInv, IInv, ArcsNested
<1>2. /\ s \in Live /\ b \in Live /\ s \in Int /\ b \in Int
      /\ s \notin OnStack
  BY <1>1, LiveFacts DEF Tokens
<1>3. ASSUME NEW c \in Tokens, heads[c] # NoHead
      PROVE  ~(Min2(c, heads[c]) < s /\ s <= Max2(c, heads[c]))
  <2>1. heads[c] \in Tokens /\ heads[c] \in Int /\ c \in Int
    BY <1>1, <1>3 DEF Tokens
  <2>2. ~(Min2(c, heads[c]) < s /\ s < Max2(c, heads[c]))
    BY <1>1, <1>2, <1>3, NoLiveUnder, LiveFacts DEF Under
  <2>3. c # s
    BY <1>1, <1>2, <1>3, HeadsOfLive
  <2>4. ~(heads[c] = s /\ c < s)
    <3>1. CASE c \in Live
      BY <1>1, <1>2, <1>3, <3>1, HeadsOfLive
    <3>2. CASE c \notin Live
      <4>1. ~(c < b /\ heads[c] = s)
        BY <1>1, <1>2, <2>1, <3>2 DEF Enclosed
      <4>2. c # b
        BY <1>2, <3>2
      <4>3. QED
        BY <1>2, <2>1, <4>1, <4>2
    <3>3. QED
      BY <3>1, <3>2
  <2>5. QED
    BY <1>2, <2>1, <2>2, <2>3, <2>4 DEF Min2, Max2
<1>4. WithinSentences(heads', sentStarts')
  BY <1>1, <1>3 DEF WithinSentences
<1>5. QED
  BY <1>4 DEF WithinSentences, Min2, Max2

-----------------------------------------------------------------------------
(* Every transition keeps the invariant. *)

(* While the same tokens are live, the others stay enclosed.                  *)
LEMMA SameLive ==
  ASSUME NInv, Live' = Live, \A t \in Tokens \ Live : heads'[t] = heads[t]
  PROVE  Enclosed'
  BY DEF NInv, Enclosed

(* A token that leaves the stack for good is enclosed: its head is below it    *)
(* on the stack, or the front of the buffer, or there is none and no stack   *)
(* either.                                                                  *)
LEMMA PopEncloses ==
  ASSUME NInv, StackDepth # 0, Pop, sentStarts' = sentStarts,
         \A t \in Tokens : t # S(0) => heads'[t] = heads[t],
         \/ BufferLength # 0 /\ heads'[S(0)] = B(0)
         \/ heads'[S(0)] = heads[S(0)] /\ (heads[S(0)] # NoHead \/ StackDepth = 1)
  PROVE  Enclosed' /\ StartsOK'
<1>1. /\ IInv /\ TypeOK /\ LiveInOrder /\ Enclosed /\ StartsOK /\ sentStarts \subseteq Tokens
      /\ heads \in [Tokens -> Tokens \union {NoHead}]
  BY AcyclicFacts DEF NInv, IInv, TypeOK
<1>2. OnStack' = OnStack \ {S(0)} /\ Buffered' = Buffered
  BY <1>1, PopMoves
<1>3. /\ Live = OnStack \union Buffered /\ OnStack \subseteq Tokens /\ Buffered \subseteq Tokens
      /\ S(0) \in OnStack /\ S(0) \in Int /\ \A x \in OnStack : x <= S(0)
      /\ \A x \in OnStack : \A y \in Buffered : x < y
  BY <1>1, LiveFacts, TopIsLast DEF Tokens
<1>4. Live' = Live \ {S(0)}
  <2>1. Live' = OnStack' \union Buffered'
    BY DEF Live, OnStack, Buffered
  <2>2. S(0) \notin Buffered
    BY <1>3
  <2>3. QED
    BY <1>2, <1>3, <2>1, <2>2
<1>5. ASSUME NEW x \in Live, x # S(0)
      PROVE  /\ S(0) < x => heads'[S(0)] <= x
             /\ x < S(0) => x <= heads'[S(0)]
  <2>1. x \in Int /\ x \in Tokens
    <3>1. x \in Tokens
      BY <1>3
    <3>2. Tokens \subseteq Int
      BY <1>1, PositionFacts
    <3>3. QED
      BY <3>1, <3>2
  <2>2. CASE BufferLength # 0 /\ heads'[S(0)] = B(0)
    BY <1>1, <1>3, <2>1, <2>2, TopAndFront DEF Tokens
  <2>3. CASE heads'[S(0)] = heads[S(0)] /\ heads[S(0)] # NoHead
    <3>1. /\ heads[S(0)] \in OnStack /\ heads[S(0)] < S(0)
          /\ ~(heads[S(0)] < x /\ x < S(0))
      BY <1>1, <1>3, <2>3, HeadsOfLive
    <3>2. heads[S(0)] \in Int
      <4>1. heads[S(0)] \in Tokens
        BY <1>3, <3>1
      <4>2. Tokens \subseteq Int
        BY <1>1, PositionFacts
      <4>3. QED
        BY <4>1, <4>2
    <3>3. QED
      BY <1>3, <2>1, <2>3, <3>1, <3>2
  <2>4. CASE heads'[S(0)] = heads[S(0)] /\ heads[S(0)] = NoHead /\ StackDepth = 1
    <3>1. OnStack = {S(0)}
      BY <1>1, <2>4, StackTop DEF OnStack, StackDepth
    <3>2. S(0) < x
      BY <1>3, <1>5, <3>1
    <3>3. QED
      BY <1>3, <2>1, <2>4, <3>2 DEF NoHead, Tokens
  <2>5. QED
    BY <2>2, <2>3, <2>4
<1>6. ASSUME NEW t \in Tokens, t \notin Live, NEW x \in Live
      PROVE  /\ t < x => heads'[t] <= x
             /\ x < t => x <= heads'[t]
  <2>1. t # S(0)
    BY <1>3, <1>6
  <2>2. heads'[t] = heads[t]
    BY <2>1
  <2>3. QED
    BY <1>1, <1>6, <2>2 DEF Enclosed
<1>7. Enclosed'
  BY <1>4, <1>5, <1>6 DEF Enclosed
<1>8. StartsOK'
  BY <1>1, <1>2, <1>4 DEF StartsOK
<1>9. QED
  BY <1>7, <1>8

LEMMA InitNInv == Init => NInv
<1>1. SUFFICES ASSUME Init PROVE NInv
  OBVIOUS
<1>2. IInv
  BY <1>1, InitIInv
<1>3. Buffered = Tokens /\ Live = Tokens
  <2>1. Len(stack) = 0 /\ Len(rebuffer) = 0 /\ bI = 0
    BY <1>1 DEF Init
  <2>2. QED
    BY <2>1 DEF Buffered, Live, Tokens
<1>4. Enclosed
  BY <1>3 DEF Enclosed
<1>5. StartsOK
  BY <1>1, <1>3, NAssumption DEF Init, StartsOK, Tokens
<1>6. ArcsNested
  <2>1. heads = [t \in Tokens |-> NoHead]
    BY <1>1 DEF Init
  <2>2. Projective(heads)
    BY <2>1 DEF Projective, Under
  <2>3. WithinSentences(heads, sentStarts)
    BY <2>1 DEF WithinSentences
  <2>4. QED
    BY <2>2, <2>3 DEF ArcsNested
<1>7. QED
  BY <1>2, <1>4, <1>5, <1>6 DEF NInv

(* SHIFT: only a token that starts no sentence is put on other tokens.        *)
LEMMA ShiftNests ==
  ASSUME NInv, NEW label \in Labels \union {NoLabel}, Shift(label)
  PROVE  NInv'
<1>1. IInv /\ TypeOK /\ LiveInOrder /\ StartsOK /\ ArcsNested /\ sentStarts \subseteq Tokens
  BY DEF NInv, IInv, TypeOK
<1>2. IInv'
  BY <1>1, ShiftKeeps
<1>3. /\ BufferLength # 0 /\ Push
      /\ UNCHANGED <<heads, sentStarts>>
  BY <1>1, ValidFacts DEF Shift
<1>4. /\ OnStack' = OnStack \union {B(0)} /\ Buffered' = Buffered \ {B(0)}
      /\ B(0) \in Buffered /\ \A y \in Buffered : B(0) <= y
      /\ Live = OnStack \union Buffered
  BY <1>1, <1>3, PushMoves, FrontIsFirst, LiveFacts
<1>5. Live' = Live
  <2>1. Live' = OnStack' \union Buffered'
    BY DEF Live, OnStack, Buffered
  <2>2. QED
    BY <1>4, <2>1
<1>6. StackDepth = 0 \/ ~IsSentStart(B(0))
  <2>1. ShiftValid
    BY Zenon DEF Shift, Takes, IsValid
  <2>2. QED
    BY <2>1 DEF ShiftValid
<1>7. ASSUME NEW s \in sentStarts, s \notin Buffered' PROVE \A x \in Live : s <= x
  <2>1. CASE s = B(0)
    <3>1. Len(stack) = 0
      BY <1>6, <1>7, <2>1 DEF IsSentStart, StackDepth
    <3>2. OnStack = {}
      BY <3>1 DEF OnStack
    <3>3. QED
      BY <1>4, <2>1, <3>2
  <2>2. CASE s # B(0)
    BY <1>1, <1>4, <1>7, <2>2 DEF StartsOK
  <2>3. QED
    BY <2>1, <2>2
<1>8. StartsOK'
  BY <1>3, <1>5, <1>7 DEF StartsOK
<1>9. Enclosed'
  BY <1>3, <1>5, SameLive
<1>10. ArcsNested'
  BY <1>1, <1>3 DEF ArcsNested
<1>11. QED
  BY <1>2, <1>8, <1>9, <1>10 DEF NInv

(* REDUCE, with its pop and its unshift.                                     *)
LEMMA ReduceNests ==
  ASSUME NInv, NEW label \in Labels \union {NoLabel}, Reduce(label)
  PROVE  NInv'
<1>1. IInv /\ TypeOK /\ LiveInOrder /\ StartsOK /\ ArcsNested
  BY DEF NInv, IInv
<1>2. /\ IInv' /\ StackDepth # 0
      /\ UNCHANGED <<heads, sentStarts>>
  BY <1>1, ReduceKeeps, ValidFacts DEF Reduce
<1>3. ArcsNested'
  BY <1>1, <1>2 DEF ArcsNested
<1>4. CASE (HasHead(S(0)) \/ StackDepth = 1) /\ Pop
  <2>1. heads[S(0)] # NoHead \/ StackDepth = 1
    BY <1>4 DEF HasHead, NoHead
  <2>2. Enclosed' /\ StartsOK'
    BY <1>2, <1>4, <2>1, PopEncloses
  <2>3. QED
    BY <1>2, <1>3, <2>2 DEF NInv
<1>5. CASE Unshift
  <2>1. /\ OnStack' = OnStack \ {S(0)} /\ Buffered' = Buffered \union {S(0)}
        /\ S(0) \in OnStack /\ Live = OnStack \union Buffered
    BY <1>1, <1>2, <1>5, UnshiftMoves, TopIsLast, LiveFacts
  <2>2. Live' = Live
    <3>1. Live' = OnStack' \union Buffered'
      BY DEF Live, OnStack, Buffered
    <3>2. QED
      BY <2>1, <3>1
  <2>3. Enclosed'
    BY <1>2, <2>2, SameLive
  <2>4. StartsOK'
    BY <1>1, <1>2, <2>1, <2>2 DEF StartsOK
  <2>5. QED
    BY <1>2, <1>3, <2>3, <2>4 DEF NInv
<1>6. QED
  BY <1>4, <1>5 DEF Reduce

(* LEFT.                                                                    *)
LEMMA LeftNests ==
  ASSUME NInv, NEW label \in Labels \union {NoLabel}, Left(label)
  PROVE  /\ NInv'
         /\ S(0) \in Tokens /\ B(0) \in Tokens /\ heads' = [heads EXCEPT ![S(0)] = B(0)]
<1>1. IInv /\ TypeOK
  BY DEF NInv, IInv
<1>2. /\ IInv' /\ StackDepth # 0 /\ BufferLength # 0 /\ Pop /\ sentStarts' = sentStarts
      /\ S(0) \in Tokens /\ B(0) \in Tokens
      /\ heads \in [Tokens -> Tokens \union {NoHead}]
      /\ heads' = [heads EXCEPT ![S(0)] = B(0)]
  BY <1>1, LeftKeeps, ValidFacts, StackTop, BufferFront, AcyclicFacts DEF Left, AddArc
<1>3. ~IsSentStart(B(0))
  <2>1. ArcValid(label)
    BY Zenon DEF Left, Takes, IsValid
  <2>2. QED
    BY <2>1 DEF ArcValid
<1>4. Projective(heads)' /\ WithinSentences(heads, sentStarts)'
  BY <1>2, <1>3, ArcKeepsProjective, ArcKeepsSentences
<1>5. heads'[S(0)] = B(0) /\ \A t \in Tokens : t # S(0) => heads'[t] = heads[t]
  BY <1>2
<1>6. Enclosed' /\ StartsOK'
  BY <1>2, <1>5, PopEncloses
<1>7. QED
  BY <1>2, <1>4, <1>6 DEF NInv, ArcsNested

(* RIGHT.                                                                   *)
LEMMA RightNests ==
  ASSUME NInv, NEW label \in Labels \union {NoLabel}, Right(label)
  PROVE  /\ NInv'
         /\ S(0) \in Tokens /\ B(0) \in Tokens /\ heads' = [heads EXCEPT ![B(0)] = S(0)]
<1>1. IInv /\ TypeOK /\ LiveInOrder /\ StartsOK /\ sentStarts \subseteq Tokens
  BY DEF NInv, IInv, TypeOK
<1>2. /\ IInv' /\ StackDepth # 0 /\ BufferLength # 0 /\ Push /\ sentStarts' = sentStarts
      /\ S(0) \in Tokens /\ B(0) \in Tokens
      /\ heads \in [Tokens -> Tokens \union {NoHead}]
      /\ heads' = [heads EXCEPT ![B(0)] = S(0)]
  BY <1>1, RightKeeps, ValidFacts, StackTop, BufferFront, AcyclicFacts DEF Right, AddArc
<1>3. ~IsSentStart(B(0))
  <2>1. ArcValid(label)
    BY Zenon DEF Right, Takes, IsValid
  <2>2. QED
    BY <2>1 DEF ArcValid
<1>4. Projective(heads)' /\ WithinSentences(heads, sentStarts)'
  BY <1>2, <1>3, ArcKeepsProjective, ArcKeepsSentences
<1>5. /\ OnStack' = OnStack \union {B(0)} /\ Buffered' = Buffered \ {B(0)}
      /\ B(0) \in Buffered /\ Live = OnStack \union Buffered
  BY <1>1, <1>2, PushMoves, FrontIsFirst, LiveFacts
<1>6. Live' = Live
  <2>1. Live' = OnStack' \union Buffered'
    BY DEF Live, OnStack, Buffered
  <2>2. QED
    BY <1>5, <2>1
<1>7. \A t \in Tokens \ Live : heads'[t] = heads[t]
  BY <1>2, <1>5
<1>8. Enclosed'
  BY <1>6, <1>7, SameLive
<1>9. StartsOK'
  BY <1>1, <1>2, <1>3, <1>5, <1>6 DEF StartsOK, IsSentStart
<1>10. QED
  BY <1>2, <1>4, <1>8, <1>9 DEF NInv, ArcsNested

(* BREAK.                                                                   *)
LEMMA BreakNests ==
  ASSUME NInv, NEW label \in Labels \union {NoLabel}, Break(label)
  PROVE  NInv' /\ B(1) \in Tokens /\ B(1) \notin sentStarts
<1>1. IInv /\ TypeOK /\ LiveInOrder /\ StartsOK /\ ArcsNested
  BY DEF NInv, IInv
<1>2. /\ IInv' /\ BufferLength >= 2 /\ B(1) \in Tokens
      /\ sentStarts' = sentStarts \union {B(1)}
      /\ UNCHANGED <<stack, rebuffer, bI, heads>>
  BY <1>1, BreakKeeps, ValidFacts, BufferSecond DEF Break
<1>3. B(1) = B(0) + 1 /\ B(1) \notin sentStarts
  <2>1. BreakValid
    BY Zenon DEF Break, Takes, IsValid
  <2>2. QED
    BY <2>1 DEF BreakValid, IsSentStart
<1>4. B(0) \in Buffered
  <2>1. BufferLength # 0
    BY <1>2
  <2>2. QED
    BY <1>1, <2>1, FrontIsFirst
<1>5. B(1) \in Buffered
  <2>1. /\ N \in Nat \ {0} /\ bI \in 0..N /\ Len(rebuffer) \in Nat
    BY <1>1, PositionFacts
  <2>2. CASE Len(rebuffer) <= 1
    BY <1>2, <2>1, <2>2 DEF B, BufferLength, Buffered
  <2>3. CASE Len(rebuffer) > 1
    <3>1. B(1) = rebuffer[Len(rebuffer) - 1] /\ Len(rebuffer) - 1 \in 1..Len(rebuffer)
      BY <2>1, <2>3 DEF B
    <3>2. QED
      BY <3>1 DEF Buffered
  <2>4. QED
    BY <2>1, <2>2, <2>3
<1>6. WithinSentences(heads, sentStarts)'
  BY <1>2, <1>3, <1>4, <1>5, BreakKeepsSentences
<1>7. Buffered' = Buffered /\ Live' = Live
  BY <1>2 DEF Buffered, Live
<1>8. Enclosed' /\ StartsOK'
  BY <1>1, <1>2, <1>5, <1>7, SameLive DEF StartsOK
<1>9. Projective(heads)'
  BY <1>1, <1>2 DEF ArcsNested
<1>10. QED
  BY <1>2, <1>3, <1>6, <1>8, <1>9 DEF NInv, ArcsNested

(* The forced end leaves no token live.                                      *)
LEMMA ForceFinalNests ==
  ASSUME NInv, ForceFinal
  PROVE  NInv'
<1>1. IInv' /\ ArcsNested'
  BY ForceFinalKeeps DEF NInv, ForceFinal, ArcsNested
<1>2. stack' = <<>> /\ rebuffer' = <<>> /\ bI' = N
  BY DEF ForceFinal
<1>3. Live' = {}
  BY <1>2, NAssumption DEF Live
<1>4. Enclosed' /\ StartsOK'
  BY <1>3 DEF Enclosed, StartsOK
<1>5. QED
  BY <1>1, <1>4 DEF NInv

(* The write-back and stuttering steps change nothing the invariant reads.    *)
LEMMA RestNests ==
  ASSUME NInv, IInv', UNCHANGED <<stack, rebuffer, bI, heads, sentStarts>>
  PROVE  NInv'
<1>1. Buffered' = Buffered /\ Live' = Live
  BY DEF Buffered, Live
<1>2. Enclosed' /\ StartsOK' /\ ArcsNested'
  BY <1>1 DEF NInv, Enclosed, StartsOK, ArcsNested
<1>3. QED
  BY <1>2 DEF NInv

LEMMA NextNInv == NInv /\ [Next]_vars => NInv'
<1>1. SUFFICES ASSUME NInv, [Next]_vars PROVE NInv'
  OBVIOUS
<1>2. IInv'
  BY <1>1, NextIInv DEF NInv
<1>3. ASSUME NEW label \in Labels \union {NoLabel},
             Shift(label) \/ Reduce(label) \/ Left(label) \/ Right(label) \/ Break(label)
      PROVE  NInv'
  BY <1>1, <1>3, ShiftNests, ReduceNests, LeftNests, RightNests, BreakNests
<1>4. CASE ForceFinal
  BY <1>1, <1>4, ForceFinalNests
<1>5. CASE WriteBack
  BY <1>1, <1>2, <1>5, RestNests DEF WriteBack
<1>6. CASE UNCHANGED vars
  BY <1>1, <1>2, <1>6, RestNests DEF vars
<1>7. QED
  BY <1>1, <1>3, <1>4, <1>5, <1>6 DEF Next, Step

-----------------------------------------------------------------------------
(* The invariant holds throughout every parse.                               *)
THEOREM Nesting == Spec => []NInv
<1>1. QED
  BY InitNInv, NextNInv, PTL DEF Spec

(* Arcs never cross, never pass over a root and never connect two sentences,   *)
(* whatever the table and however often tokens are unshifted.               *)
THEOREM Nested == Spec => []ArcsNested
<1>1. NInv => ArcsNested
  BY DEF NInv
<1>2. QED
  BY <1>1, Nesting, PTL

-----------------------------------------------------------------------------
(* What the abstract specification calls a good forest.                      *)
LEMMA GoodForest ==
  ASSUME NEW head, NEW starts, Acyclic(head), Projective(head), WithinSentences(head, starts)
  PROVE  Forest!Good(head, starts)
<1>1. Forest!Acyclic(head)
  BY DEF Acyclic, Forest!Acyclic
<1>2. Forest!Projective(head)
  BY DEF Projective, Under, Min2, Max2, NoHead,
         Forest!Projective, Forest!Under, Forest!Min2, Forest!Max2, Forest!NoHead
<1>3. Forest!WithinSentences(head, starts)
  BY DEF WithinSentences, Min2, Max2, NoHead,
         Forest!WithinSentences, Forest!Min2, Forest!Max2, Forest!NoHead
<1>4. QED
  BY <1>1, <1>2, <1>3 DEF Forest!Good

(* The decode loop implements DependencyForest: LEFT and RIGHT attach one      *)
(* token, BREAK splits one sentence, the write-back settles, and the other   *)
(* transitions leave the forest as it is.                                   *)
THEOREM Implements == Spec => ImplementsForest
<1>1. Init => Forest!Init
  BY DEF Init, Forest!Init, Forest!NoHead, Forest!Tokens, NoHead, Tokens
<1>2. NInv /\ NInv' /\ [Next]_vars => [Forest!Next]_(Forest!vars)
  <2>1. SUFFICES ASSUME NInv, NInv', [Next]_vars
                 PROVE  Forest!Next \/ UNCHANGED Forest!vars
    OBVIOUS
  <2>2. Acyclic(heads') /\ Projective(heads') /\ WithinSentences(heads', sentStarts')
    BY <2>1 DEF NInv, IInv, NoCycle, ArcsNested, Acyclic, Projective, WithinSentences, Under, Min2, Max2
  <2>3. Forest!Good(heads', sentStarts')
    BY <2>2, GoodForest
  <2>4. Forest!Tokens = Tokens
    BY DEF Forest!Tokens, Tokens
  <2>5. ASSUME NEW label \in Labels \union {NoLabel}, Left(label) PROVE Forest!Next
    <3>1. /\ S(0) \in Tokens /\ B(0) \in Tokens
          /\ heads' = [heads EXCEPT ![S(0)] = B(0)]
          /\ pc = "decode" /\ pc' = pc /\ sentStarts' = sentStarts
      BY <2>1, <2>5, LeftNests DEF Left, Takes
    <3>2. Forest!Attach(S(0), B(0))
      BY <2>3, <3>1 DEF Forest!Attach
    <3>3. QED
      BY <2>4, <3>1, <3>2 DEF Forest!Next
  <2>6. ASSUME NEW label \in Labels \union {NoLabel}, Right(label) PROVE Forest!Next
    <3>1. /\ S(0) \in Tokens /\ B(0) \in Tokens
          /\ heads' = [heads EXCEPT ![B(0)] = S(0)]
          /\ pc = "decode" /\ pc' = pc /\ sentStarts' = sentStarts
      BY <2>1, <2>6, RightNests DEF Right, Takes
    <3>2. Forest!Attach(B(0), S(0))
      BY <2>3, <3>1 DEF Forest!Attach
    <3>3. QED
      BY <2>4, <3>1, <3>2 DEF Forest!Next
  <2>7. ASSUME NEW label \in Labels \union {NoLabel}, Break(label) PROVE Forest!Next
    <3>1. /\ B(1) \in Tokens /\ B(1) \notin sentStarts
          /\ sentStarts' = sentStarts \union {B(1)}
          /\ pc = "decode" /\ pc' = pc /\ heads' = heads
      BY <2>1, <2>7, BreakNests DEF Break, Takes
    <3>2. Forest!Split(B(1))
      BY <2>3, <3>1 DEF Forest!Split
    <3>3. QED
      BY <2>4, <3>1, <3>2 DEF Forest!Next
  <2>8. CASE WriteBack
    BY <2>8 DEF WriteBack, Forest!Next, Forest!Settle
  <2>9. ASSUME UNCHANGED <<heads, sentStarts, pc>> PROVE UNCHANGED Forest!vars
    BY <2>9 DEF Forest!vars
  <2>10. ASSUME NEW label \in Labels \union {NoLabel}, Shift(label) \/ Reduce(label)
         PROVE  UNCHANGED <<heads, sentStarts, pc>>
    BY <2>10 DEF Shift, Reduce
  <2>11. ForceFinal => UNCHANGED <<heads, sentStarts, pc>>
    BY DEF ForceFinal
  <2>12. UNCHANGED vars => UNCHANGED <<heads, sentStarts, pc>>
    BY DEF vars
  <2>13. QED
    BY <2>1, <2>5, <2>6, <2>7, <2>8, <2>9, <2>10, <2>11, <2>12 DEF Next, Step
<1>3. QED
  BY <1>1, <1>2, Nesting, PTL DEF Spec, ImplementsForest, Forest!Spec
-----------------------------------------------------------------------------
(* The inductive invariant.                                                *)

Lefts(h) == {c \in Tokens : heads[c] = h /\ c < h}
Rights(h) == {c \in Tokens : heads[c] = h /\ c > h}

(* A list that holds one arc from h to each of the children and nothing else. *)
Holds(list, h, children) ==
  /\ list \in Seq(Arc)
  /\ \A i \in 1..Len(list) : list[i].head = h /\ list[i].child \in children
  /\ \A c \in children : \E i \in 1..Len(list) : list[i].child = c
  /\ \A i, j \in 1..Len(list) : i # j => list[i].child # list[j].child

LeftsOK(h) ==
  /\ Holds(leftArcs[h], h, Lefts(h))
  /\ \A i, j \in 1..Len(leftArcs[h]) : i < j => leftArcs[h][j].child < leftArcs[h][i].child
RightsOK(h) ==
  /\ Holds(rightArcs[h], h, Rights(h))
  /\ \A i, j \in 1..Len(rightArcs[h]) : i < j => rightArcs[h][i].child < rightArcs[h][j].child

AInv ==
  /\ NInv
  /\ \A h \in Tokens : LeftsOK(h) /\ RightsOK(h)
  /\ WriteBackIsParse

-----------------------------------------------------------------------------
(* Lists of arcs. *)

(* One more arc, to a new child.                                             *)
LEMMA AppendHolds ==
  ASSUME NEW list, NEW h, NEW children, Holds(list, h, children),
         NEW arc \in Arc, arc.head = h, arc.child \notin children
  PROVE  Holds(Append(list, arc), h, children \union {arc.child})
<1> DEFINE new == Append(list, arc)
<1>1. list \in Seq(Arc)
  BY DEF Holds
<1>2. /\ new \in Seq(Arc) /\ Len(list) \in Nat /\ Len(new) = Len(list) + 1
      /\ new[Len(list) + 1] = arc
      /\ \A i \in 1..Len(list) : new[i] = list[i]
  BY <1>1, AppendFacts
<1> HIDE DEF new
<1>3. \A i \in 1..Len(new) : i = Len(list) + 1 \/ i \in 1..Len(list)
  BY <1>2
<1>4. \A i \in 1..Len(new) : new[i].head = h /\ new[i].child \in children \union {arc.child}
  BY <1>2, <1>3 DEF Holds
<1>5. \A c \in children \union {arc.child} : \E i \in 1..Len(new) : new[i].child = c
  <2>1. \A c \in children : \E i \in 1..Len(list) : new[i].child = c
    BY <1>2 DEF Holds
  <2>2. Len(list) + 1 \in 1..Len(new) /\ 1..Len(list) \subseteq 1..Len(new)
    BY <1>2
  <2>3. QED
    BY <1>2, <2>1, <2>2
<1>6. \A i, j \in 1..Len(new) : i # j => new[i].child # new[j].child
  BY <1>2, <1>3 DEF Holds
<1>7. QED
  BY <1>2, <1>4, <1>5, <1>6 DEF Holds, new

(* One arc less, the newest.                                                 *)
LEMMA CutHolds ==
  ASSUME NEW list, NEW h, NEW children, Holds(list, h, children), list # <<>>
  PROVE  Holds(ButLast(list), h, children \ {list[Len(list)].child})
<1> DEFINE new == ButLast(list)
           last == list[Len(list)].child
<1>1. list \in Seq(Arc)
  BY DEF Holds
<1>2. /\ new \in Seq(Arc) /\ Len(list) \in Nat \ {0} /\ Len(new) = Len(list) - 1
      /\ \A i \in 1..(Len(list) - 1) : new[i] = list[i]
  BY <1>1, ButLastFacts
<1> HIDE DEF new
<1>3. Len(list) \in 1..Len(list) /\ \A i \in 1..Len(new) : i \in 1..Len(list) /\ i # Len(list)
  BY <1>2
<1>4. \A i \in 1..Len(new) : new[i].head = h /\ new[i].child \in children /\ new[i].child # last
  BY <1>2, <1>3 DEF Holds
<1>5. \A c \in children : c # last => \E i \in 1..Len(new) : new[i].child = c
  <2>1. SUFFICES ASSUME NEW c \in children, c # last PROVE \E i \in 1..Len(new) : new[i].child = c
    OBVIOUS
  <2>2. PICK i \in 1..Len(list) : list[i].child = c
    BY DEF Holds
  <2>3. i # Len(list)
    BY <2>1, <2>2
  <2>4. i \in 1..Len(new) /\ new[i] = list[i]
    BY <1>2, <2>3
  <2>5. QED
    BY <2>2, <2>4
<1>6. \A i, j \in 1..Len(new) : i # j => new[i].child # new[j].child
  BY <1>2, <1>3 DEF Holds
<1>7. QED
  BY <1>2, <1>4, <1>5, <1>6 DEF Holds, new

(* Removing the newest arc of a list by delArc cuts it off: no hole.          *)
LEMMA DelNewest ==
  ASSUME NEW arcs, NEW h, NEW children, Holds(arcs[h], h, children), arcs[h] # <<>>,
         NEW c, arcs[h][Len(arcs[h])].child = c
  PROVE  DelArc(arcs, h, c) = [arcs EXCEPT ![h] = ButLast(arcs[h])]
<1> DEFINE at == {i \in 1..Len(arcs[h]) : arcs[h][i].head = h /\ arcs[h][i].child = c}
<1>1. arcs[h] \in Seq(Arc) /\ Len(arcs[h]) \in Nat \ {0}
  BY EmptySeq, LenProperties DEF Holds
<1>2. Len(arcs[h]) \in 1..Len(arcs[h])
  BY <1>1
<1>3. at = {Len(arcs[h])}
  BY <1>2 DEF Holds
<1>4. (CHOOSE i \in at : \A j \in at : j <= i) = Len(arcs[h])
  BY <1>1, <1>3
<1>5. at # {}
  BY <1>3
<1>6. QED
  BY <1>4, <1>5 DEF DelArc

(* delArc leaves the other lists alone.                                       *)
LEMMA DelOther ==
  ASSUME NEW arcs, NEW h, NEW c, NEW g, h # g
  PROVE  g \in DOMAIN arcs => DelArc(arcs, h, c)[g] = arcs[g]
BY DEF DelArc

-----------------------------------------------------------------------------
(* Children are attached from the inside out. *)

(* The right children of the top of the stack lie before the front of the      *)
(* buffer.                                                                  *)
LEMMA RightsBeforeFront ==
  ASSUME NInv, StackDepth # 0, BufferLength # 0
  PROVE  \A x \in Rights(S(0)) : x < B(0)
<1>1. /\ IInv /\ TypeOK /\ LiveInOrder /\ LiveHeads /\ Enclosed /\ Tokens \subseteq Int
      /\ S(0) \in OnStack /\ \A y \in OnStack : y <= S(0)
      /\ Live = OnStack \union Buffered
  BY TopIsLast, LiveFacts, PositionFacts DEF NInv, IInv
<1>2. B(0) \in Live /\ S(0) \in Live /\ S(0) \in Int /\ B(0) \in Int /\ S(0) < B(0) /\ S(0) # NoHead
  BY <1>1, TopAndFront DEF NoHead, Tokens
<1>3. SUFFICES ASSUME NEW x \in Tokens, heads[x] = S(0), x > S(0), ~(x < B(0))
               PROVE  FALSE
  BY DEF Rights
<1>4. x \in Int /\ x # B(0)
  BY <1>1, <1>2, <1>3, FrontIsHeadless
<1>5. CASE x \in Live
  <2>1. x \in OnStack
    BY <1>1, <1>2, <1>3, <1>5, HeadsOfLive
  <2>2. QED
    BY <1>1, <1>2, <1>3, <1>4, <2>1
<1>6. CASE x \notin Live
  BY <1>1, <1>2, <1>3, <1>4, <1>6 DEF Enclosed
<1>7. QED
  BY <1>5, <1>6

(* The left children of the front of the buffer lie behind the top of the      *)
(* stack.                                                                   *)
LEMMA LeftsBehindTop ==
  ASSUME NInv, StackDepth # 0, BufferLength # 0
  PROVE  \A x \in Lefts(B(0)) : S(0) < x
<1>1. /\ IInv /\ TypeOK /\ LiveInOrder /\ Enclosed /\ Tokens \subseteq Int
      /\ S(0) \in OnStack /\ B(0) \in Buffered
      /\ Live = OnStack \union Buffered
      /\ \A y \in OnStack : \A z \in Buffered : y < z
  BY TopIsLast, FrontIsFirst, LiveFacts, PositionFacts DEF NInv, IInv
<1>2. S(0) \in Int /\ B(0) \in Int /\ S(0) < B(0) /\ B(0) # NoHead /\ B(0) \notin OnStack
  BY <1>1, TopAndFront DEF NoHead, Tokens
<1>3. SUFFICES ASSUME NEW x \in Tokens, heads[x] = B(0), x < B(0), ~(S(0) < x)
               PROVE  FALSE
  BY DEF Lefts
<1>4. x \in Int
  BY <1>1, <1>3
<1>5. CASE x \in Live
  BY <1>1, <1>2, <1>3, <1>5, HeadsOfLive
<1>6. CASE x \notin Live
  <2>1. x < S(0)
    BY <1>1, <1>2, <1>3, <1>4, <1>6
  <2>2. QED
    BY <1>1, <1>2, <1>3, <1>4, <1>6, <2>1 DEF Enclosed
<1>7. QED
  BY <1>5, <1>6

(* The top of the stack is the rightmost child of its head.                  *)
LEMMA TopIsNewestChild ==
  ASSUME NInv, StackDepth # 0, heads[S(0)] # NoHead
  PROVE  /\ S(0) \in Tokens /\ heads[S(0)] \in Tokens /\ heads[S(0)] < S(0)
         /\ \A x \in Rights(heads[S(0)]) : x <= S(0)
<1>1. /\ IInv /\ TypeOK /\ LiveInOrder /\ Enclosed /\ Tokens \subseteq Int
      /\ S(0) \in OnStack /\ OnStack \subseteq Tokens /\ OnStack \subseteq Live
  BY TopIsLast, LiveFacts, PositionFacts DEF NInv, IInv
<1>2. heads[S(0)] \in OnStack /\ heads[S(0)] < S(0)
  BY <1>1, HeadsOfLive
<1>3. SUFFICES ASSUME NEW x \in Tokens, heads[x] = heads[S(0)], x > heads[S(0)], ~(x <= S(0))
               PROVE  FALSE
  BY <1>1, <1>2 DEF Rights
<1>4. x \in Int /\ S(0) \in Int /\ heads[S(0)] \in Int /\ S(0) < x
  <2>1. x \in Int /\ S(0) \in Int /\ heads[S(0)] \in Int
    BY <1>1, <1>2
  <2>2. QED
    BY <1>3, <2>1
<1>5. CASE x \in Live
  BY <1>1, <1>2, <1>3, <1>4, <1>5, HeadsOfLive
<1>6. CASE x \notin Live
  BY <1>1, <1>2, <1>3, <1>4, <1>6 DEF Enclosed
<1>7. QED
  BY <1>5, <1>6

-----------------------------------------------------------------------------
(* Every transition keeps the lists. *)

(* An append at the newer end of an ordered list.                            *)
LEMMA AppendOrdered ==
  ASSUME NEW list \in Seq(Arc), NEW arc \in Arc
  PROVE  /\ /\ \A i \in 1..Len(list) : list[i].child < arc.child
            /\ \A i, j \in 1..Len(list) : i < j => list[i].child < list[j].child
            => \A i, j \in 1..Len(Append(list, arc)) :
                 i < j => Append(list, arc)[i].child < Append(list, arc)[j].child
         /\ /\ \A i \in 1..Len(list) : arc.child < list[i].child
            /\ \A i, j \in 1..Len(list) : i < j => list[j].child < list[i].child
            => \A i, j \in 1..Len(Append(list, arc)) :
                 i < j => Append(list, arc)[j].child < Append(list, arc)[i].child
<1> DEFINE new == Append(list, arc)
<1>1. /\ Len(list) \in Nat /\ Len(new) = Len(list) + 1
      /\ new[Len(list) + 1] = arc
      /\ \A i \in 1..Len(list) : new[i] = list[i]
  BY AppendFacts
<1> HIDE DEF new
<1>2. ASSUME NEW i \in 1..Len(new), NEW j \in 1..Len(new), i < j
      PROVE  i \in 1..Len(list) /\ (j = Len(list) + 1 \/ j \in 1..Len(list))
  BY <1>1, <1>2
<1>3. ASSUME \A i \in 1..Len(list) : list[i].child < arc.child,
             \A i, j \in 1..Len(list) : i < j => list[i].child < list[j].child
      PROVE  \A i, j \in 1..Len(new) : i < j => new[i].child < new[j].child
  BY <1>1, <1>2, <1>3
<1>4. ASSUME \A i \in 1..Len(list) : arc.child < list[i].child,
             \A i, j \in 1..Len(list) : i < j => list[j].child < list[i].child
      PROVE  \A i, j \in 1..Len(new) : i < j => new[j].child < new[i].child
  BY <1>1, <1>2, <1>4
<1>5. QED
  BY <1>3, <1>4 DEF new

(* What a new head does to the children of a token.                          *)
LEMMA NewHead ==
  ASSUME heads \in [Tokens -> Tokens \union {NoHead}], NEW c \in Tokens, NEW g \in Tokens,
         heads' = [heads EXCEPT ![c] = g], NEW h \in Tokens
  PROVE  /\ Lefts(h)' = IF h = g /\ c < g THEN Lefts(h) \union {c} ELSE Lefts(h) \ {c}
         /\ Rights(h)' = IF h = g /\ c > g THEN Rights(h) \union {c} ELSE Rights(h) \ {c}
<1>1. heads'[c] = g /\ \A x \in Tokens : x # c => heads'[x] = heads[x]
  OBVIOUS
<1>2. ASSUME NEW x \in Tokens, x # c
      PROVE  (x \in Lefts(h)' <=> x \in Lefts(h)) /\ (x \in Rights(h)' <=> x \in Rights(h))
  BY <1>1, <1>2 DEF Lefts, Rights
<1>3. (c \in Lefts(h)' <=> h = g /\ c < g) /\ (c \in Rights(h)' <=> h = g /\ c > g)
  BY <1>1 DEF Lefts, Rights
<1>4. Lefts(h) \subseteq Tokens /\ Lefts(h)' \subseteq Tokens
  BY DEF Lefts
<1>5. Rights(h) \subseteq Tokens /\ Rights(h)' \subseteq Tokens
  BY DEF Rights
<1>6. Lefts(h)' = IF h = g /\ c < g THEN Lefts(h) \union {c} ELSE Lefts(h) \ {c}
  <2>1. CASE h = g /\ c < g
    BY <1>2, <1>3, <1>4, <2>1
  <2>2. CASE ~(h = g /\ c < g)
    BY <1>2, <1>3, <1>4, <2>2
  <2>3. QED
    BY <2>1, <2>2
<1>7. Rights(h)' = IF h = g /\ c > g THEN Rights(h) \union {c} ELSE Rights(h) \ {c}
  <2>1. CASE h = g /\ c > g
    BY <1>2, <1>3, <1>5, <2>1
  <2>2. CASE ~(h = g /\ c > g)
    BY <1>2, <1>3, <1>5, <2>2
  <2>3. QED
    BY <2>1, <2>2
<1>8. QED
  BY <1>6, <1>7

(* RIGHT adds the newest and rightmost right child of the top.                *)
LEMMA RightLists ==
  ASSUME NInv, \A h \in Tokens : LeftsOK(h) /\ RightsOK(h),
         NEW label \in Labels \union {NoLabel}, Right(label)
  PROVE  \A h \in Tokens : LeftsOK(h)' /\ RightsOK(h)'
<1> DEFINE arc == [head |-> S(0), child |-> B(0), label |-> label]
<1>1. /\ IInv /\ TypeOK /\ LiveInOrder /\ LiveHeads
      /\ heads \in [Tokens -> Tokens \union {NoHead}]
      /\ Tokens \subseteq Int /\ NoHead \notin Tokens
  BY AcyclicFacts, PositionFacts DEF NInv, IInv, NoHead, Tokens
<1>2. StackDepth # 0 /\ BufferLength # 0 /\ AddArc(S(0), B(0), label)
  BY <1>1, ValidFacts DEF Right
<1>3. /\ S(0) \in Tokens /\ B(0) \in Tokens /\ S(0) < B(0) /\ heads[B(0)] = NoHead
      /\ \A x \in Rights(S(0)) : x < B(0)
  BY <1>1, <1>2, TopAndFront, FrontIsHeadless, RightsBeforeFront
<1>4. /\ leftArcs' = leftArcs
      /\ rightArcs' = [rightArcs EXCEPT ![S(0)] = Append(@, arc)]
      /\ heads' = [heads EXCEPT ![B(0)] = S(0)]
  <2>1. ~HasHead(B(0))
    BY <1>3 DEF HasHead, NoHead
  <2>2. S(0) \in Int /\ B(0) \in Int
    BY <1>1, <1>3
  <2>3. ~(S(0) > B(0))
    BY <1>3, <2>2
  <2>4. QED
    BY <1>2, <2>1, <2>3 DEF AddArc
<1>5. ASSUME NEW h \in Tokens
      PROVE  /\ Lefts(h)' = Lefts(h)
             /\ Rights(h)' = IF h = S(0) THEN Rights(h) \union {B(0)} ELSE Rights(h)
  <2>1. h # NoHead /\ ~(B(0) < S(0)) /\ B(0) > S(0)
    <3>1. S(0) \in Int /\ B(0) \in Int
      BY <1>1, <1>3
    <3>2. h # NoHead
      BY <1>1
    <3>3. QED
      BY <1>3, <3>1, <3>2
  <2>2. B(0) \notin Lefts(h) /\ B(0) \notin Rights(h)
    BY <1>3, <2>1 DEF Lefts, Rights
  <2>3. /\ Lefts(h)' = Lefts(h) \ {B(0)}
        /\ Rights(h)' = IF h = S(0) THEN Rights(h) \union {B(0)} ELSE Rights(h) \ {B(0)}
    BY <1>1, <1>3, <1>4, <2>1, NewHead
  <2>4. QED
    BY <2>2, <2>3
<1>6. ASSUME NEW h \in Tokens PROVE LeftsOK(h)'
  BY <1>4, <1>5 DEF LeftsOK, Holds
<1>7. ASSUME NEW h \in Tokens PROVE RightsOK(h)'
  <2>1. rightArcs \in [Tokens -> Seq(Arc \union {Hole})]
    BY <1>1 DEF TypeOK
  <2>2. CASE h # S(0)
    <3>1. rightArcs'[h] = rightArcs[h]
      BY <1>4, <2>1, <2>2
    <3>2. QED
      BY <1>5, <2>2, <3>1 DEF RightsOK, Holds
  <2>3. CASE h = S(0)
    <3> DEFINE list == rightArcs[h]
    <3>1. rightArcs'[h] = Append(list, arc)
      BY <1>4, <2>1, <2>3
    <3>2. /\ Holds(list, h, Rights(h)) /\ list \in Seq(Arc)
          /\ \A i, j \in 1..Len(list) : i < j => list[i].child < list[j].child
      BY DEF RightsOK, Holds
    <3>3. arc \in Arc /\ arc.head = h /\ arc.child = B(0) /\ B(0) \notin Rights(h)
      BY <1>1, <1>3, <2>3 DEF Arc, Rights
    <3> HIDE DEF arc, list
    <3>4. Holds(Append(list, arc), h, Rights(h) \union {B(0)})
      BY <3>2, <3>3, AppendHolds
    <3>5. \A i \in 1..Len(list) : list[i].child < arc.child
      BY <1>3, <2>3, <3>2, <3>3 DEF Holds
    <3>6. \A i, j \in 1..Len(Append(list, arc)) :
            i < j => Append(list, arc)[i].child < Append(list, arc)[j].child
      BY <3>2, <3>3, <3>5, AppendOrdered
    <3>7. Rights(h)' = Rights(h) \union {B(0)}
      BY <1>5, <2>3
    <3>8. QED
      BY <3>1, <3>4, <3>6, <3>7 DEF RightsOK, Holds
  <2>4. QED
    BY <2>2, <2>3
<1>8. QED
  BY <1>6, <1>7

(* LEFT adds the newest and leftmost left child of the front of the buffer and *)
(* cuts the arc that RIGHT gave it off its list.                            *)
LEMMA LeftLists ==
  ASSUME NInv, \A h \in Tokens : LeftsOK(h) /\ RightsOK(h),
         NEW label \in Labels \union {NoLabel}, Left(label)
  PROVE  \A h \in Tokens : LeftsOK(h)' /\ RightsOK(h)'
<1> DEFINE arc == [head |-> B(0), child |-> S(0), label |-> label]
           old == heads[S(0)]
           right == IF HasHead(S(0)) /\ ~(old > S(0)) THEN DelArc(rightArcs, old, S(0)) ELSE rightArcs
<1>1. /\ IInv /\ TypeOK /\ LiveInOrder /\ LiveHeads
      /\ heads \in [Tokens -> Tokens \union {NoHead}]
      /\ Tokens \subseteq Int /\ NoHead \notin Tokens
      /\ leftArcs \in [Tokens -> Seq(Arc \union {Hole})]
      /\ rightArcs \in [Tokens -> Seq(Arc \union {Hole})]
  BY AcyclicFacts, PositionFacts DEF NInv, IInv, NoHead, Tokens, TypeOK
<1>2. StackDepth # 0 /\ BufferLength # 0 /\ AddArc(B(0), S(0), label)
  BY <1>1, ValidFacts DEF Left
<1>3. /\ S(0) \in Tokens /\ B(0) \in Tokens /\ S(0) < B(0)
      /\ S(0) \in Int /\ B(0) \in Int
      /\ \A x \in Lefts(B(0)) : S(0) < x
      /\ old # NoHead => /\ old \in Tokens /\ old < S(0)
                         /\ \A x \in Rights(old) : x <= S(0)
  BY <1>1, <1>2, TopAndFront, LeftsBehindTop, TopIsNewestChild
<1>4. HasHead(S(0)) => old \in Tokens /\ old \in Int /\ old < S(0) /\ ~(old > S(0))
  <2>1. HasHead(S(0)) => old \in Tokens
    BY <1>1, <1>3 DEF HasHead, NoHead
  <2>2. HasHead(S(0)) => old \in Int /\ old < S(0)
    BY <1>1, <1>3, <2>1
  <2>3. QED
    BY <1>3, <2>1, <2>2
<1>5. /\ leftArcs' = [leftArcs EXCEPT ![B(0)] = Append(@, arc)]
      /\ rightArcs' = right
      /\ heads' = [heads EXCEPT ![S(0)] = B(0)]
  <2>1. B(0) > S(0)
    BY <1>3
  <2>2. QED
    BY <1>2, <1>4, <2>1 DEF AddArc
<1>6. ASSUME NEW h \in Tokens
      PROVE  /\ Lefts(h)' = IF h = B(0) THEN Lefts(h) \union {S(0)} ELSE Lefts(h)
             /\ Rights(h)' = Rights(h) \ {S(0)}
  <2>1. ~(S(0) > B(0))
    BY <1>3
  <2>2. S(0) \notin Lefts(h)
    <3>1. SUFFICES ASSUME old = h, S(0) < h PROVE FALSE
      BY DEF Lefts
    <3>2. old # NoHead /\ old \in Int /\ old < S(0)
      BY <1>1, <1>3, <3>1
    <3>3. QED
      BY <1>3, <3>1, <3>2
  <2>3. /\ Lefts(h)' = IF h = B(0) /\ S(0) < B(0) THEN Lefts(h) \union {S(0)} ELSE Lefts(h) \ {S(0)}
        /\ Rights(h)' = IF h = B(0) /\ S(0) > B(0) THEN Rights(h) \union {S(0)} ELSE Rights(h) \ {S(0)}
    BY <1>1, <1>3, <1>5, NewHead
  <2>4. QED
    BY <1>3, <2>1, <2>2, <2>3
<1>7. ASSUME NEW h \in Tokens PROVE LeftsOK(h)'
  <2>1. CASE h # B(0)
    <3>1. leftArcs'[h] = leftArcs[h]
      BY <1>1, <1>5, <2>1
    <3>2. QED
      BY <1>6, <2>1, <3>1 DEF LeftsOK, Holds
  <2>2. CASE h = B(0)
    <3> DEFINE list == leftArcs[h]
    <3>1. leftArcs'[h] = Append(list, arc)
      BY <1>1, <1>5, <2>2
    <3>2. /\ Holds(list, h, Lefts(h)) /\ list \in Seq(Arc)
          /\ \A i, j \in 1..Len(list) : i < j => list[j].child < list[i].child
      BY DEF LeftsOK, Holds
    <3>3. arc \in Arc /\ arc.head = h /\ arc.child = S(0)
      BY <1>3, <2>2 DEF Arc
    <3>4. S(0) \notin Lefts(h)
      BY <1>3, <2>2
    <3> HIDE DEF arc, list
    <3>5. Holds(Append(list, arc), h, Lefts(h) \union {S(0)})
      BY <3>2, <3>3, <3>4, AppendHolds
    <3>6. \A i \in 1..Len(list) : arc.child < list[i].child
      BY <1>3, <2>2, <3>2, <3>3 DEF Holds
    <3>7. \A i, j \in 1..Len(Append(list, arc)) :
            i < j => Append(list, arc)[j].child < Append(list, arc)[i].child
      BY <3>2, <3>3, <3>6, AppendOrdered
    <3>8. Lefts(h)' = Lefts(h) \union {S(0)}
      BY <1>6, <2>2
    <3>9. Holds(leftArcs'[h], h, Lefts(h)')
      BY <3>1, <3>5, <3>8
    <3>10. QED
      BY <3>1, <3>7, <3>9 DEF LeftsOK, Holds
  <2>3. QED
    BY <2>1, <2>2
<1>8. ASSUME NEW h \in Tokens PROVE RightsOK(h)'
  <2>1. CASE S(0) \notin Rights(h)
    <3>1. HasHead(S(0)) => h # old
      <4>1. SUFFICES ASSUME HasHead(S(0)), h = old PROVE FALSE
        OBVIOUS
      <4>2. S(0) > h /\ heads[S(0)] = h
        BY <1>4, <4>1
      <4>3. QED
        BY <1>3, <2>1, <4>2 DEF Rights
    <3>2. rightArcs'[h] = rightArcs[h]
      <4>1. CASE HasHead(S(0)) /\ ~(old > S(0))
        BY <1>1, <1>4, <1>5, <3>1, <4>1, DelOther
      <4>2. CASE ~(HasHead(S(0)) /\ ~(old > S(0)))
        BY <1>5, <4>2
      <4>3. QED
        BY <4>1, <4>2
    <3>3. Rights(h)' = Rights(h)
      BY <1>6, <2>1
    <3>4. QED
      BY <3>2, <3>3 DEF RightsOK, Holds
  <2>2. CASE S(0) \in Rights(h)
    <3> DEFINE list == rightArcs[h]
    <3>1. old = h /\ HasHead(S(0))
      <4>1. old = h
        BY <2>2 DEF Rights
      <4>2. h \in Int /\ h >= 0
        BY <1>1, NAssumption DEF Tokens
      <4>3. QED
        BY <1>3, <4>1, <4>2 DEF HasHead
    <3>2. right = DelArc(rightArcs, h, S(0))
      BY <1>4, <3>1
    <3>3. /\ Holds(list, h, Rights(h)) /\ list \in Seq(Arc)
          /\ \A i, j \in 1..Len(list) : i < j => list[i].child < list[j].child
      BY DEF RightsOK, Holds
    <3>4. \A x \in Rights(h) : x <= S(0)
      BY <1>1, <1>3, <3>1
    <3> HIDE DEF right, list
    <3>5. PICK k \in 1..Len(list) : list[k].child = S(0)
      BY <2>2, <3>3 DEF Holds
    <3>6. Len(list) \in Nat
      BY <3>3, LenProperties
    <3>7. k = Len(list)
      <4>1. SUFFICES ASSUME k < Len(list) PROVE FALSE
        BY <3>6
      <4>2. Len(list) \in 1..Len(list)
        BY <3>6, <4>1
      <4>3. list[Len(list)].child \in Rights(h) /\ S(0) < list[Len(list)].child
        BY <3>3, <3>5, <4>1, <4>2 DEF Holds
      <4>4. list[Len(list)].child \in Int
        BY <1>1, <4>3 DEF Rights
      <4>5. QED
        BY <1>3, <3>4, <4>3, <4>4
    <3>8. list # <<>>
      BY <3>5
    <3>9. list[Len(list)].child = S(0)
      BY <3>5, <3>7
    <3>10. right = [rightArcs EXCEPT ![h] = ButLast(list)]
      BY <3>2, <3>3, <3>8, <3>9, DelNewest DEF list
    <3>11. rightArcs'[h] = ButLast(list)
      BY <1>1, <1>5, <3>10
    <3>12. Holds(ButLast(list), h, Rights(h) \ {S(0)})
      BY <3>3, <3>8, <3>9, CutHolds
    <3>13. \A i, j \in 1..Len(ButLast(list)) :
             i < j => ButLast(list)[i].child < ButLast(list)[j].child
      <4>1. /\ Len(ButLast(list)) = Len(list) - 1
            /\ \A i \in 1..(Len(list) - 1) : ButLast(list)[i] = list[i]
        BY <3>3, <3>8, ButLastFacts
      <4>2. \A i \in 1..Len(ButLast(list)) : i \in 1..Len(list) /\ ButLast(list)[i] = list[i]
        BY <3>6, <4>1
      <4>3. QED
        BY <3>3, <4>2
    <3>14. QED
      BY <1>6, <3>11, <3>12, <3>13 DEF RightsOK, Holds
  <2>3. QED
    BY <2>1, <2>2
<1>9. QED
  BY <1>7, <1>8

-----------------------------------------------------------------------------
(* What the lists tell: the newest child and the winner of the write-back. *)

(* The first of L and R is the newest child.                                 *)
LEMMA NewestChild ==
  ASSUME NEW list, NEW h, NEW children, Holds(list, h, children)
  PROVE  /\ \A i \in 1..Len(list) : list[i] # Hole
         /\ children = {} => NthChild(list, 1) = -1
         /\ children # {} => /\ Len(list) \in 1..Len(list)
                             /\ NthChild(list, 1) = list[Len(list)].child
<1> DEFINE len == Len(list)
           kept == {i \in 1..len : list[i].child >= 0}
           nth == {i \in kept : Cardinality({j \in kept : j >= i}) = 1}
<1>1. list \in Seq(Arc) /\ len \in Nat
  BY LenProperties DEF Holds
<1>2. \A i \in 1..len : list[i] \in Arc /\ list[i].child \in Tokens
  <2>1. \A i \in 1..len : list[i] \in Arc
    BY <1>1
  <2>2. \A a \in Arc : a.child \in Tokens
    BY DEF Arc
  <2>3. QED
    BY <2>1, <2>2
<1>3. \A i \in 1..len : list[i].child >= 0 /\ list[i].child # -1
  BY <1>2, NAssumption DEF Tokens
<1>4. \A i \in 1..len : list[i] # Hole
  BY <1>3 DEF Hole
<1>5. kept = 1..len
  BY <1>3
<1> HIDE DEF kept, len
<1>6. \A i \in 1..len : Cardinality({j \in kept : j >= i}) = (len - i) + 1
  <2>1. SUFFICES ASSUME NEW i \in 1..len PROVE Cardinality({j \in kept : j >= i}) = (len - i) + 1
    OBVIOUS
  <2>2. {j \in kept : j >= i} = i..len
    BY <1>1, <1>5
  <2>3. i \in Int /\ len \in Int /\ ~(i > len)
    BY <1>1
  <2>4. QED
    BY <2>2, <2>3, FS_Interval
<1>7. nth = {i \in 1..len : i = len}
  BY <1>1, <1>5, <1>6
<1>8. NthChild(list, 1) = IF nth = {} THEN -1 ELSE list[CHOOSE i \in nth : TRUE].child
  BY DEF NthChild, kept, len
<1> HIDE DEF nth
<1>9. CASE len = 0
  <2>1. nth = {} /\ children = {}
    BY <1>1, <1>7, <1>9 DEF Holds, len
  <2>2. QED
    BY <1>4, <1>8, <2>1 DEF len
<1>10. CASE len # 0
  <2>1. len \in 1..len
    BY <1>1, <1>10
  <2>2. nth = {len} /\ children # {}
    BY <1>7, <2>1 DEF Holds, len
  <2>3. (CHOOSE i \in nth : TRUE) = len
    BY <2>2
  <2>4. QED
    BY <1>4, <1>8, <2>1, <2>2, <2>3 DEF len
<1>11. QED
  BY <1>9, <1>10

(* With one list per head, a child has at most one winner per head, and one    *)
(* under every head that has it.                                            *)
LEMMA NewestFacts ==
  ASSUME NEW arcs, NEW kids, NEW c, \A h \in Tokens : Holds(arcs[h], h, kids[h])
  PROVE  /\ \A a \in NewestTo(arcs, c) : a.head \in Tokens /\ c \in kids[a.head]
         /\ \A a, b \in NewestTo(arcs, c) : a.head = b.head => a = b
         /\ \A h \in Tokens : c \in kids[h] => NewestTo(arcs, c) # {}
<1>1. ASSUME NEW a \in NewestTo(arcs, c)
      PROVE  \E i \in 1..Len(arcs[a.head]) :
               a.head \in Tokens /\ a = arcs[a.head][i] /\ a.child = c /\ c \in kids[a.head]
  <2>1. PICK h \in Tokens : \E i \in 1..Len(arcs[h]) : a = arcs[h][i] /\ a.child = c
    BY <1>1 DEF NewestTo, IsNewestTo
  <2>2. a.head = h /\ a.child \in kids[h]
    BY <2>1 DEF Holds
  <2>3. QED
    BY <2>1, <2>2
<1>2. ASSUME NEW a \in NewestTo(arcs, c), NEW b \in NewestTo(arcs, c), a.head = b.head
      PROVE  a = b
  <2>1. PICK i \in 1..Len(arcs[a.head]) : a.head \in Tokens /\ a = arcs[a.head][i] /\ a.child = c
    BY <1>1
  <2>2. PICK j \in 1..Len(arcs[b.head]) : b = arcs[b.head][j] /\ b.child = c
    BY <1>1
  <2>3. i = j
    BY <1>2, <2>1, <2>2 DEF Holds
  <2>4. QED
    BY <1>2, <2>1, <2>2, <2>3
<1>3. ASSUME NEW h \in Tokens, c \in kids[h] PROVE NewestTo(arcs, c) # {}
  <2>1. PICK i \in 1..Len(arcs[h]) : arcs[h][i].child = c
    BY <1>3 DEF Holds
  <2>2. \A j \in 1..Len(arcs[h]) : j # i => arcs[h][j].child # c
    BY <2>1 DEF Holds
  <2>3. \A j \in (i + 1)..Len(arcs[h]) : j \in 1..Len(arcs[h]) /\ j # i
    OBVIOUS
  <2>4. IsNewestTo(arcs[h], i, c)
    BY <2>1, <2>2, <2>3 DEF IsNewestTo
  <2>5. arcs[h][i] \in NewestTo(arcs, c)
    BY <2>4 DEF NewestTo
  <2>6. QED
    BY <2>5
<1>4. QED
  BY <1>1, <1>2, <1>3

(* The write-back of a token has one winner: its head, or itself.             *)
LEMMA OneWinner ==
  ASSUME NInv, \A h \in Tokens : LeftsOK(h) /\ RightsOK(h), NEW c \in Tokens
  PROVE  \E a : /\ Winners(c) = {a}
                /\ a.head = SelfHeaded(heads)[c]
                /\ heads[c] = NoHead => a.label = Root
<1> DEFINE lefts == [h \in Tokens |-> Lefts(h)]
           rights == [h \in Tokens |-> Rights(h)]
           fromLeft == NewestTo(leftArcs, c)
           fromRight == NewestTo(rightArcs, c)
<1>1. /\ heads \in [Tokens -> Tokens \union {NoHead}]
      /\ Tokens \subseteq Int /\ NoHead \notin Tokens /\ NoCycle
  BY AcyclicFacts, PositionFacts DEF NInv, IInv, TypeOK, NoHead, Tokens
<1>2. SelfHeaded(heads)[c] = IF heads[c] = NoHead THEN c ELSE heads[c]
  BY <1>1 DEF SelfHeaded
<1>3. /\ \A a \in fromLeft : a.head \in Tokens /\ c \in Lefts(a.head)
      /\ \A a, b \in fromLeft : a.head = b.head => a = b
      /\ \A h \in Tokens : c \in Lefts(h) => fromLeft # {}
  <2>1. \A h \in Tokens : Holds(leftArcs[h], h, lefts[h])
    BY DEF LeftsOK
  <2>2. \A h \in Tokens : lefts[h] = Lefts(h)
    OBVIOUS
  <2> HIDE DEF lefts
  <2>3. QED
    BY <2>1, <2>2, NewestFacts
<1>4. /\ \A a \in fromRight : a.head \in Tokens /\ c \in Rights(a.head)
      /\ \A a, b \in fromRight : a.head = b.head => a = b
      /\ \A h \in Tokens : c \in Rights(h) => fromRight # {}
  <2>1. \A h \in Tokens : Holds(rightArcs[h], h, rights[h])
    BY DEF RightsOK
  <2>2. \A h \in Tokens : rights[h] = Rights(h)
    OBVIOUS
  <2> HIDE DEF rights
  <2>3. QED
    BY <2>1, <2>2, NewestFacts
<1>5. /\ \A a \in fromLeft : a.head = heads[c] /\ c < heads[c]
      /\ \A a \in fromRight : a.head = heads[c] /\ c > heads[c]
  BY <1>3, <1>4 DEF Lefts, Rights
<1>6. Winners(c) = IF fromRight # {} THEN fromRight
                   ELSE IF fromLeft # {} THEN fromLeft
                   ELSE {[head |-> c, child |-> c, label |-> Root]}
  BY DEF Winners
<1> HIDE DEF fromLeft, fromRight
<1>7. CASE heads[c] = NoHead
  <2>1. fromLeft = {} /\ fromRight = {}
    BY <1>1, <1>3, <1>4, <1>5, <1>7
  <2>2. Winners(c) = {[head |-> c, child |-> c, label |-> Root]}
    BY <1>6, <2>1
  <2>3. /\ [head |-> c, child |-> c, label |-> Root].head = c
        /\ [head |-> c, child |-> c, label |-> Root].label = Root
    OBVIOUS
  <2>4. QED
    BY <1>2, <1>7, <2>2, <2>3
<1>8. CASE heads[c] # NoHead
  <2>1. heads[c] \in Tokens /\ heads[c] \in Int /\ c \in Int
    BY <1>1, <1>8
  <2>2. heads[c] # c
    <3>1. {c} \in SUBSET DOMAIN heads /\ {c} # {}
      BY <1>1
    <3>2. \E t \in {c} : heads[t] \notin {c}
      BY <1>1, <3>1 DEF NoCycle, Acyclic
    <3>3. QED
      BY <3>2
  <2>3. CASE c > heads[c]
    <3>1. fromRight # {}
      BY <1>4, <2>1, <2>3 DEF Rights
    <3>2. PICK a \in fromRight : TRUE
      BY <3>1
    <3>3. fromRight = {a} /\ a.head = heads[c]
      BY <1>4, <1>5, <3>2
    <3>4. QED
      BY <1>2, <1>6, <1>8, <3>1, <3>3
  <2>4. CASE c < heads[c]
    <3>1. fromLeft # {} /\ fromRight = {}
      <4>1. fromLeft # {}
        BY <1>3, <2>1, <2>4 DEF Lefts
      <4>2. ~(c > heads[c])
        BY <2>1, <2>4
      <4>3. QED
        BY <1>5, <4>1, <4>2
    <3>2. PICK a \in fromLeft : TRUE
      BY <3>1
    <3>3. fromLeft = {a} /\ a.head = heads[c]
      BY <1>3, <1>5, <3>2
    <3>4. QED
      BY <1>2, <1>6, <1>8, <3>1, <3>3
  <2>5. QED
    BY <2>1, <2>2, <2>3, <2>4
<1>9. QED
  BY <1>7, <1>8

-----------------------------------------------------------------------------
(* The write-back gives the document the parse.                              *)
LEMMA WriteBackWrites ==
  ASSUME NInv, \A h \in Tokens : LeftsOK(h) /\ RightsOK(h), WriteBack
  PROVE  WriteBackIsParse'
<1> DEFINE torn == {t \in Tokens : Cardinality(Winners(t)) > 1}
           won(t) == CHOOSE a \in Winners(t) : TRUE
<1>1. /\ heads \in [Tokens -> Tokens \union {NoHead}] /\ sentStarts \subseteq Tokens
      /\ heads' = heads /\ sentStarts' = sentStarts
  BY AcyclicFacts DEF NInv, IInv, TypeOK, WriteBack
<1>2. torn = {}
  <2>1. SUFFICES ASSUME NEW t \in Tokens, Cardinality(Winners(t)) > 1 PROVE FALSE
    OBVIOUS
  <2>2. PICK a : Winners(t) = {a}
    BY OneWinner
  <2>3. Cardinality(Winners(t)) = 1
    BY <2>2, FS_Singleton
  <2>4. QED
    BY <2>1, <2>3
<1>3. \A t \in Tokens : /\ won(t).head = SelfHeaded(heads)[t]
                        /\ heads[t] = NoHead => won(t).label = Root
  <2>1. SUFFICES ASSUME NEW t \in Tokens
                 PROVE  /\ won(t).head = SelfHeaded(heads)[t]
                        /\ heads[t] = NoHead => won(t).label = Root
    OBVIOUS
  <2>2. PICK a : /\ Winners(t) = {a} /\ a.head = SelfHeaded(heads)[t]
                 /\ heads[t] = NoHead => a.label = Root
    BY OneWinner
  <2>3. won(t) = a
    BY <2>2
  <2>4. QED
    BY <2>2, <2>3
<1>4. doc' = [t \in Tokens |-> [head |-> won(t).head, dep |-> won(t).label,
                               sentStart |-> IF IsSentStart(t) THEN 1 ELSE 0]]
  <2> DEFINE writes(pick) ==
               doc' = [t \in Tokens |->
                         [head |-> (IF t \in torn THEN pick[t] ELSE won(t)).head,
                          dep |-> (IF t \in torn THEN pick[t] ELSE won(t)).label,
                          sentStart |-> IF IsSentStart(t) THEN 1 ELSE 0]]
  <2>1. \E pick \in [torn -> UNION {Winners(t) : t \in torn}] :
          (\A t \in torn : pick[t] \in Winners(t)) /\ writes(pick)
    BY Zenon DEF WriteBack
  <2>2. PICK pick : writes(pick)
    <3> HIDE DEF writes
    <3>1. QED
      BY <2>1
  <2>3. \A t \in Tokens : t \notin torn
    BY <1>2
  <2> HIDE DEF torn, won
  <2>4. QED
    BY <2>2, <2>3
<1> HIDE DEF won
<1>5. \A t \in Tokens : /\ doc'[t].head = SelfHeaded(heads)[t]
                        /\ doc'[t].dep = won(t).label
                        /\ doc'[t].sentStart = IF t \in sentStarts THEN 1 ELSE 0
  BY <1>3, <1>4 DEF IsSentStart
<1>6. SelfHeaded(heads)' = SelfHeaded(heads)
  BY <1>1 DEF SelfHeaded
<1>7. [t \in Tokens |-> doc'[t].head] = SelfHeaded(heads)
  BY <1>1, <1>5 DEF SelfHeaded
<1>8. /\ \A t \in Tokens : doc'[t].sentStart \in {0, 1}
      /\ {t \in Tokens : doc'[t].sentStart = 1} = sentStarts
  BY <1>1, <1>5
<1>9. \A t \in Tokens : heads'[t] = NoHead => doc'[t].dep = Root
  BY <1>1, <1>3, <1>5
<1>10. QED
  BY <1>1, <1>6, <1>7, <1>8, <1>9 DEF WriteBackIsParse

-----------------------------------------------------------------------------
(* The invariant is inductive. *)

LEMMA InitAInv == Init => AInv
<1>1. SUFFICES ASSUME Init PROVE AInv
  OBVIOUS
<1>2. ASSUME NEW h \in Tokens PROVE LeftsOK(h) /\ RightsOK(h)
  <2>1. leftArcs[h] = <<>> /\ rightArcs[h] = <<>>
    BY <1>1 DEF Init
  <2>2. h # NoHead
    BY NAssumption DEF Tokens, NoHead
  <2>3. Lefts(h) = {} /\ Rights(h) = {}
    BY <1>1, <2>2 DEF Init, Lefts, Rights
  <2>4. <<>> \in Seq(Arc) /\ Len(<<>>) = 0
    OBVIOUS
  <2>5. QED
    BY <2>1, <2>3, <2>4 DEF LeftsOK, RightsOK, Holds
<1>3. WriteBackIsParse
  BY <1>1 DEF Init, WriteBackIsParse
<1>4. QED
  BY <1>1, <1>2, <1>3, InitNInv DEF AInv

LEMMA NextAInv == AInv /\ [Next]_vars => AInv'
<1>1. SUFFICES ASSUME AInv, [Next]_vars PROVE AInv'
  OBVIOUS
<1>2. NInv /\ NInv' /\ \A h \in Tokens : LeftsOK(h) /\ RightsOK(h)
  BY <1>1, NextNInv DEF AInv
<1>3. ASSUME UNCHANGED <<heads, leftArcs, rightArcs>>, NEW h \in Tokens
      PROVE  LeftsOK(h)' /\ RightsOK(h)'
  <2>1. /\ leftArcs'[h] = leftArcs[h] /\ rightArcs'[h] = rightArcs[h]
        /\ Lefts(h)' = Lefts(h) /\ Rights(h)' = Rights(h)
    BY <1>3 DEF Lefts, Rights
  <2>2. LeftsOK(h)'
    BY <1>2, <2>1 DEF LeftsOK, Holds
  <2>3. RightsOK(h)'
    BY <1>2, <2>1 DEF RightsOK, Holds
  <2>4. QED
    BY <2>2, <2>3
<1>4. ASSUME pc' = "decode" PROVE WriteBackIsParse'
  BY <1>4 DEF WriteBackIsParse
<1>5. ASSUME NEW label \in Labels \union {NoLabel}, Left(label) PROVE AInv'
  <2>1. pc' = "decode"
    BY <1>5 DEF Left, Takes
  <2>2. QED
    BY <1>2, <1>4, <1>5, <2>1, LeftLists DEF AInv
<1>6. ASSUME NEW label \in Labels \union {NoLabel}, Right(label) PROVE AInv'
  <2>1. pc' = "decode"
    BY <1>6 DEF Right, Takes
  <2>2. QED
    BY <1>2, <1>4, <1>6, <2>1, RightLists DEF AInv
<1>7. ASSUME NEW label \in Labels \union {NoLabel}, Shift(label) \/ Reduce(label) \/ Break(label)
      PROVE  AInv'
  <2>1. pc' = "decode" /\ UNCHANGED <<heads, leftArcs, rightArcs>>
    BY <1>7 DEF Shift, Reduce, Break, Takes
  <2>2. QED
    BY <1>2, <1>3, <1>4, <2>1 DEF AInv
<1>8. CASE ForceFinal
  <2>1. pc' = "decode" /\ UNCHANGED <<heads, leftArcs, rightArcs>>
    BY <1>8 DEF ForceFinal
  <2>2. QED
    BY <1>2, <1>3, <1>4, <2>1 DEF AInv
<1>9. CASE WriteBack
  <2>1. UNCHANGED <<heads, leftArcs, rightArcs>>
    BY <1>9 DEF WriteBack
  <2>2. QED
    BY <1>2, <1>3, <1>9, <2>1, WriteBackWrites DEF AInv
<1>10. CASE UNCHANGED vars
  <2>1. UNCHANGED <<heads, leftArcs, rightArcs, pc, doc, sentStarts>>
    BY <1>10 DEF vars
  <2>2. WriteBackIsParse'
    BY <1>1, <2>1 DEF AInv, WriteBackIsParse, SelfHeaded
  <2>3. QED
    BY <1>2, <1>3, <2>1, <2>2 DEF AInv
<1>11. QED
  BY <1>1, <1>5, <1>6, <1>7, <1>8, <1>9, <1>10 DEF Next, Step

-----------------------------------------------------------------------------
(* The invariant holds throughout every parse.                               *)
THEOREM Listing == Spec => []AInv
<1>1. QED
  BY InitAInv, NextAInv, PTL DEF Spec

(* What the document gets is the parse, whatever order the arc maps are        *)
(* iterated in.                                                             *)
THEOREM WriteBackCorrect == Spec => []WriteBackIsParse
<1>1. AInv => WriteBackIsParse
  BY DEF AInv
<1>2. QED
  BY <1>1, Listing, PTL

(* delArc leaves no hole, and the features name the leftmost left child and     *)
(* the rightmost right child.                                               *)
THEOREM ListsCorrect == Spec => []ListsSayHeads
<1>1. AInv => ListsSayHeads
  <2>1. SUFFICES ASSUME AInv, NEW h \in Tokens
        PROVE  /\ \A i \in 1..Len(leftArcs[h]) : leftArcs[h][i] # Hole
               /\ \A i \in 1..Len(rightArcs[h]) : rightArcs[h][i] # Hole
               /\ IF Lefts(h) = {} THEN L(h, 1) = -1
                  ELSE L(h, 1) \in Lefts(h) /\ \A c \in Lefts(h) : L(h, 1) <= c
               /\ IF Rights(h) = {} THEN R(h, 1) = -1
                  ELSE R(h, 1) \in Rights(h) /\ \A c \in Rights(h) : c <= R(h, 1)
    BY DEF ListsSayHeads, Lefts, Rights
  <2>2. LeftsOK(h) /\ RightsOK(h) /\ Tokens \subseteq Int
    BY <2>1, PositionFacts DEF AInv, NInv, IInv
  <2>3. L(h, 1) = NthChild(leftArcs[h], 1) /\ R(h, 1) = NthChild(rightArcs[h], 1)
    <3>1. ~(h < 0)
      BY NAssumption DEF Tokens
    <3>2. QED
      BY <3>1 DEF L, R
  <2>4. /\ \A i \in 1..Len(leftArcs[h]) : leftArcs[h][i] # Hole
        /\ IF Lefts(h) = {} THEN L(h, 1) = -1
           ELSE L(h, 1) \in Lefts(h) /\ \A c \in Lefts(h) : L(h, 1) <= c
    <3> DEFINE list == leftArcs[h]
               last == Len(list)
    <3>1. /\ Holds(list, h, Lefts(h))
          /\ \A i, j \in 1..last : i < j => list[j].child < list[i].child
      BY <2>2 DEF LeftsOK
    <3>2. /\ \A i \in 1..last : list[i] # Hole
          /\ Lefts(h) = {} => L(h, 1) = -1
          /\ Lefts(h) # {} => last \in 1..last /\ L(h, 1) = list[last].child
      BY <2>3, <3>1, NewestChild
    <3> HIDE DEF list
    <3>3. ASSUME Lefts(h) # {}, NEW c \in Lefts(h)
          PROVE  L(h, 1) \in Lefts(h) /\ L(h, 1) <= c
      <4>1. PICK i \in 1..last : list[i].child = c
        BY <3>1 DEF Holds
      <4>2. list[last].child \in Lefts(h)
        BY <3>1, <3>2, <3>3 DEF Holds
      <4>3. c \in Int /\ list[last].child \in Int
        BY <2>2, <4>2 DEF Lefts
      <4>4. i = last \/ i < last
        BY <3>2, <3>3
      <4>5. QED
        BY <3>1, <3>2, <3>3, <4>1, <4>2, <4>3, <4>4
    <3>4. QED
      BY <3>2, <3>3 DEF list
  <2>5. /\ \A i \in 1..Len(rightArcs[h]) : rightArcs[h][i] # Hole
        /\ IF Rights(h) = {} THEN R(h, 1) = -1
           ELSE R(h, 1) \in Rights(h) /\ \A c \in Rights(h) : c <= R(h, 1)
    <3> DEFINE list == rightArcs[h]
               last == Len(list)
    <3>1. /\ Holds(list, h, Rights(h))
          /\ \A i, j \in 1..last : i < j => list[i].child < list[j].child
      BY <2>2 DEF RightsOK
    <3>2. /\ \A i \in 1..last : list[i] # Hole
          /\ Rights(h) = {} => R(h, 1) = -1
          /\ Rights(h) # {} => last \in 1..last /\ R(h, 1) = list[last].child
      BY <2>3, <3>1, NewestChild
    <3> HIDE DEF list
    <3>3. ASSUME Rights(h) # {}, NEW c \in Rights(h)
          PROVE  R(h, 1) \in Rights(h) /\ c <= R(h, 1)
      <4>1. PICK i \in 1..last : list[i].child = c
        BY <3>1 DEF Holds
      <4>2. list[last].child \in Rights(h)
        BY <3>1, <3>2, <3>3 DEF Holds
      <4>3. c \in Int /\ list[last].child \in Int
        BY <2>2, <4>2 DEF Rights
      <4>4. i = last \/ i < last
        BY <3>2, <3>3
      <4>5. QED
        BY <3>1, <3>2, <3>3, <4>1, <4>2, <4>3, <4>4
    <3>4. QED
      BY <3>2, <3>3 DEF list
  <2>6. QED
    BY <2>4, <2>5
<1>2. QED
  BY <1>1, Listing, PTL

-----------------------------------------------------------------------------
(* The inductive invariant: a token of the stack that was unshifted before    *)
(* and has no head is at the bottom, where REDUCE does not unshift it again.  *)
UnshiftedOnce ==
  \A x \in OnStack : heads[x] = NoHead /\ x \in unshiftable => \A y \in OnStack : x <= y

BInv == IInv /\ UnshiftedOnce

-----------------------------------------------------------------------------
(* Counting. *)

(* The parts of the budget are natural numbers.                              *)
LEMMA Counts ==
  ASSUME TypeOK, LiveInOrder
  PROVE  /\ IsFiniteSet(Live) /\ Cardinality(Live) \in Nat
         /\ IsFiniteSet(Live \ unshiftable) /\ Cardinality(Live \ unshiftable) \in Nat
         /\ IsFiniteSet(Tokens \ sentStarts) /\ Cardinality(Tokens \ sentStarts) \in Nat
         /\ BufferLength \in Nat
<1>1. IsFiniteSet(Tokens)
  BY NAssumption, FS_Interval DEF Tokens
<1>2. Live \subseteq Tokens
  BY LiveFacts
<1>3. IsFiniteSet(Live) /\ IsFiniteSet(Live \ unshiftable) /\ IsFiniteSet(Tokens \ sentStarts)
  BY <1>1, <1>2, FS_Subset
<1>4. BufferLength \in Nat
  BY PositionFacts DEF BufferLength
<1>5. QED
  BY <1>3, <1>4, FS_CardinalityType

(* Push shortens the buffer by one.                                          *)
LEMMA PushShortens ==
  ASSUME TypeOK, LiveInOrder, BufferLength # 0, Push
  PROVE  BufferLength' = BufferLength - 1
<1>1. /\ N \in Nat \ {0} /\ bI \in 0..N /\ rebuffer \in Seq(Tokens) /\ Len(rebuffer) \in Nat
  BY PositionFacts
<1>2. CASE rebuffer # <<>>
  <2>1. rebuffer' = ButLast(rebuffer) /\ bI' = bI
    BY <1>2 DEF Push
  <2>2. Len(rebuffer') = Len(rebuffer) - 1
    BY <1>1, <1>2, <2>1, ButLastFacts
  <2>3. QED
    BY <1>1, <2>1, <2>2 DEF BufferLength
<1>3. CASE rebuffer = <<>>
  BY <1>1, <1>3 DEF Push, BufferLength
<1>4. QED
  BY <1>2, <1>3

(* SHIFT and RIGHT: the live tokens stay, and one leaves the buffer.          *)
LEMMA PushSpends ==
  ASSUME TypeOK, LiveInOrder, BufferLength # 0, Push,
         unshiftable' = unshiftable, sentStarts' = sentStarts
  PROVE  Live' = Live /\ Budget' < Budget
<1>1. /\ OnStack' = OnStack \union {B(0)} /\ Buffered' = Buffered \ {B(0)}
      /\ B(0) \in Buffered /\ Live = OnStack \union Buffered
  BY PushMoves, FrontIsFirst, LiveFacts
<1>2. Live' = OnStack' \union Buffered'
  BY DEF Live, OnStack, Buffered
<1>3. Live' = Live
  BY <1>1, <1>2
<1>4. BufferLength' = BufferLength - 1
  BY PushShortens
<1>5. QED
  BY <1>3, <1>4, Counts DEF Budget

(* REDUCE and LEFT: one token less is live, and at most the front of the       *)
(* buffer becomes shiftable again.                                          *)
LEMMA PopSpends ==
  ASSUME TypeOK, LiveInOrder, StackDepth # 0, Pop,
         NEW freed \in {{}, {B(0)}}, unshiftable' = unshiftable \ freed,
         sentStarts' = sentStarts
  PROVE  Budget' < Budget
<1>1. /\ OnStack' = OnStack \ {S(0)} /\ Buffered' = Buffered
      /\ S(0) \in OnStack /\ Live = OnStack \union Buffered
      /\ \A x \in OnStack : \A y \in Buffered : x < y
      /\ OnStack \subseteq Tokens /\ Tokens \subseteq Int
  BY PopMoves, TopIsLast, LiveFacts, PositionFacts
<1>2. Live' = OnStack' \union Buffered'
  BY DEF Live, OnStack, Buffered
<1>3. S(0) \notin Buffered
  <2>1. S(0) \in Int
    BY <1>1
  <2>2. S(0) # S(0) \/ ~(S(0) < S(0))
    BY <2>1
  <2>3. QED
    BY <1>1, <2>2
<1>4. Live' = Live \ {S(0)} /\ S(0) \in Live
  BY <1>1, <1>2, <1>3
<1>5. Cardinality(Live') = Cardinality(Live) - 1
  BY <1>4, Counts, FS_RemoveElement
<1>6. /\ Cardinality(Live' \ unshiftable') \in Nat
      /\ Cardinality(Live' \ unshiftable') <= Cardinality(Live \ unshiftable) + 1
  <2> DEFINE more == (Live \ unshiftable) \union {B(0)}
  <2>1. /\ IsFiniteSet(more) /\ Cardinality(more) \in Nat
        /\ Cardinality(more) <= Cardinality(Live \ unshiftable) + 1
    <3>1. IsFiniteSet(Live \ unshiftable) /\ Cardinality(Live \ unshiftable) \in Nat
      BY Counts
    <3>2. /\ IsFiniteSet(more)
          /\ \/ Cardinality(more) = Cardinality(Live \ unshiftable)
             \/ Cardinality(more) = Cardinality(Live \ unshiftable) + 1
      BY <3>1, FS_AddElement
    <3> HIDE DEF more
    <3>3. QED
      BY <3>1, <3>2
  <2>2. Live' \ unshiftable' \in SUBSET more
    BY <1>4
  <2> HIDE DEF more
  <2>3. /\ IsFiniteSet(Live' \ unshiftable')
        /\ Cardinality(Live' \ unshiftable') <= Cardinality(more)
    BY <2>1, <2>2, FS_Subset
  <2>4. QED
    BY <2>1, <2>3, Counts, FS_CardinalityType
<1>7. BufferLength' = BufferLength
  BY DEF Pop, BufferLength
<1>8. QED
  BY <1>5, <1>6, <1>7, Counts DEF Budget

(* The unshifting REDUCE: the token was shiftable and is not any more.        *)
LEMMA UnshiftSpends ==
  ASSUME TypeOK, LiveInOrder, StackDepth # 0, Unshift, S(0) \notin unshiftable,
         sentStarts' = sentStarts
  PROVE  Budget' < Budget
<1>1. /\ OnStack' = OnStack \ {S(0)} /\ Buffered' = Buffered \union {S(0)}
      /\ S(0) \in OnStack /\ Live = OnStack \union Buffered
  BY UnshiftMoves, TopIsLast, LiveFacts
<1>2. Live' = OnStack' \union Buffered'
  BY DEF Live, OnStack, Buffered
<1>3. Live' = Live /\ S(0) \in Live \ unshiftable
  BY <1>1, <1>2
<1>4. Live' \ unshiftable' = (Live \ unshiftable) \ {S(0)}
  BY <1>3 DEF Unshift
<1>5. Cardinality(Live' \ unshiftable') = Cardinality(Live \ unshiftable) - 1
  BY <1>3, <1>4, Counts, FS_RemoveElement
<1>6. BufferLength' = BufferLength + 1
  <2>1. rebuffer \in Seq(Tokens) /\ S(0) \in Tokens /\ Len(rebuffer) \in Nat /\ bI \in Int /\ N \in Int
    BY StackTop, PositionFacts
  <2>2. Len(rebuffer') = Len(rebuffer) + 1 /\ bI' = bI
    BY <2>1, AppendFacts DEF Unshift
  <2>3. QED
    BY <2>1, <2>2 DEF BufferLength
<1>7. QED
  BY <1>3, <1>5, <1>6, Counts DEF Budget

-----------------------------------------------------------------------------
(* Every transition spends and keeps the invariant.                          *)

LEMMA ShiftSpends ==
  ASSUME BInv, NEW label \in Labels \union {NoLabel}, Shift(label)
  PROVE  UnshiftedOnce' /\ Budget' < Budget
<1>1. TypeOK /\ LiveInOrder /\ UnshiftedOnce
  BY DEF BInv, IInv
<1>2. /\ BufferLength # 0 /\ Push
      /\ UNCHANGED <<heads, unshiftable, sentStarts>>
  BY <1>1, ValidFacts DEF Shift
<1>3. /\ OnStack' = OnStack \union {B(0)} /\ B(0) \in Buffered /\ Buffered \subseteq Tokens
      /\ \A x \in OnStack : \A y \in Buffered : x < y
      /\ OnStack \subseteq Tokens /\ Tokens \subseteq Int
  BY <1>1, <1>2, PushMoves, FrontIsFirst, LiveFacts, PositionFacts
<1>4. StackDepth = 0 \/ B(0) \notin unshiftable
  <2>1. ShiftValid
    BY Zenon DEF Shift, Takes, IsValid
  <2>2. QED
    BY <2>1 DEF ShiftValid
<1>5. StackDepth = 0 => OnStack = {}
  BY DEF StackDepth, OnStack
<1>6. ASSUME NEW x \in OnStack', heads[x] = NoHead, x \in unshiftable, NEW y \in OnStack'
      PROVE  x <= y
  <2>1. CASE x = B(0)
    BY <1>3, <1>4, <1>5, <1>6, <2>1
  <2>2. CASE x # B(0)
    BY <1>1, <1>3, <1>6, <2>2 DEF UnshiftedOnce
  <2>3. QED
    BY <2>1, <2>2
<1>7. UnshiftedOnce'
  BY <1>2, <1>6 DEF UnshiftedOnce
<1>8. QED
  BY <1>1, <1>2, <1>7, PushSpends

LEMMA ReduceSpends ==
  ASSUME BInv, NEW label \in Labels \union {NoLabel}, Reduce(label)
  PROVE  UnshiftedOnce' /\ Budget' < Budget
<1>1. TypeOK /\ LiveInOrder /\ UnshiftedOnce
  BY DEF BInv, IInv
<1>2. /\ StackDepth # 0
      /\ UNCHANGED <<heads, sentStarts>>
  BY <1>1, ValidFacts DEF Reduce
<1>3. CASE Pop /\ UNCHANGED unshiftable
  <2>1. OnStack' \subseteq OnStack
    BY <1>1, <1>2, <1>3, PopMoves
  <2>2. UnshiftedOnce'
    BY <1>1, <1>2, <1>3, <2>1 DEF UnshiftedOnce
  <2>3. unshiftable' = unshiftable \ {}
    BY <1>3
  <2>4. QED
    BY <1>1, <1>2, <1>3, <2>2, <2>3, PopSpends
<1>4. CASE ~(HasHead(S(0)) \/ StackDepth = 1) /\ Unshift
  <2>1. /\ OnStack' = OnStack \ {S(0)} /\ S(0) \in OnStack /\ S(0) \in Tokens
        /\ OnStack \subseteq Tokens /\ Tokens \subseteq Int
        /\ S(0) = stack[Len(stack)] /\ Len(stack) \in Nat \ {0}
    BY <1>1, <1>2, <1>4, UnshiftMoves, TopIsLast, StackTop, LiveFacts, PositionFacts
  <2>2. unshiftable' = unshiftable \union {S(0)}
    BY <1>4 DEF Unshift
  <2>3. UnshiftedOnce'
    BY <1>1, <1>2, <2>1, <2>2 DEF UnshiftedOnce
  <2>4. Len(stack) - 1 \in 1..Len(stack) /\ stack[Len(stack) - 1] < S(0)
    <3>1. Len(stack) # 1
      BY <1>4 DEF StackDepth
    <3>2. Len(stack) - 1 \in 1..Len(stack) /\ Len(stack) \in 1..Len(stack) /\ Len(stack) - 1 < Len(stack)
      <4> DEFINE n == Len(stack)
      <4>1. n \in Nat \ {0} /\ n # 1
        BY <2>1, <3>1
      <4> HIDE DEF n
      <4>2. n - 1 \in 1..n /\ n \in 1..n /\ n - 1 < n
        BY <4>1
      <4>3. QED
        BY <4>2 DEF n
    <3>3. QED
      BY <1>1, <2>1, <3>2 DEF LiveInOrder
  <2>5. stack[Len(stack) - 1] \in OnStack
    BY <2>4 DEF OnStack
  <2>6. heads[S(0)] = NoHead
    BY <1>1, <1>4, <2>1 DEF HasHead, NoHead, TypeOK, Tokens
  <2>7. S(0) \notin unshiftable
    <3>1. ~(S(0) <= stack[Len(stack) - 1])
      <4>1. S(0) \in Int /\ stack[Len(stack) - 1] \in Int
        BY <2>1, <2>5
      <4>2. QED
        BY <2>4, <4>1
    <3>2. QED
      BY <1>1, <2>1, <2>5, <2>6, <3>1 DEF UnshiftedOnce
  <2>8. QED
    BY <1>1, <1>2, <1>4, <2>3, <2>7, UnshiftSpends
<1>5. QED
  BY <1>3, <1>4 DEF Reduce

LEMMA LeftSpends ==
  ASSUME BInv, NEW label \in Labels \union {NoLabel}, Left(label)
  PROVE  UnshiftedOnce' /\ Budget' < Budget
<1>1. TypeOK /\ LiveInOrder /\ UnshiftedOnce
  BY DEF BInv, IInv
<1>2. /\ StackDepth # 0 /\ Pop /\ sentStarts' = sentStarts
      /\ unshiftable' = unshiftable \ {B(0)}
      /\ heads' = [heads EXCEPT ![S(0)] = B(0)]
  BY <1>1, ValidFacts DEF Left, AddArc
<1>3. OnStack' = OnStack \ {S(0)} /\ OnStack \subseteq Tokens
  BY <1>1, <1>2, PopMoves, LiveFacts
<1>4. \A x \in OnStack' : heads'[x] = heads[x]
  BY <1>1, <1>2, <1>3 DEF TypeOK
<1>5. UnshiftedOnce'
  BY <1>1, <1>2, <1>3, <1>4 DEF UnshiftedOnce
<1>6. QED
  BY <1>1, <1>2, <1>5, PopSpends

LEMMA RightSpends ==
  ASSUME BInv, NEW label \in Labels \union {NoLabel}, Right(label)
  PROVE  UnshiftedOnce' /\ Budget' < Budget
<1>1. TypeOK /\ LiveInOrder /\ UnshiftedOnce
  BY DEF BInv, IInv
<1>2. /\ StackDepth # 0 /\ BufferLength # 0 /\ Push
      /\ sentStarts' = sentStarts /\ unshiftable' = unshiftable
      /\ heads' = [heads EXCEPT ![B(0)] = S(0)]
  BY <1>1, ValidFacts DEF Right, AddArc
<1>3. /\ OnStack' = OnStack \union {B(0)} /\ B(0) \in Buffered
      /\ \A x \in OnStack : \A y \in Buffered : x < y
      /\ OnStack \subseteq Tokens /\ Tokens \subseteq Int
      /\ B(0) \in Tokens /\ S(0) \in Tokens
  BY <1>1, <1>2, PushMoves, FrontIsFirst, LiveFacts, PositionFacts, StackTop, BufferFront
<1>4. heads'[B(0)] = S(0) /\ S(0) # NoHead /\ \A x \in OnStack : x # B(0) => heads'[x] = heads[x]
  BY <1>1, <1>2, <1>3 DEF TypeOK, NoHead, Tokens
<1>5. ASSUME NEW x \in OnStack', heads'[x] = NoHead, x \in unshiftable, NEW y \in OnStack'
      PROVE  x <= y
  BY <1>1, <1>3, <1>4, <1>5 DEF UnshiftedOnce
<1>6. UnshiftedOnce'
  BY <1>2, <1>5 DEF UnshiftedOnce
<1>7. QED
  BY <1>1, <1>2, <1>6, PushSpends

LEMMA BreakSpends ==
  ASSUME BInv, NEW label \in Labels \union {NoLabel}, Break(label)
  PROVE  UnshiftedOnce' /\ Budget' < Budget
<1>1. TypeOK /\ LiveInOrder /\ UnshiftedOnce
  BY DEF BInv, IInv
<1>2. /\ BufferLength >= 2 /\ B(1) \in Tokens
      /\ sentStarts' = sentStarts \union {B(1)}
      /\ UNCHANGED <<stack, rebuffer, bI, heads, unshiftable>>
  BY <1>1, ValidFacts, BufferSecond DEF Break
<1>3. B(1) \notin sentStarts
  <2>1. BreakValid
    BY Zenon DEF Break, Takes, IsValid
  <2>2. QED
    BY <2>1 DEF BreakValid, IsSentStart
<1>4. OnStack' = OnStack /\ Live' = Live /\ BufferLength' = BufferLength
  BY <1>2 DEF OnStack, Live, BufferLength
<1>5. Tokens \ sentStarts' = (Tokens \ sentStarts) \ {B(1)} /\ B(1) \in Tokens \ sentStarts
  BY <1>2, <1>3
<1>6. Cardinality(Tokens \ sentStarts') = Cardinality(Tokens \ sentStarts) - 1
  BY <1>1, <1>5, Counts, FS_RemoveElement
<1>7. UnshiftedOnce'
  BY <1>1, <1>2, <1>4 DEF UnshiftedOnce
<1>8. Budget' < Budget
  BY <1>1, <1>2, <1>4, <1>6, Counts DEF Budget
<1>9. QED
  BY <1>7, <1>8

LEMMA ForceFinalSpends ==
  ASSUME BInv, ForceFinal
  PROVE  UnshiftedOnce' /\ Budget' < Budget
<1>1. TypeOK /\ LiveInOrder
  BY DEF BInv, IInv
<1>2. /\ ~IsFinal /\ stack' = <<>> /\ rebuffer' = <<>> /\ bI' = N
      /\ UNCHANGED <<unshiftable, sentStarts>>
  BY DEF ForceFinal
<1>3. OnStack' = {} /\ Live' = {} /\ BufferLength' = 0
  BY <1>2, NAssumption DEF OnStack, Live, BufferLength
<1>4. Cardinality(Live') = 0 /\ Cardinality(Live' \ unshiftable') = 0
  <2>1. Live' \ unshiftable' = {}
    BY <1>3
  <2>2. QED
    BY <1>3, <2>1, FS_EmptySet
<1>5. Cardinality(Live) > 0 \/ BufferLength > 0
  <2>1. CASE StackDepth # 0
    <3>1. S(0) \in Live
      BY <1>1, <2>1, TopIsLast, LiveFacts
    <3>2. Cardinality(Live) # 0
      BY <1>1, <3>1, Counts, FS_EmptySet
    <3>3. QED
      BY <1>1, <3>2, Counts
  <2>2. CASE BufferLength # 0
    BY <1>1, <2>2, Counts
  <2>3. QED
    BY <1>2, <2>1, <2>2 DEF IsFinal
<1>6. Budget' < Budget
  <2>1. Cardinality(Tokens \ sentStarts') = Cardinality(Tokens \ sentStarts)
    BY <1>2
  <2>2. /\ Cardinality(Live) \in Nat /\ Cardinality(Live \ unshiftable) \in Nat
        /\ Cardinality(Tokens \ sentStarts) \in Nat /\ BufferLength \in Nat
    BY <1>1, Counts
  <2>3. Budget' = 3 * 0 + 2 * 0 + Cardinality(Tokens \ sentStarts) + 0
    BY <1>3, <1>4, <2>1 DEF Budget
  <2>4. QED
    BY <1>5, <2>2, <2>3 DEF Budget
<1>7. QED
  BY <1>3, <1>6 DEF UnshiftedOnce

(* One step of the parser, or none.                                          *)
LEMMA StepSpends == BInv /\ Step => UnshiftedOnce' /\ Budget' < Budget
  BY ShiftSpends, ReduceSpends, LeftSpends, RightSpends, BreakSpends, ForceFinalSpends DEF Step

LEMMA NextBInv == BInv /\ [Next]_vars => BInv'
<1>1. SUFFICES ASSUME BInv, [Next]_vars PROVE BInv'
  OBVIOUS
<1>2. IInv'
  BY <1>1, NextIInv DEF BInv
<1>3. CASE Step
  BY <1>1, <1>2, <1>3, StepSpends DEF BInv
<1>4. CASE WriteBack \/ UNCHANGED vars
  <2>1. UNCHANGED <<stack, heads, unshiftable>>
    BY <1>4 DEF WriteBack, vars
  <2>2. UnshiftedOnce'
    BY <1>1, <2>1 DEF BInv, UnshiftedOnce, OnStack
  <2>3. QED
    BY <1>2, <2>2 DEF BInv
<1>5. QED
  BY <1>1, <1>3, <1>4 DEF Next

(* The invariant holds throughout every parse.                               *)
THEOREM OnceUnshifted == Spec => []BInv
<1>1. Init => BInv
  <2>1. Init => OnStack = {}
    BY DEF Init, OnStack
  <2>2. QED
    BY <2>1, InitIInv DEF BInv, UnshiftedOnce
<1>2. QED
  BY <1>1, NextBInv, PTL DEF Spec

(* A parse starts with a budget below 7N.                                    *)
LEMMA InitialBudget == Init => Budget = 7 * N - 1
<1>1. SUFFICES ASSUME Init PROVE Budget = 7 * N - 1
  OBVIOUS
<1>2. N \in Nat \ {0}
  BY NAssumption
<1>3. Len(stack) = 0 /\ Len(rebuffer) = 0 /\ bI = 0 /\ unshiftable = {} /\ sentStarts = {0}
  BY <1>1 DEF Init
<1>4. Live = Tokens /\ Live \ unshiftable = Tokens /\ Tokens \ sentStarts = Tokens \ {0} /\ BufferLength = N
  BY <1>2, <1>3 DEF Live, Tokens, BufferLength
<1>5. IsFiniteSet(Tokens) /\ Cardinality(Tokens) = N /\ 0 \in Tokens
  BY <1>2, FS_Interval DEF Tokens
<1>6. Cardinality(Tokens \ {0}) = N - 1
  BY <1>5, FS_RemoveElement
<1>7. /\ Cardinality(Live) = N /\ Cardinality(Live \ unshiftable) = N
      /\ Cardinality(Tokens \ sentStarts) = N - 1 /\ BufferLength = N
  BY <1>4, <1>5, <1>6
<1>8. QED
  BY <1>2, <1>7 DEF Budget

(* The budget is never negative.                                             *)
LEMMA BudgetNatural == BInv => Budget >= 0
  BY Counts DEF BInv, IInv, Budget

(* Every pass of the decode loop lowers the budget, which never falls below     *)
(* zero: the loop ends, whatever the table and whichever valid transition    *)
(* the scores prefer.                                                       *)
THEOREM LoopEnds == Spec => BudgetDecreases
<1>1. BInv /\ BInv' /\ (Budget >= 0)' /\ [Next]_vars
        => [pc = "decode" /\ pc' = "decode" => Budget' < Budget /\ Budget' >= 0]_vars
  <2>1. SUFFICES ASSUME BInv, BInv', (Budget >= 0)', Next, pc' = "decode"
                 PROVE  Budget' < Budget /\ Budget' >= 0
    BY DEF vars
  <2>2. Step
    BY <2>1 DEF Next, WriteBack
  <2>3. QED
    BY <2>1, <2>2, StepSpends
<1>2. QED
  BY <1>1, OnceUnshifted, BudgetNatural, PTL DEF Spec, BudgetDecreases
=============================================================================
