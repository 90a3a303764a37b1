----------------------------- MODULE BiluoProofs -----------------------------
(***************************************************************************)
(* Proofs about the greedy recognizer, for documents of any length, any     *)
(* labels and any transition tables: the types and bounds of the decode,    *)
(* room for every open entity, no entity dropped under a table that can     *)
(* leave, the agreement of the two write-backs, and the refinement of       *)
(* EntityChunks.                                                            *)
(***************************************************************************)
EXTENDS Biluo, TLAPS

-----------------------------------------------------------------------------
(* The inductive invariant.                                                *)

(* The open entity: begun by the table, before the buffer, coded from its     *)
(* first token on, inside one sentence and with a token left to end at.       *)
OpenOK ==
  /\ EntityIsOpen =>
       /\ entOpenLabel \in Labels
       /\ [move |-> "BEGIN", label |-> entOpenLabel] \in table
       /\ entOpen < bI
       /\ entIOB[entOpen] = Begins
  /\ EntityIsOpen /\ ~IsFinal =>
       /\ \A s \in sentStarts : ~(entOpen < s /\ s <= bI)
       /\ \A t \in Tokens : entOpen < t /\ t < bI => entIOB[t] = Inside
  /\ CanLeave /\ IsFinal => ~EntityIsOpen

(* The tokens before the buffer have codes; an Inside or Begins code belongs *)
(* to a recorded span or to the open entity.                                 *)
Indices == 1..Len(entities)
CodesOK ==
  /\ \A t \in Tokens : entIOB[t] = Missing <=> bI <= t
  /\ \A t \in Tokens : entIOB[t] = Inside =>
       \/ \E k \in Indices : entities[k].start < t /\ t < entities[k].end
       \/ EntityIsOpen /\ entOpen < t
  /\ \A t \in Tokens : entIOB[t] = Begins =>
       \/ \E k \in Indices : entities[k].start = t
       \/ EntityIsOpen /\ entOpen = t

(* A recorded span lies before the buffer and the open entity, has the codes *)
(* of an entity, and starts after the spans recorded before it.              *)
SpanOK(k) ==
  /\ entities[k].start < entities[k].end /\ entities[k].end <= bI
  /\ EntityIsOpen => entities[k].end <= entOpen
  /\ entIOB[entities[k].start] = Begins
  /\ \A t \in Tokens : entities[k].start < t /\ t < entities[k].end => entIOB[t] = Inside
SpansOK == \A k \in Indices : SpanOK(k)
Ordered == \A j, k \in Indices : j < k => entities[j].end <= entities[k].start

DocOK ==
  pc = "done" => IsFinal /\ doc = [t \in Tokens |-> [iob |-> entIOB[t], type |-> EntTypeOf(t)]]

IInv == TypeOK /\ OpenOK /\ CodesOK /\ SpansOK /\ Ordered /\ DocOK

-----------------------------------------------------------------------------
(* The state of a decode.                                                  *)

(* The types, in the form the steps below use them.                          *)
LEMMA Positions ==
  ASSUME TypeOK
  PROVE  /\ N \in Nat /\ N > 0 /\ bI \in Nat /\ bI <= N
         /\ \A t : t \in Tokens <=> t \in Nat /\ t < N
         /\ entOpen \in Int /\ (EntityIsOpen => entOpen \in Tokens)
         /\ IsFinal <=> bI = N
         /\ sentStarts \subseteq Tokens
         /\ entities \in Seq(Span) /\ Len(entities) \in Nat
         /\ \A k \in Indices : /\ entities[k] \in Span /\ entities[k].start \in Tokens
                               /\ entities[k].end \in 1..N /\ entities[k].label \in Labels
<1>1. N \in Nat /\ N > 0 /\ bI \in Nat /\ bI <= N /\ \A t : t \in Tokens <=> t \in Nat /\ t < N
  BY NAssumption DEF TypeOK, Tokens
<1>2. entOpen \in Int /\ (EntityIsOpen => entOpen \in Tokens) /\ sentStarts \subseteq Tokens
  BY <1>1 DEF TypeOK, EntityIsOpen
<1>3. IsFinal <=> bI = N
  BY <1>1 DEF IsFinal, BufferLength
<1>4. entities \in Seq(Span) /\ Len(entities) \in Nat
  BY DEF TypeOK
<1>5. \A k \in Indices : entities[k] \in Span
  BY <1>4 DEF Indices
<1>6. QED
  BY <1>1, <1>2, <1>3, <1>4, <1>5 DEF Span

(* What each transition asks of the state.                                   *)
LEMMA Guards ==
  ASSUME NEW label
  PROVE  /\ IsValid([move |-> "BEGIN", label |-> label])
              <=> ~EntityIsOpen /\ label # NoLabel /\ NextTokenInSentence
         /\ IsValid([move |-> "IN", label |-> label]) <=> Continues(label) /\ NextTokenInSentence
         /\ IsValid([move |-> "LAST", label |-> label]) <=> Continues(label)
         /\ IsValid([move |-> "UNIT", label |-> label])
              <=> ~EntityIsOpen /\ BufferLength # 0 /\ label # NoLabel
         /\ IsValid([move |-> "OUT", label |-> label]) <=> ~EntityIsOpen /\ BufferLength # 0
  BY DEF IsValid

(* A transition consumes a token that has no code yet.                       *)
LEMMA Consumes ==
  ASSUME TypeOK, NEW move, NEW label, Takes(move, label)
  PROVE  /\ bI \in Tokens /\ bI' = bI + 1 /\ bI' \in 0..N
         /\ pc = "decode" /\ pc' = "decode" /\ doc' = doc /\ table' = table /\ sentStarts' = sentStarts
         /\ [move |-> move, label |-> label] \in table
         /\ label \in Labels \union {NoLabel}
         /\ IsValid([move |-> move, label |-> label])
<1>1. bI \in Tokens /\ bI' = bI + 1 /\ bI' \in 0..N
  BY Positions DEF Takes
<1>2. [move |-> move, label |-> label] \in [move : Moves, label : Labels \union {NoLabel}]
  BY TablesAssumption DEF Takes, TypeOK
<1>3. QED
  BY <1>1, <1>2 DEF Takes

(* A token gets a code when it is consumed, and only then.                   *)
LEMMA CodeWritten ==
  ASSUME TypeOK, bI \in Tokens, NEW code \in {Inside, Outside, Begins}, SetEntIOB(code)
  PROVE  /\ entIOB'[bI] = code
         /\ \A t \in Tokens : t # bI => entIOB'[t] = entIOB[t]
         /\ entIOB' \in [Tokens -> {Missing, Inside, Outside, Begins}]
         /\ code # Missing
  BY DEF SetEntIOB, TypeOK, Missing, Inside, Outside, Begins

-----------------------------------------------------------------------------
(* The steps.                                                              *)

LEMMA InitInv == Init => IInv
<1> SUFFICES ASSUME Init PROVE IInv
  OBVIOUS
<1>1. TypeOK
  BY NAssumption DEF Init, TypeOK, Tokens, Missing
<1>2. ~EntityIsOpen /\ Indices = {} /\ ~IsFinal /\ pc # "done"
  BY NAssumption DEF Init, EntityIsOpen, Indices, IsFinal, BufferLength
<1>3. CodesOK
  BY <1>2 DEF Init, CodesOK, Tokens, Missing, Inside, Begins
<1>4. QED
  BY <1>1, <1>2, <1>3 DEF IInv, OpenOK, SpansOK, Ordered, DocOK

(* BEGIN opens an entity at the consumed token; the look-ahead leaves it a   *)
(* next token in its sentence.                                               *)
LEMMA BeginInv ==
  ASSUME IInv, NEW label, Begin(label)
  PROVE  IInv'
<1>1. TypeOK /\ OpenOK /\ CodesOK /\ SpansOK /\ Ordered
  BY DEF IInv
<1>2. /\ bI \in Tokens /\ bI' = bI + 1 /\ bI' \in 0..N
      /\ pc = "decode" /\ pc' = "decode" /\ doc' = doc /\ table' = table /\ sentStarts' = sentStarts
      /\ [move |-> "BEGIN", label |-> label] \in table
      /\ label \in Labels \union {NoLabel}
      /\ ~EntityIsOpen /\ label # NoLabel /\ NextTokenInSentence
      /\ entOpen' = bI /\ entOpenLabel' = label /\ entities' = entities
  BY <1>1, Consumes, Guards DEF Begin
<1>3. /\ entIOB'[bI] = Begins
      /\ \A t \in Tokens : t # bI => entIOB'[t] = entIOB[t]
      /\ entIOB' \in [Tokens -> {Missing, Inside, Outside, Begins}]
  BY <1>1, <1>2, CodeWritten DEF Begin
<1>4. TypeOK'
  BY <1>1, <1>2, <1>3 DEF TypeOK
<1>5. EntityIsOpen' /\ ~IsFinal' /\ bI + 1 \notin sentStarts /\ Indices' = Indices
  BY <1>1, <1>2, Positions DEF EntityIsOpen, IsFinal, NextTokenInSentence, B1StartsSentence, BufferLength,
                               Indices
<1>6. OpenOK'
  <2>1. \A s \in sentStarts' : ~(entOpen' < s /\ s <= bI')
    BY <1>1, <1>2, <1>5, Positions
  <2>2. QED
    BY <1>1, <1>2, <1>3, <1>5, <2>1, Positions DEF OpenOK
<1>7. CodesOK'
  BY <1>1, <1>2, <1>3, <1>5, Positions DEF CodesOK, Missing, Inside, Begins
<1>8. SpansOK'
  BY <1>1, <1>2, <1>3, <1>5, Positions DEF SpansOK, SpanOK
<1>9. QED
  BY <1>1, <1>2, <1>4, <1>5, <1>6, <1>7, <1>8 DEF IInv, Ordered, DocOK

(* IN carries the open entity on, with the same look-ahead.                  *)
LEMMA InInv ==
  ASSUME IInv, NEW label, In(label)
  PROVE  IInv'
<1>1. TypeOK /\ OpenOK /\ CodesOK /\ SpansOK /\ Ordered
  BY DEF IInv
<1>2. /\ bI \in Tokens /\ bI' = bI + 1 /\ bI' \in 0..N
      /\ pc = "decode" /\ pc' = "decode" /\ doc' = doc /\ table' = table /\ sentStarts' = sentStarts
      /\ EntityIsOpen /\ NextTokenInSentence
      /\ entOpen' = entOpen /\ entOpenLabel' = entOpenLabel /\ entities' = entities
  BY <1>1, Consumes, Guards DEF In, Continues
<1>3. /\ entIOB'[bI] = Inside
      /\ \A t \in Tokens : t # bI => entIOB'[t] = entIOB[t]
      /\ entIOB' \in [Tokens -> {Missing, Inside, Outside, Begins}]
  BY <1>1, <1>2, CodeWritten DEF In
<1>4. TypeOK'
  BY <1>1, <1>2, <1>3 DEF TypeOK
<1>5. /\ EntityIsOpen' /\ ~IsFinal /\ ~IsFinal' /\ bI + 1 \notin sentStarts /\ Indices' = Indices
      /\ entOpen \in Tokens /\ entOpen < bI
  BY <1>1, <1>2, Positions DEF EntityIsOpen, IsFinal, NextTokenInSentence, B1StartsSentence, BufferLength,
                               Indices, OpenOK
<1>6. OpenOK'
  <2>1. \A s \in sentStarts' : ~(entOpen' < s /\ s <= bI')
    BY <1>1, <1>2, <1>5, Positions DEF OpenOK
  <2>2. \A t \in Tokens : entOpen' < t /\ t < bI' => entIOB'[t] = Inside
    BY <1>1, <1>2, <1>3, <1>5, Positions DEF OpenOK
  <2>3. QED
    BY <1>1, <1>2, <1>3, <1>5, <2>1, <2>2, Positions DEF OpenOK
<1>7. CodesOK'
  BY <1>1, <1>2, <1>3, <1>5, Positions DEF CodesOK, Missing, Inside, Begins
<1>8. SpansOK'
  BY <1>1, <1>2, <1>3, <1>5, Positions DEF SpansOK, SpanOK
<1>9. QED
  BY <1>1, <1>2, <1>4, <1>5, <1>6, <1>7, <1>8 DEF IInv, Ordered, DocOK

(* What RecordEntity appends.                                                *)
LEMMA Recorded ==
  ASSUME TypeOK, NEW e \in Span, entities' = Append(entities, e)
  PROVE  /\ Len(entities) \in Nat /\ Len(entities') = Len(entities) + 1
         /\ entities' \in Seq(Span)
         /\ entities'[Len(entities) + 1] = e
         /\ \A k \in Indices : entities'[k] = entities[k]
         /\ Indices' = Indices \union {Len(entities) + 1}
         /\ \A k \in Indices : k < Len(entities) + 1
<1>1. entities \in Seq(Span) /\ Len(entities) \in Nat
  BY Positions
<1>2. /\ Len(entities') = Len(entities) + 1 /\ entities' \in Seq(Span)
      /\ entities'[Len(entities) + 1] = e
      /\ \A k \in 1..Len(entities) : entities'[k] = entities[k]
  BY <1>1
<1>3. QED
  BY <1>1, <1>2 DEF Indices

(* LAST and UNIT record an entity that ends at the consumed token: the open  *)
(* one, or that token alone.                                                 *)
LEMMA RecordInv ==
  ASSUME IInv, NEW start, NEW label \in Labels, NEW code \in {Inside, Begins},
         bI \in Tokens, bI' = bI + 1, bI' \in 0..N,
         pc = "decode", pc' = "decode", doc' = doc, table' = table, sentStarts' = sentStarts,
         SetEntIOB(code), RecordEntity(start, label),
         \/ EntityIsOpen /\ start = entOpen /\ code = Inside
         \/ ~EntityIsOpen /\ start = bI /\ code = Begins
  PROVE  IInv'
<1> DEFINE e == [start |-> start, end |-> bI + 1, label |-> label]
<1> PICK new : new = Len(entities) + 1
  OBVIOUS
<1>1. TypeOK /\ OpenOK /\ CodesOK /\ SpansOK /\ Ordered
  BY DEF IInv
<1>2. /\ entIOB'[bI] = code
      /\ \A t \in Tokens : t # bI => entIOB'[t] = entIOB[t]
      /\ entIOB' \in [Tokens -> {Missing, Inside, Outside, Begins}]
  BY <1>1, CodeWritten
<1>3. /\ start \in Tokens /\ start <= bI /\ bI < N /\ ~IsFinal
      /\ EntityIsOpen => start < bI /\ entIOB[start] = Begins
      /\ EntityIsOpen => \A t \in Tokens : start < t /\ t < bI => entIOB[t] = Inside
  BY <1>1, Positions DEF OpenOK
<1>4. e \in Span
  BY <1>1, <1>3, Positions DEF Span, Tokens
<1>5. entities' = Append(entities, e) /\ entOpen' = -1 /\ entOpenLabel' = NoLabel
  BY DEF RecordEntity
<1>6. /\ Len(entities) \in Nat /\ entities' \in Seq(Span) /\ entities'[new] = e
      /\ \A k \in Indices : entities'[k] = entities[k]
      /\ Indices' = Indices \union {new}
      /\ \A k \in Indices : k < new
  BY <1>1, <1>4, <1>5, Recorded
<1>7. e.start = start /\ e.end = bI + 1
  OBVIOUS
<1> HIDE DEF e
<1>8. ~EntityIsOpen'
  BY <1>5 DEF EntityIsOpen
<1>9. TypeOK'
  BY <1>1, <1>2, <1>5, <1>6 DEF TypeOK
<1>10. OpenOK'
  BY <1>8 DEF OpenOK
<1>11. CodesOK'
  <2>1. \A t \in Tokens : entIOB'[t] = Missing <=> bI' <= t
    BY <1>1, <1>2, Positions DEF CodesOK, Missing, Inside, Begins
  <2>2. ASSUME NEW t \in Tokens, entIOB'[t] = Inside
        PROVE  \E k \in Indices' : entities'[k].start < t /\ t < entities'[k].end
    <3>1. CASE t = bI
      BY <1>2, <1>3, <1>6, <1>7, <2>2, <3>1, <1>1, Positions DEF Inside, Begins
    <3>2. CASE t # bI
      <4>1. entIOB[t] = Inside /\ t < bI
        BY <1>1, <1>2, <2>2, <3>2, Positions DEF CodesOK, Missing, Inside
      <4>2. \/ \E k \in Indices : entities[k].start < t /\ t < entities[k].end
            \/ EntityIsOpen /\ entOpen < t
        BY <1>1, <4>1 DEF CodesOK
      <4>3. CASE EntityIsOpen /\ entOpen < t
        BY <1>1, <1>3, <1>6, <1>7, <4>1, <4>3, Positions
      <4>4. CASE \E k \in Indices : entities[k].start < t /\ t < entities[k].end
        BY <1>6, <4>4
      <4>5. QED
        BY <4>2, <4>3, <4>4
    <3>3. QED
      BY <3>1, <3>2
  <2>3. ASSUME NEW t \in Tokens, entIOB'[t] = Begins
        PROVE  \E k \in Indices' : entities'[k].start = t
    <3>1. CASE t = bI
      BY <1>2, <1>6, <1>7, <2>3, <3>1 DEF Inside, Begins
    <3>2. CASE t # bI
      <4>1. \/ \E k \in Indices : entities[k].start = t
            \/ EntityIsOpen /\ entOpen = t
        BY <1>1, <1>2, <2>3, <3>2 DEF CodesOK
      <4>2. QED
        BY <1>6, <1>7, <4>1
    <3>3. QED
      BY <3>1, <3>2
  <2>4. QED
    BY <2>1, <2>2, <2>3 DEF CodesOK
<1>12. SpansOK'
  <2>1. ASSUME NEW k \in Indices PROVE SpanOK(k)'
    <3>1. SpanOK(k) /\ entities'[k] = entities[k]
      BY <1>1, <1>6 DEF SpansOK
    <3>2. \A t \in Tokens : t < entities[k].end => entIOB'[t] = entIOB[t]
      BY <1>1, <1>2, <3>1, Positions DEF SpanOK
    <3>3. QED
      BY <1>1, <1>8, <3>1, <3>2, Positions DEF SpanOK
  <2>2. SpanOK(new)'
    <3>1. entIOB'[start] = Begins
      BY <1>1, <1>2, <1>3, Positions
    <3>2. \A t \in Tokens : start < t /\ t < bI + 1 => entIOB'[t] = Inside
      BY <1>1, <1>2, <1>3, Positions
    <3>3. QED
      BY <1>1, <1>3, <1>6, <1>7, <1>8, <3>1, <3>2, Positions DEF SpanOK
  <2>3. QED
    BY <1>6, <2>1, <2>2 DEF SpansOK
<1>13. Ordered'
  <2>1. \A j \in Indices : entities[j].end <= start
    BY <1>1, Positions DEF SpansOK, SpanOK
  <2>2. QED
    BY <1>1, <1>6, <1>7, <2>1 DEF Ordered, Indices
<1>14. QED
  BY <1>9, <1>10, <1>11, <1>12, <1>13 DEF IInv, DocOK

LEMMA LastInv ==
  ASSUME IInv, NEW label, Last(label)
  PROVE  IInv'
<1>1. /\ bI \in Tokens /\ bI' = bI + 1 /\ bI' \in 0..N
      /\ pc = "decode" /\ pc' = "decode" /\ doc' = doc /\ table' = table /\ sentStarts' = sentStarts
      /\ EntityIsOpen /\ entOpenLabel \in Labels
  BY Consumes, Guards DEF IInv, OpenOK, Last, Continues
<1>2. QED
  BY <1>1, RecordInv DEF Last

LEMMA UnitInv ==
  ASSUME IInv, NEW label, Unit(label)
  PROVE  IInv'
<1>1. /\ bI \in Tokens /\ bI' = bI + 1 /\ bI' \in 0..N
      /\ pc = "decode" /\ pc' = "decode" /\ doc' = doc /\ table' = table /\ sentStarts' = sentStarts
      /\ ~EntityIsOpen /\ label \in Labels
  BY Consumes, Guards DEF IInv, Unit
<1>2. QED
  BY <1>1, RecordInv DEF Unit

LEMMA OutInv ==
  ASSUME IInv, NEW label, Out(label)
  PROVE  IInv'
<1>1. TypeOK /\ OpenOK /\ CodesOK /\ SpansOK /\ Ordered
  BY DEF IInv
<1>2. /\ bI \in Tokens /\ bI' = bI + 1 /\ bI' \in 0..N
      /\ pc = "decode" /\ pc' = "decode" /\ doc' = doc /\ table' = table /\ sentStarts' = sentStarts
      /\ ~EntityIsOpen
      /\ entOpen' = entOpen /\ entOpenLabel' = entOpenLabel /\ entities' = entities
  BY <1>1, Consumes, Guards DEF Out
<1>3. /\ entIOB'[bI] = Outside
      /\ \A t \in Tokens : t # bI => entIOB'[t] = entIOB[t]
      /\ entIOB' \in [Tokens -> {Missing, Inside, Outside, Begins}]
  BY <1>1, <1>2, CodeWritten DEF Out
<1>4. TypeOK'
  BY <1>1, <1>2, <1>3 DEF TypeOK
<1>5. ~EntityIsOpen' /\ Indices' = Indices
  BY <1>2 DEF EntityIsOpen, Indices
<1>6. CodesOK'
  BY <1>1, <1>2, <1>3, <1>5, Positions DEF CodesOK, Missing, Inside, Outside, Begins
<1>7. SpansOK'
  BY <1>1, <1>2, <1>3, <1>5, Positions DEF SpansOK, SpanOK
<1>8. QED
  BY <1>1, <1>2, <1>4, <1>5, <1>6, <1>7 DEF IInv, OpenOK, Ordered, DocOK

(* A table that can leave has a valid transition for every token: LAST under *)
(* the label of the open entity, OUT when none is open.                      *)
LEMMA CanLeaveMoves ==
  ASSUME TypeOK, OpenOK, CanLeave, ~IsFinal
  PROVE  \E tr \in table : IsValid(tr)
<1>1. CASE EntityIsOpen
  <2>1. [[move |-> "BEGIN", label |-> entOpenLabel] EXCEPT !.move = "LAST"] \in table
    BY <1>1 DEF OpenOK, CanLeave
  <2>2. [move |-> "LAST", label |-> entOpenLabel] \in table
    BY <2>1
  <2>3. IsValid([move |-> "LAST", label |-> entOpenLabel])
    BY <1>1, Guards, LabelAssumption DEF OpenOK, Continues
  <2>4. QED
    BY <2>2, <2>3
<1>2. CASE ~EntityIsOpen
  <2>1. PICK tr \in table : tr.move = "OUT"
    BY DEF CanLeave
  <2>2. tr.move = "OUT" /\ BufferLength # 0
    BY <2>1 DEF IsFinal
  <2>3. IsValid(tr)
    BY <1>2, <2>2 DEF IsValid
  <2>4. QED
    BY <2>3
<1>3. QED
  BY <1>1, <1>2

(* The forced end, which no table that can leave meets.                      *)
LEMMA ForceFinalInv ==
  ASSUME IInv, ForceFinal
  PROVE  IInv'
<1>1. TypeOK /\ OpenOK /\ CodesOK /\ SpansOK /\ Ordered
  BY DEF IInv
<1>2. /\ pc = "decode" /\ pc' = "decode" /\ doc' = doc /\ table' = table /\ sentStarts' = sentStarts
      /\ entOpen' = entOpen /\ entOpenLabel' = entOpenLabel /\ entities' = entities
      /\ ~IsFinal /\ bI' = N
      /\ \A t \in Tokens : entIOB'[t] = IF entIOB[t] = Missing THEN Outside ELSE entIOB[t]
      /\ entIOB' \in [Tokens -> {Missing, Inside, Outside, Begins}]
  BY <1>1 DEF ForceFinal, TypeOK
<1>3. ~CanLeave
  BY <1>1, CanLeaveMoves DEF ForceFinal
<1>4. TypeOK'
  BY <1>1, <1>2, Positions DEF TypeOK
<1>5. EntityIsOpen' = EntityIsOpen /\ Indices' = Indices /\ IsFinal' /\ CanLeave' = CanLeave
  BY <1>1, <1>2, Positions DEF EntityIsOpen, Indices, IsFinal, BufferLength, CanLeave
<1>6. OpenOK'
  BY <1>1, <1>2, <1>3, <1>5, Positions DEF OpenOK, Missing, Begins
<1>7. CodesOK'
  BY <1>1, <1>2, <1>5, Positions DEF CodesOK, Missing, Inside, Outside, Begins
<1>8. SpansOK'
  BY <1>1, <1>2, <1>5, Positions DEF SpansOK, SpanOK, Missing, Inside, Begins
<1>9. QED
  BY <1>1, <1>2, <1>4, <1>5, <1>6, <1>7, <1>8 DEF IInv, Ordered, DocOK

-----------------------------------------------------------------------------
(* The write-back.                                                         *)

(* Spans are disjoint, so the type written to a token last is that of the    *)
(* only span that covers it.                                                 *)
LEMMA OneSpan ==
  ASSUME TypeOK, SpansOK, Ordered, NEW t \in Tokens,
         NEW j \in Indices, NEW k \in Indices,
         entities[j].start <= t, t < entities[j].end, entities[k].start <= t, t < entities[k].end
  PROVE  j = k
<1>1. ~(j < k) /\ ~(k < j)
  BY Positions DEF Ordered
<1>2. QED
  BY <1>1 DEF Indices

LEMMA TypeWritten ==
  ASSUME TypeOK, SpansOK, Ordered, NEW t \in Tokens
  PROVE  /\ \A k \in Indices : entities[k].start <= t /\ t < entities[k].end
                                 => EntTypeOf(t) = entities[k].label
         /\ (\A k \in Indices : ~(entities[k].start <= t /\ t < entities[k].end))
              => EntTypeOf(t) = NoLabel
         /\ EntTypeOf(t) \in Labels \union {NoLabel}
<1> DEFINE over == {k \in Indices : entities[k].start <= t /\ t < entities[k].end}
<1>1. EntTypeOf(t) = IF over = {} THEN NoLabel
                     ELSE entities[CHOOSE k \in over : \A j \in over : j <= k].label
  BY DEF EntTypeOf, Indices
<1>2. ASSUME NEW k \in over PROVE EntTypeOf(t) = entities[k].label
  <2>1. over = {k}
    BY <1>2, OneSpan
  <2>2. (CHOOSE i \in over : \A j \in over : j <= i) = k
    BY <2>1 DEF Indices
  <2>3. QED
    BY <1>1, <2>1, <2>2
<1>3. over = {} => EntTypeOf(t) = NoLabel
  BY <1>1
<1>4. QED
  BY <1>2, <1>3, Positions

LEMMA WriteBackInv ==
  ASSUME IInv, WriteBack
  PROVE  IInv'
<1>1. TypeOK /\ OpenOK /\ CodesOK /\ SpansOK /\ Ordered
  BY DEF IInv
<1>2. /\ pc' = "done" /\ IsFinal
      /\ doc' = [t \in Tokens |-> [iob |-> entIOB[t], type |-> EntTypeOf(t)]]
      /\ bI' = bI /\ sentStarts' = sentStarts /\ entOpen' = entOpen /\ entOpenLabel' = entOpenLabel
      /\ entIOB' = entIOB /\ entities' = entities /\ table' = table
  BY DEF WriteBack
<1>3. doc' \in [Tokens -> [iob : {Missing, Inside, Outside, Begins}, type : Labels \union {NoLabel}]]
  BY <1>1, <1>2, TypeWritten DEF TypeOK
<1>4. TypeOK'
  BY <1>1, <1>2, <1>3 DEF TypeOK
<1>5. OpenOK' /\ CodesOK' /\ SpansOK' /\ Ordered'
  BY <1>1, <1>2 DEF OpenOK, CodesOK, SpansOK, SpanOK, Ordered, Indices, EntityIsOpen, IsFinal, BufferLength,
                    CanLeave
<1>6. DocOK'
  BY <1>2 DEF DocOK, IsFinal, BufferLength, EntTypeOf
<1>7. QED
  BY <1>4, <1>5, <1>6 DEF IInv

-----------------------------------------------------------------------------
(* The theorems.                                                           *)

LEMMA StutterInv ==
  ASSUME IInv, UNCHANGED vars
  PROVE  IInv'
<1>1. TypeOK' /\ OpenOK'
  BY DEF IInv, vars, TypeOK, OpenOK, EntityIsOpen, IsFinal, BufferLength, CanLeave
<1>2. CodesOK' /\ SpansOK' /\ Ordered'
  BY DEF IInv, vars, CodesOK, SpansOK, SpanOK, Ordered, Indices, EntityIsOpen
<1>3. DocOK'
  BY DEF IInv, vars, DocOK, IsFinal, BufferLength, EntTypeOf
<1>4. QED
  BY <1>1, <1>2, <1>3 DEF IInv

(* The recognizer keeps its positions, spans and write-back within the        *)
(* document, and its codes in step with the entities it records.             *)
THEOREM Decoding == Spec => []IInv
<1>1. IInv /\ [Next]_vars => IInv'
  <2> SUFFICES ASSUME IInv, [Next]_vars PROVE IInv'
    OBVIOUS
  <2>1. ASSUME NEW label, Begin(label) PROVE IInv'
    BY <2>1, BeginInv
  <2>2. ASSUME NEW label, In(label) PROVE IInv'
    BY <2>2, InInv
  <2>3. ASSUME NEW label, Last(label) PROVE IInv'
    BY <2>3, LastInv
  <2>4. ASSUME NEW label, Unit(label) PROVE IInv'
    BY <2>4, UnitInv
  <2>5. ASSUME NEW label, Out(label) PROVE IInv'
    BY <2>5, OutInv
  <2>6. CASE ForceFinal
    BY <2>6, ForceFinalInv
  <2>7. CASE WriteBack
    BY <2>7, WriteBackInv
  <2>8. CASE UNCHANGED vars
    BY <2>8, StutterInv
  <2>9. QED
    BY <2>1, <2>2, <2>3, <2>4, <2>5, <2>6, <2>7, <2>8 DEF Next, Step
<1>2. QED
  BY <1>1, InitInv, PTL DEF Spec

(* No transition reads or records past the document (TypeOK).                *)
THEOREM InDocument == Spec => []TypeOK
<1>1. IInv => TypeOK
  BY DEF IInv
<1>2. QED
  BY <1>1, Decoding, PTL

(* An open entity always has a token left in its sentence to end at.         *)
THEOREM RoomToClose == Spec => []OpenEntityFits
<1>1. IInv => OpenEntityFits
  <2> SUFFICES ASSUME IInv, EntityIsOpen, ~IsFinal
               PROVE  /\ entOpenLabel \in Labels
                      /\ entOpen < bI
                      /\ \A s \in sentStarts : ~(entOpen < s /\ s <= bI)
                      /\ entIOB[entOpen] = Begins
                      /\ \A t \in (entOpen + 1)..(bI - 1) : entIOB[t] = Inside
    BY DEF OpenEntityFits
  <2>1. \A t \in (entOpen + 1)..(bI - 1) : t \in Tokens /\ entOpen < t /\ t < bI
    BY Positions DEF IInv
  <2>2. QED
    BY <2>1 DEF IInv, OpenOK
<1>2. QED
  BY <1>1, Decoding, PTL

(* With a table that can leave what it begins, the decode is never stuck and *)
(* no entity is left open at the end.                                        *)
THEOREM NothingDropped == Spec => []NoEntityDropped
<1>1. IInv => NoEntityDropped
  BY CanLeaveMoves DEF IInv, NoEntityDropped, OpenOK
<1>2. QED
  BY <1>1, Decoding, PTL

-----------------------------------------------------------------------------
(* Reading the document back.                                              *)

(* The token behind a span does not carry it on.                             *)
LEMMA SpanEnds ==
  ASSUME IInv, NEW k \in Indices, entities[k].end < N
  PROVE  entities[k].end \in Tokens /\ entIOB[entities[k].end] # Inside
<1> DEFINE t == entities[k].end
<1>1. TypeOK /\ CodesOK /\ SpansOK /\ Ordered /\ SpanOK(k)
  BY DEF IInv, SpansOK
<1>2. t \in Tokens
  BY <1>1, Positions
<1>3. ASSUME entIOB[t] = Inside, NEW j \in Indices, entities[j].start < t, t < entities[j].end
      PROVE  FALSE
  <2>1. CASE j < k
    BY <1>1, <1>3, <2>1, Positions DEF Ordered, SpanOK
  <2>2. CASE k < j
    BY <1>1, <1>3, <2>2, Positions DEF Ordered, SpanOK
  <2>3. CASE j = k
    BY <1>1, <1>3, <2>3, Positions
  <2>4. QED
    BY <2>1, <2>2, <2>3 DEF Indices
<1>4. ~(EntityIsOpen /\ entOpen < t)
  BY <1>1, Positions DEF SpanOK
<1>5. QED
  BY <1>1, <1>2, <1>3, <1>4 DEF CodesOK

(* After the write-back: the codes and types of the document.                *)
LEMMA Written ==
  ASSUME IInv, pc = "done", NEW t \in Tokens
  PROVE  doc[t].iob = entIOB[t] /\ doc[t].type = EntTypeOf(t) /\ doc[t].iob # Missing
<1>1. bI = N /\ doc = [x \in Tokens |-> [iob |-> entIOB[x], type |-> EntTypeOf(x)]]
  BY Positions DEF IInv, DocOK
<1>2. entIOB[t] # Missing
  BY <1>1, Positions DEF IInv, CodesOK
<1>3. QED
  BY <1>1, <1>2

(* Every recorded span is read back, with its label.                         *)
LEMMA SpanIsRead ==
  ASSUME IInv, pc = "done", NEW k \in Indices
  PROVE  /\ IsStreamEntity(entities[k].start, entities[k].end)
         /\ doc[entities[k].start].type = entities[k].label
<1>1. TypeOK /\ SpansOK /\ Ordered /\ SpanOK(k)
  BY DEF IInv, SpansOK
<1>2. entities[k].start \in Tokens /\ entities[k].end \in 1..N
  BY <1>1, Positions
<1>3. doc[entities[k].start].iob = Begins /\ entities[k].start < entities[k].end
  BY <1>1, <1>2, Written DEF SpanOK
<1>4. ASSUME NEW t \in (entities[k].start + 1)..(entities[k].end - 1) PROVE doc[t].iob = Inside
  <2>1. t \in Tokens /\ entities[k].start < t /\ t < entities[k].end
    BY <1>1, <1>2, Positions
  <2>2. QED
    BY <1>1, <2>1, Written DEF SpanOK
<1>5. entities[k].end < N => doc[entities[k].end].iob # Inside
  BY SpanEnds, Written
<1>6. doc[entities[k].start].type = entities[k].label
  BY <1>1, <1>2, <1>3, Positions, Written, TypeWritten
<1>7. QED
  BY <1>3, <1>4, <1>5, <1>6 DEF IsStreamEntity

(* What is read back from a token that begins an entity ends where the span  *)
(* recorded for it ends.                                                     *)
LEMMA OneEnd ==
  ASSUME TypeOK, NEW s \in Tokens, NEW x \in 1..N, NEW y \in 1..N, IsStreamEntity(s, x), IsStreamEntity(s, y)
  PROVE  x = y
<1>1. ASSUME NEW a \in 1..N, NEW b \in 1..N, IsStreamEntity(s, a), IsStreamEntity(s, b), a < b
      PROVE  FALSE
  <2>1. a \in (s + 1)..(b - 1) /\ a < N
    BY <1>1, Positions DEF IsStreamEntity
  <2>2. QED
    BY <1>1, <2>1 DEF IsStreamEntity
<1>2. QED
  BY <1>1, Positions

(* What is read back is a recorded span, or the entity the forced end cut    *)
(* short, which has no type.                                                 *)
LEMMA ReadIsSpan ==
  ASSUME IInv, pc = "done", NEW s \in Tokens, NEW x \in 1..N, IsStreamEntity(s, x)
  PROVE  \/ \E k \in Indices : [start |-> s, end |-> x, label |-> doc[s].type] = entities[k]
         \/ doc[s].type = NoLabel /\ ~CanLeave
<1>1. TypeOK /\ OpenOK /\ CodesOK /\ SpansOK /\ Ordered /\ IsFinal
  BY DEF IInv, DocOK
<1>2. entIOB[s] = Begins
  BY Written DEF IsStreamEntity
<1>3. CASE \E k \in Indices : entities[k].start = s
  <2>1. PICK k \in Indices : entities[k].start = s
    BY <1>3
  <2>2. IsStreamEntity(s, entities[k].end) /\ doc[s].type = entities[k].label /\ entities[k].end \in 1..N
    BY <1>1, <2>1, SpanIsRead, Positions
  <2>3. entities[k].end = x
    BY <1>1, <2>2, OneEnd
  <2>4. entities[k] \in Span
    BY <1>1, Positions
  <2>5. entities[k] = [start |-> s, end |-> x, label |-> doc[s].type]
    BY <2>1, <2>2, <2>3, <2>4 DEF Span
  <2>6. QED
    BY <2>5
<1>4. CASE EntityIsOpen /\ entOpen = s
  <2>1. \A k \in Indices : ~(entities[k].start <= s /\ s < entities[k].end)
    BY <1>1, <1>4, Positions DEF SpansOK, SpanOK
  <2>2. doc[s].type = NoLabel
    BY <1>1, <2>1, TypeWritten, Written
  <2>3. QED
    BY <1>1, <1>4, <2>2 DEF OpenOK
<1>5. QED
  BY <1>1, <1>2, <1>3, <1>4 DEF CodesOK

(* The codes and the types of a finished document tell the same entities,     *)
(* those the decode recorded.                                                *)
THEOREM WriteBacksAgree == Spec => []StreamGivesEntities
<1>1. IInv => StreamGivesEntities
  <2> SUFFICES ASSUME IInv, pc = "done"
               PROVE  /\ \A t \in Tokens : doc[t].iob # Missing
                      /\ {e \in StreamEntities : e.label # NoLabel} = {entities[k] : k \in Indices}
                      /\ CanLeave => \A e \in StreamEntities : e.label # NoLabel
    BY DEF StreamGivesEntities, Indices
  <2>1. \A t \in Tokens : doc[t].iob # Missing
    BY Written
  <2>2. \A e : e \in StreamEntities <=>
          \E s \in Tokens, x \in 1..N :
            IsStreamEntity(s, x) /\ e = [start |-> s, end |-> x, label |-> doc[s].type]
    BY DEF StreamEntities
  <2>3. \A k \in Indices : entities[k].label # NoLabel
    BY Positions, LabelAssumption DEF IInv
  <2>4. ASSUME NEW k \in Indices PROVE entities[k] \in StreamEntities
    <3>1. entities[k] \in Span /\ entities[k].start \in Tokens /\ entities[k].end \in 1..N
      BY Positions DEF IInv
    <3>2. entities[k] = [start |-> entities[k].start, end |-> entities[k].end,
                         label |-> doc[entities[k].start].type]
      BY <3>1, SpanIsRead DEF Span
    <3>3. QED
      BY <2>2, <3>1, <3>2, SpanIsRead
  <2>5. ASSUME NEW e \in StreamEntities
        PROVE  \/ \E k \in Indices : e = entities[k]
               \/ e.label = NoLabel /\ ~CanLeave
    <3>1. PICK s \in Tokens, x \in 1..N :
            IsStreamEntity(s, x) /\ e = [start |-> s, end |-> x, label |-> doc[s].type]
      BY <2>2
    <3>2. QED
      BY <3>1, ReadIsSpan
  <2>6. {e \in StreamEntities : e.label # NoLabel} = {entities[k] : k \in Indices}
    BY <2>3, <2>4, <2>5
  <2>7. QED
    BY <2>1, <2>3, <2>5, <2>6
<1>2. QED
  BY <1>1, Decoding, PTL

-----------------------------------------------------------------------------
(* The refinement of EntityChunks.                                         *)

(* A recorded span is marked after the one before it and inside a sentence.  *)
LEMMA RecordMarks ==
  ASSUME IInv, NEW start \in Tokens, NEW label \in Labels, bI \in Tokens, start <= bI,
         pc = "decode", pc' = "decode", sentStarts' = sentStarts, RecordEntity(start, label),
         \/ EntityIsOpen /\ start = entOpen
         \/ ~EntityIsOpen /\ start = bI
  PROVE  \E e \in Chunks!Span : Chunks!Mark(e)
<1> DEFINE e == [start |-> start, end |-> bI + 1, label |-> label]
<1>1. TypeOK /\ OpenOK /\ SpansOK /\ ~IsFinal
  BY Positions DEF IInv
<1>2. e \in Chunks!Span
  BY <1>1, Positions DEF Chunks!Span, Tokens
<1>3. Chunks!Uncovered <= start
  <2>1. CASE entities = <<>>
    BY <1>1, <2>1, Positions DEF Chunks!Uncovered
  <2>2. CASE entities # <<>>
    <3>1. Len(entities) \in Indices
      BY <1>1, <2>2, Positions DEF Indices
    <3>2. SpanOK(Len(entities))
      BY <1>1, <3>1 DEF SpansOK
    <3>3. entities[Len(entities)].end <= start
      BY <1>1, <3>1, <3>2, Positions DEF SpanOK
    <3>4. QED
      BY <2>2, <3>3 DEF Chunks!Uncovered
  <2>3. QED
    BY <2>1, <2>2
<1>4. \A s \in sentStarts : ~(start < s /\ s < bI + 1)
  BY <1>1, Positions DEF OpenOK
<1>5. Chunks!Mark(e)
  BY <1>1, <1>3, <1>4, Positions DEF Chunks!Mark, RecordEntity
<1>6. QED
  BY <1>2, <1>5

(* Every step of the recognizer marks an entity, hands the entities over, or *)
(* is invisible to a reader of the entities.                                 *)
THEOREM Implements == Spec => ImplementsChunks
<1>1. Init => Chunks!Init
  BY DEF Init, Chunks!Init, Tokens
<1>2. IInv /\ [Next]_vars => [Chunks!Next]_(Chunks!vars)
  <2> SUFFICES ASSUME IInv, [Next]_vars PROVE Chunks!Next \/ UNCHANGED Chunks!vars
    OBVIOUS
  <2>1. ASSUME NEW label, Last(label) PROVE Chunks!Next
    <3>1. /\ bI \in Tokens /\ pc = "decode" /\ pc' = "decode" /\ sentStarts' = sentStarts
          /\ EntityIsOpen /\ entOpenLabel \in Labels
      BY <2>1, Consumes, Guards DEF IInv, OpenOK, Last, Continues
    <3>2. entOpen \in Tokens /\ entOpen <= bI
      BY <3>1, Positions DEF IInv, OpenOK
    <3>3. QED
      BY <2>1, <3>1, <3>2, RecordMarks DEF Last, Chunks!Next
  <2>2. ASSUME NEW label, Unit(label) PROVE Chunks!Next
    <3>1. /\ bI \in Tokens /\ pc = "decode" /\ pc' = "decode" /\ sentStarts' = sentStarts
          /\ ~EntityIsOpen /\ label \in Labels
      BY <2>2, Consumes, Guards DEF IInv, Unit
    <3>2. bI <= bI
      BY <3>1, Positions DEF IInv
    <3>3. QED
      BY <2>2, <3>1, <3>2, RecordMarks DEF Unit, Chunks!Next
  <2>3. ASSUME NEW label, Begin(label) \/ In(label) \/ Out(label) PROVE UNCHANGED Chunks!vars
    BY <2>3 DEF Begin, In, Out, Takes, Chunks!vars
  <2>4. CASE ForceFinal
    BY <2>4 DEF ForceFinal, Chunks!vars
  <2>5. CASE WriteBack
    BY <2>5 DEF WriteBack, Chunks!Next, Chunks!Settle
  <2>6. CASE UNCHANGED vars
    BY <2>6 DEF vars, Chunks!vars
  <2>7. QED
    BY <2>1, <2>2, <2>3, <2>4, <2>5, <2>6 DEF Next, Step
<1>3. QED
  BY <1>1, <1>2, Decoding, PTL DEF Spec, ImplementsChunks, Chunks!Spec
=============================================================================
