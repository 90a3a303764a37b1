---------------------------- MODULE EntityChunks ----------------------------
(***************************************************************************)
(* What the named-entity recognizer promises: reading a document from left  *)
(* to right it marks labelled spans of tokens, each after the one before,   *)
(* each inside one sentence, and hands them over once.                      *)
(***************************************************************************)
EXTENDS Integers, Sequences

CONSTANTS N,        \* number of tokens
          Labels    \* entity labels

VARIABLES starts,   \* the tokens that start a sentence
          spans,    \* the entities, in document order: tokens [start, end)
          settled   \* the entities have been handed over

vars == <<starts, spans, settled>>

Span == [start : 0..(N - 1), end : 1..N, label : Labels]

Init ==
  /\ starts \in {s \in SUBSET (0..(N - 1)) : 0 \in s}
  /\ spans = <<>>
  /\ settled = FALSE

(* The first token no span covers yet. *)
Uncovered == IF spans = <<>> THEN 0 ELSE spans[Len(spans)].end

Mark(e) ==
  /\ ~settled
  /\ Uncovered <= e.start
  /\ e.start < e.end
  /\ \A s \in starts : ~(e.start < s /\ s < e.end)
  /\ spans' = Append(spans, e)
  /\ UNCHANGED <<starts, settled>>

Settle ==
  /\ ~settled
  /\ settled' = TRUE
  /\ UNCHANGED <<starts, spans>>

Next == (\E e \in Span : Mark(e)) \/ Settle

Spec == Init /\ [][Next]_vars
=============================================================================
