-------------------------- MODULE DependencyForest --------------------------
(***************************************************************************)
(* What the dependency parser promises, whatever its transition system:    *)
(* it grows a projective forest over the tokens of one document, arc by    *)
(* arc, may split the document into sentences as it goes but never through *)
(* an arc, and hands the result over once, after which nothing changes.    *)
(***************************************************************************)
EXTENDS Forests

CONSTANT N            \* number of tokens of the document

VARIABLES head,       \* head[t]: head of token t, or NoHead
          starts,     \* the tokens that start a sentence
          settled     \* the result has been handed over

vars == <<head, starts, settled>>

Tokens == 0..(N - 1)

Init ==
  /\ head = [t \in Tokens |-> NoHead]
  /\ starts = {0}
  /\ settled = FALSE

Good(h, s) == Acyclic(h) /\ Projective(h) /\ WithinSentences(h, s)

(* Give token c the head h, replacing the head it may already have. *)
Attach(c, h) ==
  /\ ~settled
  /\ head' = [head EXCEPT ![c] = h]
  /\ Good(head', starts)
  /\ UNCHANGED <<starts, settled>>

(* Start a sentence at token s. *)
Split(s) ==
  /\ ~settled
  /\ s \notin starts
  /\ starts' = starts \union {s}
  /\ Good(head, starts')
  /\ UNCHANGED <<head, settled>>

Settle ==
  /\ ~settled
  /\ settled' = TRUE
  /\ UNCHANGED <<head, starts>>

Next ==
  \/ \E c, h \in Tokens : Attach(c, h)
  \/ \E s \in Tokens : Split(s)
  \/ Settle

Spec == Init /\ [][Next]_vars
=============================================================================
