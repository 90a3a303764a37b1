------------------------------- MODULE Forests -------------------------------
(***************************************************************************)
(* Operators on head assignments: functions that give every token of a     *)
(* document the index of its head, or NoHead.  They name no state and are   *)
(* shared by the parser, the deprojectivizer and the abstract specification *)
(* of both.                                                                *)
(***************************************************************************)
EXTENDS Integers

NoHead == -1

(* The head of a token as the document stores it: a root is its own head. *)
SelfHeaded(head) ==
  [t \in DOMAIN head |-> IF head[t] = NoHead THEN t ELSE head[t]]

(* The reverse view, from a document's self-headed roots to NoHead. *)
Unrooted(head) ==
  [t \in DOMAIN head |-> IF head[t] = t THEN NoHead ELSE head[t]]

(***************************************************************************)
(* No head chain loops: every non-empty set of tokens has a member whose   *)
(* head lies outside it.  (A cycle would be a set that keeps all its       *)
(* heads.)  Stated with sets, it needs no transitive closure.              *)
(***************************************************************************)
Acyclic(head) ==
  \A X \in SUBSET DOMAIN head : X # {} => \E t \in X : head[t] \notin X

Min2(a, b) == IF a < b THEN a ELSE b
Max2(a, b) == IF a < b THEN b ELSE a

(* The tokens strictly under the arc that ends in c. *)
Under(head, c) ==
  {t \in DOMAIN head : /\ head[c] # NoHead
                       /\ Min2(c, head[c]) < t
                       /\ t < Max2(c, head[c])}

(***************************************************************************)
(* No two arcs cross and no arc passes over a root: a token under an arc   *)
(* has its own head inside that arc's span.                                *)
(***************************************************************************)
Projective(head) ==
  \A c \in DOMAIN head : \A t \in Under(head, c) :
    /\ head[t] # NoHead
    /\ Min2(c, head[c]) <= head[t]
    /\ head[t] <= Max2(c, head[c])

(* No arc reaches over the first token of a sentence. *)
WithinSentences(head, starts) ==
  \A c \in DOMAIN head : head[c] # NoHead =>
    \A s \in starts : ~(Min2(c, head[c]) < s /\ s <= Max2(c, head[c]))
=============================================================================
